------------------------------ MODULE MCReaders ------------------------------
(***************************************************************************)
(* What reaches a caller of files, streams and source text, on small       *)
(* instances: the artifact readers, the formatter, the heartbeat, the      *)
(* captured output and the source analysis.  The five share no state, so   *)
(* that a behavior of one beside the others shows nothing that a behavior  *)
(* of it alone does not: one of them moves, and it is chosen at the start. *)
(***************************************************************************)
EXTENDS Artifacts, Formats, Heartbeat, Output, Source, TLC

CONSTANTS b1, b2, c1, c2, c3

\* One build lists a circuit that it proves and one that it does not, and its
\* files fit the cap; the info file of the other is longer.
MCListed == (b1 :> <<c1, c2>>) @@ (b2 :> <<c3>>)
MCProved == (b1 :> {c1}) @@ (b2 :> {c3})
MCLength == (b1 :> (<<"info", Nil>> :> 2 @@ <<"zkir", c1>> :> 1))
            @@ (b2 :> (<<"info", Nil>> :> 4 @@ <<"prover", c1>> :> 1))
MCKinds == <<"zkir", "prover">>

\* Streams shorter than the cap, as long and longer; with and without a line end;
\* a structured line first, later, without its message, cut by the cap and glued
\* to the other stream; versions with and without a separator and platforms.
MCPrinted ==
  [out : {<<>>, <<"ex1", "ex2", "gap", "word">>, <<"word", "nl", "ver", "word">>,
          <<"ver", "nl", "arrow", "ver", "sep", "word", "nl">>,
          <<"arrow", "ver", "sep", "word">>, <<"arrow", "gap", "arrow", "ver">>},
   err : {<<>>, <<"ex1", "ex2", "gap", "nl">>, <<"nl", "ex1", "ex2", "sep">>,
          <<"word", "nl", "ex1", "ex2", "gap", "word">>,
          <<"ex1", "ex1", "ex2", "sep", "nl">>}]

VARIABLE part

allVars == <<part, artVars, fmtVars, beatVars, outVars, srcVars>>

Init ==
  /\ part \in {"artifacts", "formats", "heartbeat", "output", "source"}
  /\ ArtInit /\ BeatInit /\ SrcInit
  /\ IF part = "formats" THEN FmtInit ELSE FmtInit /\ text = Clean
  /\ IF part = "output" THEN OutInit
     ELSE OutInit /\ tool = "line" /\ prints = [s \in Streams |-> <<>>]

Next ==
  /\ UNCHANGED part
  /\ \/ /\ part = "artifacts" /\ ArtNext
        /\ UNCHANGED <<fmtVars, beatVars, outVars, srcVars>>
     \/ /\ part = "formats" /\ FmtNext
        /\ UNCHANGED <<artVars, beatVars, outVars, srcVars>>
     \/ /\ part = "heartbeat" /\ BeatNext
        /\ UNCHANGED <<artVars, fmtVars, outVars, srcVars>>
     \/ /\ part = "output" /\ OutNext
        /\ UNCHANGED <<artVars, fmtVars, beatVars, srcVars>>
     \/ /\ part = "source" /\ SrcNext
        /\ UNCHANGED <<artVars, fmtVars, beatVars, outVars>>

Spec == Init /\ [][Next]_allVars

CallSymmetry == Permutations(Calls)
=============================================================================
