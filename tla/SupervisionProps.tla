-------------------------- MODULE SupervisionProps ----------------------------
(***************************************************************************)
(* What must be true of Supervision, and what the repository says of it.   *)
(***************************************************************************)
EXTENDS Supervision

\* The types of the variables; a thread is in terminate_process_tree just when
\* it has called it, and the watchdog has its manager until the process exits.
TypeOK ==
  /\ jpc \in {"spawn", "register", "heartbeat", "watch", "loop", "judging", "exit", "reap",
              "exited"} \cup Closing
  /\ at \in Agents /\ verdict \in BOOLEAN
  /\ path \in {"none", "concluded", "truncated", "ending"}
  /\ dpc \in {"off", "stopped", "dead"} \cup Watching
  /\ todo \in Seq(Agents)
  /\ late \subseteq Agents /\ registry \subseteq Agents
  /\ age \in [Agents -> 0 .. Expired]
  /\ stopping \in BOOLEAN /\ manager \in BOOLEAN
  /\ dpc \in Watching => manager \/ jpc \in {"exit", "reap", "exited"}
  /\ tree \in [Threads -> {"none", "find", "term", "wait", "kill", "final", "true", "false",
                           "raised"}]
  /\ \A t \in Threads : Calling(t) <=> tree[t] # "none"
  /\ proc \in [Agents -> {"unborn", "zombie", "gone"} \cup Living]
  /\ beats \in [Agents -> 0 .. 1] /\ faults \in 0 .. MaxFaults

\* Once terminate_children is through, no child is left, not even as a zombie,
\* and the watchdog no longer runs; what nothing can kill is the exception.
ClosedMeansGone ==
  jpc = "judging" \/ verdict =>
    /\ \A a \in Agents : proc[a] \in {"gone", "stuck"}
    /\ dpc \notin Watching

\* The watchdog terminates no child that runs, neither one that has just been
\* registered nor one whose heartbeats are handled, and none twice: before the
\* judge terminates them, a child that it finds silent has not been waited for.
OnlySilentTerminated ==
  [][dpc = "scan" /\ dpc' = "kill" =>
       /\ proc[Head(todo)] # "running"
       /\ path = "none" => proc[Head(todo)] # "gone"]_vars

\* A child that freezes or dies is waited for, by one of the two threads, or
\* the judge ends; no race between them makes the watchdog miss it.
StalledReaped ==
  \A a \in Agents :
    proc[a] \in {"stalled", "zombie"} ~> proc[a] = "gone" \/ jpc = "exited"

\* Terminating the children ends, whichever call raises: in a judgment or in
\* the end of the process, which waits for ever only for what nothing can kill.
ClosingEnds ==
  jpc \in Closing ~>
    \/ jpc \in {"judging", "exited"}
    \/ jpc = "reap" /\ \E a \in Agents : proc[a] = "stuck"

\* How far the end has come: the judge is through with the children when it judges,
\* and over when it ends without a judgment or after one.
Stage ==
  IF jpc = "spawn" THEN "before"
  ELSE IF jpc \in {"exit", "reap", "exited"} \/ (path = "ending" /\ ~verdict) THEN "over"
  ELSE IF verdict THEN "judged"
  ELSE IF path = "none" THEN "open"
  ELSE IF jpc = "judging" THEN "closed" ELSE "closing"

\* Between them the calls of the judge and of the watchdog, and whatever they raise,
\* end the debate as DebateEnd does: closing begins under the watchdog's eyes, the
\* judge judges once, behind an ended watchdog and dead children.
End ==
  INSTANCE DebateEnd
    WITH stage <- Stage,
         alive <- {a \in Agents : proc[a] \in {"running", "stalled"}},
         watching <- dpc \in Watching
EndsInOrder == End!Spec

-------------------------------------------------------------------------------
(* What the repository says and the code does not do. *)

\* PRD.md:87: a debate that came to its end, or whose budget did, has a winner.
WinnerDeclared ==
  [][(path \in {"concluded", "truncated"} /\ (path' = "ending" \/ jpc' = "exit")) => verdict']_vars
==============================================================================
