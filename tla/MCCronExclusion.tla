--------------------------- MODULE MCCronExclusion ---------------------------
(* Instances of CronExclusion: three jobs a, b, c, where a excludes b and c  *)
(* excludes a; the rows were entered from both sides.                        *)
EXTENDS CronExclusion

CONSTANTS a, b, c, w1

Star == {<<a, b>>, <<c, a>>}

\* Only w1 has to take its turn.
OneFairSpec == /\ Spec
               /\ WF_vars(WorkerStep(w1))
               /\ \A s \in Session: WF_vars(EndManualRun(s))

\* When no other worker works, an active job whose time has come is run,
\* although a user may hold the rows it needs and make the round fail.
DueJobsRunAlone == [](\A w \in Worker \ {w1}: cr[w] = Idle) => DueJobsRun
==============================================================================
