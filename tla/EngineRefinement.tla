--------------------------- MODULE EngineRefinement ---------------------------
(* The engine, seen by clients that follow the prompts, is a FIFO run server  *)
(* per session. A run is over when its end was emitted.                       *)
EXTENDS Engine

Service == INSTANCE RunQueue
             WITH Sessions <- SessionIds, Runs <- RunIds, NoRun <- NoRun,
                  line <- queue, served <- active,
                  over <- {r \in Runs : Ended(r)}

\* Every step of the engine is a step of the FIFO server or changes nothing of it:
\* no run is lost, overtaken, served twice or served beside another, and an idle
\* session takes the next run in the same critical section.
ImplementsRunQueue == Service!Spec
===============================================================================
