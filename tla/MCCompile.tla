----------------------------- MODULE MCCompile ------------------------------
(***************************************************************************)
(* The documents of MCLoader through the loader and the graphs of MCBuild  *)
(* through the build.  A behaviour is one of the two; part says which.     *)
(***************************************************************************)
EXTENDS MCLoader, MCBuild

VARIABLE part

Init ==
  \/ part = "load" /\ LoaderInit /\ cfg = PlainGraph /\ BuildStart
  \/ part = "build" /\ BuildInit /\ doc = Plain /\ LoaderStart

Next ==
  \/ part = "load" /\ LoaderNext /\ UNCHANGED <<part, buildVars>>
  \/ part = "build" /\ BuildNext /\ UNCHANGED <<part, loaderVars>>
=============================================================================
