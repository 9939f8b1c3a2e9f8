---------------------------- MODULE MCThreadpool ----------------------------
(* Instances of Threadpool for TLC.                                        *)
EXTENDS Threadpool

\* No group, each group, AnyThread, the event loop's thread.  The workers'
\* tokens come from GetAnyThreadToken.
SomeConfigs == {-4, -3, -2, -1, N}
=============================================================================
