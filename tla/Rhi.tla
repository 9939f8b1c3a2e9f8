-------------------------------- MODULE Rhi --------------------------------
(***************************************************************************)
(* The Vulkan backend as a client of ecs/rhi sees it: a context, the swap  *)
(* chain that it creates, and a builder of render passes.  The calls come  *)
(* from one thread, and nothing in the repository calls Initialize of a    *)
(* context or a swap chain yet, so the client is external: it may make any *)
(* call at any time, but initialises a context once, and asks for a swap   *)
(* chain only of one that is ready.                                        *)
(***************************************************************************)
EXTENDS VkContext, VkSwapChain, RenderPassBuilder

CONSTANT MaxCalls      \* bounds the calls of a behaviour

VARIABLE calls         \* how many calls were made

rhiVars == <<contextVars, chainVars, builderVars, calls>>

Init == ContextInit /\ ChainInit /\ BuilderInit /\ calls = 0

\* Each call is one of an object, and ends before the next begins, or the process.
Call == calls < MaxCalls /\ calls' = calls + 1 /\ "aborted" \notin {ctx, state}

UseContext == Call /\ ContextNext /\ UNCHANGED <<chainVars, builderVars>>
UseChain == Call /\ ctx = "ready" /\ ChainNext /\ UNCHANGED <<contextVars, builderVars>>
UseBuilder == Call /\ BuilderNext /\ UNCHANGED <<contextVars, chainVars>>

Next == UseContext \/ UseChain \/ UseBuilder

Spec == Init /\ [][Next]_rhiVars
=============================================================================
