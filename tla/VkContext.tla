------------------------------ MODULE VkContext ------------------------------
(***************************************************************************)
(* ecs/rhi/vulkan/context.{h,cpp}: the choice of a physical device, its    *)
(* queues and command pools, and the queue that a command buffer of a      *)
(* given type is made for.                                                 *)
(*                                                                         *)
(* A physical device is external: a record of its kind, its version and    *)
(* the queue flags of its families.  Two reads are of values that the code *)
(* does not set: the flags that FromVulkan ors bits into, whose bits that  *)
(* are no queue's are left out, and the device that findQueueFamilies asks *)
(* for surface support, a member that the search sets only when it is      *)
(* over: either gives any answer here, and the latter may end the process. *)
(***************************************************************************)
EXTENDS VulkanDefs, Sequences, FiniteSets

CONSTANTS Devices,       \* the physical devices, in the instance's order
          Surfaces,      \* whether Initialize is given a surface or none
          Junk,          \* what a result that is not initialised may hold
          BufferTypes,   \* the types that command buffers are created for
          Null

\* The families of a device are a list of sets of bits.
ASSUME ContextAssumption ==
    /\ \A d \in 1..Len(Devices) : Devices[d].families \in Seq(SUBSET STRING)
    /\ Junk \subseteq SUBSET QueueBits

VARIABLES ctx,        \* "made", "ready", "failed", "aborted"
          device,     \* m_physicalDevice, as an index into Devices, or Null
          queueInfos, \* m_queueFamilyIndices.queueInfos; real is history: the flags that
                      \* are no junk
          pools,      \* m_cmdPools, as the family of each
          buffers     \* history: the command buffers that were created

contextVars == <<ctx, device, queueInfos, pools, buffers>>

ContextInit == /\ ctx = "made" /\ device = Null /\ queueInfos = <<>>
               /\ pools = <<>> /\ buffers = {}

Required == {"eDirect", "eCompute", "eTransfer", "ePresent"}

\* QueueFamilyIndices::IsComplete: the families have the flags between them.
IsComplete(infos) == Required \subseteq UNION {infos[i].flags : i \in 1..Len(infos)}

\* findQueueFamilies: the flags of each family, in order, with an answer on whether
\* it presents.
QueueInfo(i, family, present, junk) ==
    LET real == FromVulkanQueue(family, {}) \cup present
    IN  [index |-> i - 1, real |-> real, flags |-> real \cup junk]

FindQueueFamilies(d, surface) ==
    LET families == Devices[d].families
        answers == IF surface THEN {{}, {"ePresent"}} ELSE {{}} IN
    {[i \in DOMAIN families |-> QueueInfo(i, families[i], present[i], junk[i])] :
        present \in [DOMAIN families -> answers], junk \in [DOMAIN families -> Junk]}

Eligible(d) == Devices[d].discrete /\ Devices[d].recent

\* PickPhysicalDevice takes the first eligible device whose families look
\* complete, so those before it looked incomplete.
MayLookIncomplete(d, surface) ==
    Eligible(d) => \E infos \in FindQueueFamilies(d, surface) : ~IsComplete(infos)

Pick(surface) ==
    \E d \in 1..Len(Devices) :
        /\ Eligible(d) /\ \A c \in 1..d - 1 : MayLookIncomplete(c, surface)
        /\ \E infos \in FindQueueFamilies(d, surface) :
              IsComplete(infos) /\ device' = d /\ queueInfos' = infos

NonePicked(surface) == /\ \A d \in 1..Len(Devices) : MayLookIncomplete(d, surface)
                       /\ UNCHANGED <<device, queueInfos>>

\* CreateCommandPool: the pool of a queue is made for the family whose index is
\* the queue's position.
PoolFamilies(n) == [i \in 1..n |-> i - 1]

\* Initialize: pick a device; create the logical device, one queue of each
\* family and a pool of each queue; stop at the first step that fails.  The
\* process ends if the driver does not take the null device that it is asked
\* about, or if a query throws, as Initialize is noexcept.
Initialize(surface) ==
    /\ ctx = "made" /\ UNCHANGED buffers
    /\ \/ Pick(surface) /\ ctx' = "ready" /\ pools' = PoolFamilies(Len(queueInfos'))
       \/ /\ Pick(surface) /\ ctx' = "failed"
          /\ \E n \in 0..Len(queueInfos') - 1 : pools' = PoolFamilies(n)
       \/ NonePicked(surface) /\ ctx' = "failed" /\ UNCHANGED pools
       \/ ctx' = "aborted" /\ UNCHANGED <<device, queueInfos, pools>>

-----------------------------------------------------------------------------
(* GetQueueIndex: one pass over the queues *)

\* A count that no queue reaches stands for INT_MAX.
None == [index |-> Null, extra |-> Cardinality(QueueBits) + 1, exact |-> FALSE]

Extra(p, need) == Cardinality(queueInfos[p].flags \ need)

\* A plausible slip: a queue that has one of the flags passes for one that has all.
BetterAny(best, p, need) ==
    IF best.exact \/ need \cap queueInfos[p].flags = {} \/ Extra(p, need) >= best.extra
    THEN best
    ELSE [index |-> p, extra |-> Extra(p, need), exact |-> Extra(p, need) = 0]

\* A queue that has the flags replaces the best so far when it has fewer others;
\* an exact one ends the pass.
Better(best, p, need) ==
    IF best.exact \/ ~(need \subseteq queueInfos[p].flags) \/ Extra(p, need) >= best.extra
    THEN best
    ELSE [index |-> p, extra |-> Extra(p, need), exact |-> Extra(p, need) = 0]

GetQueueIndex(need) ==
    LET best[p \in 0..Len(queueInfos)] ==
            IF p = 0 THEN None ELSE Better(best[p - 1], p, need)
    IN  best[Len(queueInfos)].index

\* CreateCommandBuffer refuses an index past the pools, of which there may be
\* fewer than queues when Initialize failed.
CreateCommandBuffer(need) ==
    LET p == GetQueueIndex(need) IN
    /\ p # Null /\ p <= Len(pools)
    /\ buffers' = buffers \cup {[need |-> need, queue |-> p, pool |-> pools[p]]}
    /\ UNCHANGED <<ctx, device, queueInfos, pools>>

ContextNext == \/ \E surface \in Surfaces : Initialize(surface)
               \/ \E need \in BufferTypes : CreateCommandBuffer(need)

-----------------------------------------------------------------------------
(* Properties *)

\* The flags of queue p hold junk.
Spoilt(p) == queueInfos[p].flags # queueInfos[p].real

\* The family of queue p does every kind of work in need.
Serves(p, need) == need \subseteq queueInfos[p].real

\* A command buffer has a pool of its queue's own family; its queue does every
\* kind of work of its type, unless junk spoilt the flags of that very queue; and
\* no queue that serves, with flags of its own, has fewer besides.  So it is after
\* an Initialize that failed half-way, too.
QueuesServe ==
    \A b \in buffers :
        /\ b.pool = queueInfos[b.queue].index
        /\ Spoilt(b.queue) \/ Serves(b.queue, b.need)
        /\ \A p \in 1..Len(queueInfos) :
               ~Spoilt(p) /\ Serves(p, b.need) => Extra(b.queue, b.need) <= Extra(p, b.need)
=============================================================================
