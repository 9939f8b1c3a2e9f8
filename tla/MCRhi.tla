------------------------------- MODULE MCRhi -------------------------------
(* Instances of Rhi for TLC, and the tables of VulkanDefs checked on every
   enumerator. *)
EXTENDS Rhi

MCDevices == <<[discrete |-> FALSE, recent |-> TRUE,
                families |-> <<{"eGraphics", "eCompute", "eTransfer"}>>],
               [discrete |-> TRUE, recent |-> TRUE,
                families |-> <<{"eGraphics", "eCompute", "eTransfer"},
                               {"eCompute", "eTransfer"}>>]>>
MCJunk == {{}, {"ePresent"}}
MCBufferTypes == {{"eDirect"}, {"eTransfer"}, {"eDirect", "eCompute"}}
MCCapabilities == {[min |-> 0, max |-> 0], [min |-> 1, max |-> 0], [min |-> 2, max |-> 2]}
MCFormatLists == {<<"eB8G8R8A8Srgb">>, <<"eR8G8B8A8Unorm">>}
MCSymmetry == Permutations(Names)

-----------------------------------------------------------------------------
(* The tables of VulkanDefs *)

NoJunk == {}

\* What a table gives for each of names can be read back, except for those of lost.
Invertible(To(_), From(_), names, lost) ==
    {n \in names : To(n) = Abort \/ From(To(n)) # n} = lost

\* Every enumerator of ecs/rhi/defs.h has a Vulkan counterpart that is taken back
\* to it, but for the presenting bit, which becomes the graphics bit, and an
\* indirect buffer that is converted as a single bit.
ASSUME TablesInvert ==
    /\ Invertible(ToVulkanQueueBit, FromVulkanQueueBit, QueueBits, {"ePresent"})
    /\ Invertible(ToVulkanStageBit, FromVulkanStageBit, ShaderBits, {})
    /\ \A bits \in SUBSET QueueBits :
          LET back == FromVulkanQueue(ToVulkanQueue(bits), NoJunk) IN
          back = (bits \ {"ePresent"}) \cup IF "ePresent" \in bits THEN {"eDirect"} ELSE {}
    /\ \A bits \in SUBSET ShaderBits : FromVulkanStages(ToVulkanStages(bits), NoJunk) = bits
    /\ LET usages == {p[1] : p \in ImageUsages} IN
       /\ Invertible(ToVulkanImageUsageBit, FromVulkanImageUsageBit, usages, {})
       /\ \A bits \in SUBSET usages :
          FromVulkanImageUsage(ToVulkanImageUsage(bits), NoJunk) = bits
    /\ LET usages == {p[1] : p \in BufferUsages} IN
       /\ \A bits \in SUBSET usages :
             FromVulkanBufferUsage(ToVulkanBufferUsage(bits), NoJunk) = bits
       /\ Invertible(ToVulkanBufferBit, FromVulkanBufferBit, usages, {"eIndirectBuffer"})
    /\ LET counts == {p[1] : p \in SampleCounts} IN
       \A bits \in SUBSET counts :
          FromVulkanSampleCounts(ToVulkanSampleCounts(bits)) = bits
    /\ Invertible(ToVulkanFormat, FromVulkanFormat, PixelFormats, {})
    /\ Invertible(VertexFormatToVulkan, VectextFormatFromVulkan,
                  {p[1] : p \in VertexFormats}, {})
    /\ Invertible(ToVulkanViewType, FromVulkanViewType, ViewTypes, {})
    /\ Invertible(ToVulkanAspectBit, FromVulkanAspectBit, AspectBits, {})
    /\ \A bits \in SUBSET AspectBits : FromVulkanAspect(ToVulkanAspect(bits)) = bits
    /\ Invertible(ToVulkanSwizzle, FromVulkanSwizzle, Swizzles, {})
    /\ Invertible(ToVulkanLoad, FromVulkanLoad, {p[1] : p \in LoadOps}, {})
    /\ Invertible(ToVulkanStore, FromVulkanStore, {p[1] : p \in StoreOps}, {})

\* The source and the destination of a resolve are given one layout, and it is
\* that of a copy's source.
ASSUME ResolveLayouts ==
    {l \in {p[1] : p \in Layouts} : ToVulkanLayout(l) = "eTransferSrcOptimal"}
        = {"eCopySource", "eResolveSource", "eResolveDestination"}

\* The sizes of FormatSize are those of the channels.
Channels == [R8 |-> <<8>>, R4G4 |-> <<4, 4>>, R5G6B5 |-> <<5, 6, 5>>,
             A1R5G5B5 |-> <<1, 5, 5, 5>>, R8G8 |-> <<8, 8>>, R16 |-> <<16>>,
             R8G8B8 |-> <<8, 8, 8>>, R8G8B8A8 |-> <<8, 8, 8, 8>>,
             A2B10G10R10 |-> <<2, 10, 10, 10>>, B10G11R11 |-> <<10, 11, 11>>,
             E5B9G9R9 |-> <<5, 9, 9, 9>>, R16G16 |-> <<16, 16>>, R32 |-> <<32>>,
             R16G16B16 |-> <<16, 16, 16>>, R32G32 |-> <<32, 32>>, R64 |-> <<64>>,
             R16G16B16A16 |-> <<16, 16, 16, 16>>, R32G32B32 |-> <<32, 32, 32>>,
             R32G32B32A32 |-> <<32, 32, 32, 32>>, R64G64 |-> <<64, 64>>,
             R64G64B64 |-> <<64, 64, 64>>, R64G64B64A64 |-> <<64, 64, 64, 64>>]
ASSUME SizesAreBytes ==
    \A f \in DOMAIN Channels : 8 * FormatSize(f) = FoldLeft(+, 0, Channels[f])
=============================================================================
