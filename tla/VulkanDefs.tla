----------------------------- MODULE VulkanDefs -----------------------------
(***************************************************************************)
(* ecs/rhi/vulkan/defs.cpp: the tables that take the enumerators of        *)
(* ecs/rhi/defs.h to Vulkan's and back, and vulkan/utils/format_size.cpp.  *)
(* An enumerator is its name, and where both sides have the same name a    *)
(* table is the identity on its domain; a set of flags is a set of names.  *)
(* Abort stands for std::abort or std::unreachable in place of a result.   *)
(***************************************************************************)
EXTENDS Integers

Abort == "abort"

\* The table of pairs ps read in one direction, for a value v.
Read(ps, v) == IF \E p \in ps : p[1] = v
               THEN (CHOOSE p \in ps : p[1] = v)[2] ELSE Abort
ReadOr(ps, v, default) == IF Read(ps, v) = Abort THEN default ELSE Read(ps, v)
Back(ps) == {<<p[2], p[1]>> : p \in ps}
Same(names) == {<<n, n>> : n \in names}

\* What a set of flags becomes, bit by bit.
Each(ps, flags) == {p[2] : p \in {q \in ps : q[1] \in flags}}

-----------------------------------------------------------------------------
(* Queues *)

QueueBits == {"eDirect", "eCompute", "eTransfer", "ePresent"}

\* Two bits share one: Vulkan has none for presenting.
QueueTable == {<<"eDirect", "eGraphics">>, <<"eCompute", "eCompute">>,
               <<"eTransfer", "eTransfer">>}
PresentTable == {<<"ePresent", "eGraphics">>}

ToVulkanQueueBit(bit) == ReadOr(QueueTable, bit, "eGraphics")
FromVulkanQueueBit(bit) == Read(Back(QueueTable), bit)
ToVulkanQueue(bits) == Each(QueueTable \cup PresentTable, bits)

\* FromVulkan(vk::QueueFlags): bits are or-ed into a result that nothing has
\* initialised, so those of the junk are in it as well.
FromVulkanQueue(bits, junk) == Each(Back(QueueTable), bits) \cup junk

-----------------------------------------------------------------------------
(* Shader stages *)

ShaderBits == {"eVertex", "eFragment", "eCompute", "eGeometry",
               "eTessellationControl", "eTessellationEvaluation"}

ToVulkanStageBit(bit) == ReadOr(Same(ShaderBits), bit, "eVertex")
FromVulkanStageBit(bit) == Read(Same(ShaderBits), bit)
ToVulkanStages(bits) == Each(Same(ShaderBits), bits)
FromVulkanStages(bits, junk) == Each(Same(ShaderBits), bits) \cup junk

-----------------------------------------------------------------------------
(* Usages of images and buffers *)

ImageUsages == {<<"eStorageImage", "eStorage">>, <<"eSampledImage", "eSampled">>,
                <<"eTransferSrc", "eTransferSrc">>, <<"eTransferDst", "eTransferDst">>,
                <<"eColorAttachment", "eColorAttachment">>,
                <<"eDepthStencilAttachment", "eDepthStencilAttachment">>}

ToVulkanImageUsageBit(bit) == Read(ImageUsages \cup {<<"eUndefined", "eStorage">>}, bit)
FromVulkanImageUsageBit(bit) == Read(Back(ImageUsages), bit)
ToVulkanImageUsage(bits) == Each(ImageUsages, bits)
FromVulkanImageUsage(bits, junk) == Each(Back(ImageUsages), bits) \cup junk

BufferUsages == Same({"eVertexBuffer", "eIndexBuffer", "eUniformBuffer",
                      "eStorageBuffer", "eIndirectBuffer", "eTransferSrc",
                      "eTransferDst"})

\* The conversion of a single bit takes an indirect buffer for an index buffer.
FromVulkanBufferBit(bit) ==
    IF bit = "eIndirectBuffer" THEN "eIndexBuffer" ELSE Read(BufferUsages, bit)
ToVulkanBufferBit(bit) == Read(BufferUsages, bit)

ToVulkanBufferUsage(bits) == Each(BufferUsages, bits)
FromVulkanBufferUsage(bits, junk) == Each(BufferUsages, bits) \cup junk

-----------------------------------------------------------------------------
(* Formats *)

PixelFormats == {"eR8G8B8A8Unorm", "eB8G8R8A8Unorm", "eR16G16B16A16Sfloat",
                 "eD32Sfloat", "eD24UnormS8Uint"}

ToVulkanFormat(f) == Read(Same(PixelFormats), f)
FromVulkanFormat(f) == Read(Same(PixelFormats), f)

VertexFormats == {<<"eUndefined", "eUndefined">>,
                  <<"eFloat32", "eR32Sfloat">>, <<"eFloat32x2", "eR32G32Sfloat">>,
                  <<"eFloat32x3", "eR32G32B32Sfloat">>,
                  <<"eFloat32x4", "eR32G32B32A32Sfloat">>,
                  <<"eUint32", "eR32Uint">>, <<"eUint32x2", "eR32G32Uint">>,
                  <<"eUint32x3", "eR32G32B32Uint">>,
                  <<"eUint32x4", "eR32G32B32A32Uint">>}

VertexFormatToVulkan(f) == Read(VertexFormats, f)
VectextFormatFromVulkan(f) ==
    IF f \in {p[2] : p \in VertexFormats} THEN Read(Back(VertexFormats), f)
                                          ELSE "eUndefined"

-----------------------------------------------------------------------------
(* Views, aspects, swizzles *)

ViewTypes == {"e1D", "e2D", "e3D", "eCube", "e1DArray", "e2DArray", "eCubeArray"}
ToVulkanViewType(t) == Read(Same(ViewTypes), t)
FromVulkanViewType(t) == Read(Same(ViewTypes), t)

AspectBits == {"eColor", "eDepth", "eStencil"}
ToVulkanAspectBit(bit) == Read(Same(AspectBits), bit)
FromVulkanAspectBit(bit) == Read(Same(AspectBits), bit)
ToVulkanAspect(bits) == Each(Same(AspectBits), bits)
FromVulkanAspect(bits) == Each(Same(AspectBits), bits)

Swizzles == {"eIdentity", "eZero", "eOne", "eR", "eG", "eB", "eA"}
ToVulkanSwizzle(s) == Read(Same(Swizzles), s)
FromVulkanSwizzle(s) == Read(Same(Swizzles), s)

-----------------------------------------------------------------------------
(* Attachments *)

\* Casts: both sides number the counts of samples by the same bits.
SampleCounts == Same({"e1", "e2", "e4", "e8", "e16", "e32", "e64"})
ToVulkanSampleCounts(bits) == Each(SampleCounts, bits)
FromVulkanSampleCounts(bits) == Each(Back(SampleCounts), bits)

LoadOps == {<<"eLoad", "eLoad">>, <<"eClear", "eClear">>,
            <<"eDiscard", "eDontCare">>, <<"eUndefined", "eNone">>}
ToVulkanLoad(op) == Read(LoadOps, op)
FromVulkanLoad(op) == IF op \in {p[2] : p \in LoadOps} THEN Read(Back(LoadOps), op)
                                                       ELSE "eUndefined"

StoreOps == {<<"eStore", "eStore">>, <<"eDiscard", "eDontCare">>,
             <<"eUndefined", "eNone">>}
ToVulkanStore(op) == Read(StoreOps, op)
FromVulkanStore(op) == IF op \in {p[2] : p \in StoreOps} THEN Read(Back(StoreOps), op)
                                                         ELSE "eUndefined"

\* Four layouts share another's: of those, the one of a resolve's destination is
\* given the layout of a transfer's source.
Layouts == {<<"eUndefined", "eUndefined">>, <<"eCommon", "eGeneral">>,
            <<"eUnorderedAccess", "eGeneral">>, <<"eUninitialized", "eUndefined">>,
            <<"eRenderTarget", "eColorAttachmentOptimal">>,
            <<"eDepthStencilWrite", "eDepthStencilAttachmentOptimal">>,
            <<"eDepthStencilRead", "eDepthStencilReadOnlyOptimal">>,
            <<"eShaderResource", "eShaderReadOnlyOptimal">>,
            <<"eCopySource", "eTransferSrcOptimal">>,
            <<"eCopyDestination", "eTransferDstOptimal">>,
            <<"ePresent", "ePresentSrcKHR">>,
            <<"eResolveSource", "eTransferSrcOptimal">>,
            <<"eResolveDestination", "eTransferSrcOptimal">>}
ToVulkanLayout(l) == ReadOr(Layouts, l, "eUndefined")

-----------------------------------------------------------------------------
(* FormatSize: the bytes of a texel, for each layout of channels, whatever their
   numeric type; 0 for the formats that the table does not have.  The table lists
   the channels that are packed into a word or are bytes, then those of 16 bits,
   then those of 32 and 64.                                                    *)

ByteChannels(f) ==
    CASE f \in {"R4G4", "R8"}                                       -> 1
      [] f \in {"R4G4B4A4", "B4G4R4A4", "R5G6B5", "B5G6R5", "R5G5B5A1", "B5G5R5A1",
                "A1R5G5B5", "R8G8"}                                 -> 2
      [] f \in {"R8G8B8", "B8G8R8"}                                 -> 3
      [] f \in {"R8G8B8A8", "B8G8R8A8"}                             -> 4
      [] OTHER                                                      -> 0

PackedChannels(f) == IF f \in {"A8B8G8R8", "A2R10G10B10", "A2B10G10R10"} THEN 4 ELSE 0

HalfChannels(f) ==
    CASE f = "R16"          -> 2
      [] f = "R16G16"       -> 4
      [] f = "R16G16B16"    -> 6
      [] f = "R16G16B16A16" -> 8
      [] OTHER              -> 0

WordChannels(f) ==
    CASE f \in {"R32", "B10G11R11", "E5B9G9R9"} -> 4
      [] f \in {"R32G32", "R64"}                -> 8
      [] f = "R32G32B32"                        -> 12
      [] f \in {"R32G32B32A32", "R64G64"}       -> 16
      [] f = "R64G64B64"                        -> 24
      [] f = "R64G64B64A64"                     -> 32
      [] OTHER                                  -> 0

FormatSize(f) == ByteChannels(f) + PackedChannels(f) + HalfChannels(f) + WordChannels(f)
=============================================================================
