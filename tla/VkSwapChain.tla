----------------------------- MODULE VkSwapChain -----------------------------
(***************************************************************************)
(* ecs/rhi/vulkan/swap_chain.{h,cpp}: a swap chain that is initialised,    *)
(* resized and presented, in any order and however often, and what is left *)
(* of it when a step of Create fails.                                      *)
(*                                                                         *)
(* The driver is external: it may refuse a chain or a view, and reports    *)
(* its capabilities and formats anew each time.  A native chain is a       *)
(* number; objects are freed by CommonDeleter, which runs no destructor,   *)
(* so only Resize ever destroys one.  m_swapChain is the result parameter  *)
(* of the creation, so that one the driver refuses may leave any value in  *)
(* it: 0, which is no handle, or one that is no chain's.                   *)
(***************************************************************************)
EXTENDS VulkanDefs, Sequences, FiniteSets

CONSTANTS Capabilities,  \* what a surface may report: min and max image count
          FormatLists,   \* the formats it may report
          MaxChains,     \* bounds the native chains that are ever created
          IndexLimit     \* m_currentImageIndex is counted modulo this

ASSUME ChainAssumption == /\ Capabilities \subseteq [min : Nat, max : Nat]
                          /\ IndexLimit \in Nat \ {0}

VARIABLES state,     \* "made", "begun" with a surface, "alive" after a Create that
                     \* succeeded, "aborted"
          chain,     \* m_swapChain
          live,      \* the native chains that were created and not destroyed
          made,      \* how many native chains were created
          images,    \* m_swapChainImages, as the chain each belongs to
          views,     \* m_swapChainImageViews, likewise
          current,   \* m_currentImageIndex
          slips      \* history: the calls that may have left a native chain behind

chainVars == <<state, chain, live, made, images, views, current, slips>>

Wild == -1           \* a handle that is no chain's

ChainInit == /\ state = "made" /\ chain = 0 /\ live = {} /\ made = 0 /\ images = <<>>
             /\ views = <<>> /\ current = 0 /\ slips = 0

\* ChooseSwapSurfaceFormat, from a list of formats of one colour space.
Preferred == "eB8G8R8A8Srgb"
ChooseFormat(formats) ==
    IF formats = <<"eUndefined">> \/ \E i \in 1..Len(formats) : formats[i] = Preferred
    THEN Preferred ELSE formats[1]

\* ChooseSwapImageCount: one more than the least, but not past the most; a most
\* of 0 means that there is none.
ChooseCount(c) == IF c.max > 0 /\ c.min + 1 > c.max THEN c.max ELSE c.min + 1

\* Initialize sets m_surface before anything can fail.
Begun == IF state = "made" THEN "begun" ELSE state

\* The surface says that it has no room now.
Refused(c) == /\ c.min = 0 /\ state' = Begun
              /\ UNCHANGED <<chain, live, made, images, views, slips>>

\* createSwapchainKHR reports an error; what it leaves in m_swapChain is not known.
NotCreated == /\ chain' \in {chain, 0, Wild} /\ state' = Begun
              /\ slips' = slips + IF chain' = chain THEN 0 ELSE 1
              /\ UNCHANGED <<live, made, images, views>>

\* The new chain replaces m_swapChain, and its images and views the old ones;
\* k is 0, or the number of the view that the driver refuses: its image is in
\* place by then.  Destroying the chain before is Resize's part: old is what it
\* destroys.
Fill(c, k, old) ==
    /\ made < MaxChains /\ made' = made + 1 /\ chain' = made'
    /\ live' = (live \cup {made'}) \ old
    /\ \E count \in ChooseCount(c)..ChooseCount(c) + 1 :
          LET done == IF k = 0 THEN count ELSE k - 1 IN
          /\ k <= count
          /\ images' = [i \in 1..(IF k = 0 THEN count ELSE k) |-> made']
          /\ views' = [i \in 1..done |-> made']

\* Create to its end; an Initialize that is not the first destroys nothing.
CreateFilled(c, old) == /\ Wild \notin old /\ Fill(c, 0, old) /\ state' = "alive"
                        /\ slips' = slips + IF old = {} /\ made > 0 THEN 1 ELSE 0

\* Create up to a view that fails: the error is returned with the old chain left
\* alone.
CreateHalf(c) == /\ \E k \in 1..ChooseCount(c) : Fill(c, k, {})
                 /\ slips' = slips + 1 /\ state' = Begun

\* The process ends, and what it leaves is of no matter: FromVulkan does not know
\* the format of the chain, a query of the driver fails and throws out of a
\* function that is noexcept, there is no surface, or Resize destroys a handle
\* that is no chain's.
Aborts == /\ state' = "aborted"
          /\ UNCHANGED <<chain, live, made, images, views, slips>>

\* A plausible slip: the old chain is destroyed before its successor is created.
CreateEarly(old) ==
    \/ Aborts
    \/ \E c \in Capabilities, formats \in FormatLists :
          \/ Refused(c)
          \/ /\ c.min > 0 /\ live' = live \ old /\ state' = Begun
             /\ UNCHANGED <<chain, made, images, views, slips>>
          \/ /\ c.min > 0 /\ FromVulkanFormat(ChooseFormat(formats)) # Abort
             /\ (CreateFilled(c, old) \/ CreateHalf(c))

Create(old) ==
    \/ Aborts
    \/ \E c \in Capabilities, formats \in FormatLists :
          \/ Refused(c)
          \/ c.min > 0 /\ NotCreated
          \/ /\ c.min > 0 /\ FromVulkanFormat(ChooseFormat(formats)) # Abort
             /\ (CreateFilled(c, old) \/ CreateHalf(c))

\* Initialize creates a chain, whether or not there is one.
InitializeChain == Create({}) /\ UNCHANGED current

\* Resize creates another and destroys the one before, if that succeeds; before
\* Initialize there is no surface to ask.
Resize == /\ IF state = "made" THEN Aborts ELSE Create({chain})
          /\ UNCHANGED current

\* Present shows nothing yet; it counts.
Present == /\ current' = (current + 1) % IndexLimit
           /\ UNCHANGED <<state, chain, live, made, images, views, slips>>

ChainNext == InitializeChain \/ Resize \/ Present

-----------------------------------------------------------------------------
(* Properties *)

\* CurrentImageIndex
CurrentImageIndex == current % Len(images)

\* Once a Create has succeeded there is always an image to name, so the remainder
\* is by no zero; images and views are those of the chain that was made last,
\* which is never destroyed under them, even after a resize that failed or a
\* handle that was lost; a handle that is a chain's is of that one; and the
\* chains that are alive besides are no more than the calls that lose one: an
\* Initialize that is not the first, a Create that fails half-way, and a refusal
\* that spoils the handle.
ImagesMatchChain ==
    /\ state = "alive" => images # <<>> /\ CurrentImageIndex \in 0..Len(images) - 1
    /\ \A i \in 1..Len(images) : images[i] = made /\ made \in live
    /\ \A i \in 1..Len(views) : views[i] = made
    /\ Len(images) - Len(views) \in 0..1
    /\ chain \in {made, 0, Wild} /\ Cardinality(live \ {made}) <= slips
=============================================================================
