------------------------- MODULE RenderPassBuilder -------------------------
(***************************************************************************)
(* ecs/rhi/render_pass.{h,cpp}: the builder that collects the attachments, *)
(* subpasses and dependencies of a render pass, and, from                  *)
(* ecs/rhi/vulkan/render_pass.cpp, what the driver is given of them.       *)
(*                                                                         *)
(* An attachment is its number among all that were ever added.  A reference*)
(* is an index, as in the code, together with the attachment that the      *)
(* caller means by it.  The asserts are guards: callers keep them.         *)
(***************************************************************************)
EXTENDS Integers, Sequences, SequencesExt

CONSTANTS Names,           \* the names that attachments are given
          MaxAttachments,  \* bounds the attachments that are ever added
          MaxRefs,         \* bounds the references of one list of a subpass
          MaxSubpasses,    \* bounds the subpasses of a pass
          MaxDependencies  \* bounds the dependencies of a pass

VARIABLES attachments,  \* m_attachments
          nameToIndex,  \* m_nameToIndex
          active,       \* m_activeSubpass: a sequence of at most one
          subpasses,    \* m_subpasses
          dependencies, \* m_dependencies, those that the helpers make
          added,        \* how many attachments were ever added
          given,        \* history: the attachment added under a name since Build
          pass          \* history: the last pass that was built, or none of it

builderVars == <<attachments, nameToIndex, active, subpasses, dependencies, added,
                 given, pass>>

UNUSED_ATTACHMENT == -1
EXTERNAL_SUBPASS == -1
NoName == [n \in {} |-> 0]
NoPass == [attachments |-> <<>>, subpasses |-> <<>>, dependencies |-> <<>>]

BuilderInit == /\ attachments = <<>> /\ nameToIndex = NoName /\ active = <<>>
               /\ subpasses = <<>> /\ dependencies = <<>> /\ added = 0
               /\ given = NoName /\ pass = NoPass

-----------------------------------------------------------------------------
(* Attachments *)

Push == /\ added < MaxAttachments /\ added' = added + 1
        /\ attachments' = Append(attachments, added')
        /\ UNCHANGED <<active, subpasses, dependencies, pass>>

With(f, n, v) == [m \in DOMAIN f \cup {n} |-> IF m = n THEN v ELSE f[m]]

\* AddAttachment with a name; one that is taken throws before anything changes.
AddNamed(n) == /\ n \notin DOMAIN nameToIndex /\ Push
               /\ nameToIndex' = With(nameToIndex, n, Len(attachments))
               /\ given' = With(given, n, added')

AddUnnamed == Push /\ UNCHANGED <<nameToIndex, given>>

-----------------------------------------------------------------------------
(* Subpasses *)

Unused == [index |-> UNUSED_ATTACHMENT, meant |-> 0]

\* What a caller may refer to: an index that AddAttachment returned since the last
\* Build, or a name that resolveAttachmentIndex finds.
ByIndex == {[index |-> i - 1, meant |-> attachments[i]] : i \in DOMAIN attachments}
ByName == {[index |-> nameToIndex[n],
            meant |-> IF n \in DOMAIN given THEN given[n] ELSE 0] :
              n \in DOMAIN nameToIndex}
Refs == ByIndex \cup ByName

BeginSubpass == /\ active = <<>> /\ Len(subpasses) < MaxSubpasses
                /\ active' = <<[color |-> <<>>, input |-> <<>>, resolve |-> <<>>,
                                depth |-> Unused]>>
                /\ UNCHANGED <<attachments, nameToIndex, subpasses, dependencies,
                               added, given, pass>>

\* AddColorAttachmentRef, AddInputAttachmentRef, AddResolveAttachmentRef
AddRef(list, r) == /\ active # <<>> /\ Len(active[1][list]) < MaxRefs
                   /\ active' = [active EXCEPT ![1][list] = Append(@, r)]
                   /\ UNCHANGED <<attachments, nameToIndex, subpasses, dependencies,
                                  added, given, pass>>

SetDepth(r) == /\ active # <<>> /\ active' = [active EXCEPT ![1].depth = r]
               /\ UNCHANGED <<attachments, nameToIndex, subpasses, dependencies,
                              added, given, pass>>

EndSubpass == /\ active # <<>>
              /\ Len(active[1].resolve) \in {0, Len(active[1].color)}
              /\ subpasses' = Append(subpasses, active[1]) /\ active' = <<>>
              /\ UNCHANGED <<attachments, nameToIndex, dependencies, added, given, pass>>

-----------------------------------------------------------------------------
(* Dependencies *)

Depend(src, dst) ==
    /\ Len(dependencies) < MaxDependencies
    /\ dependencies' = Append(dependencies, [src |-> src, dst |-> dst])
    /\ UNCHANGED <<attachments, nameToIndex, active, subpasses, added, given, pass>>

\* Each helper leaves the builder alone when it has too few subpasses.
ChainDependency == Len(subpasses) >= 2 /\ Depend(Len(subpasses) - 2, Len(subpasses) - 1)
ExternalToFirst == subpasses # <<>> /\ Depend(EXTERNAL_SUBPASS, 0)
LastToExternal == subpasses # <<>> /\ Depend(Len(subpasses) - 1, EXTERNAL_SUBPASS)

-----------------------------------------------------------------------------
(* Build *)

\* VkRenderPass::DeviceCreate: a depth reference that is unused is not passed on,
\* and neither is any dependency.
Native(s) == [color |-> s.color, input |-> s.input, resolve |-> s.resolve,
              depth |-> IF s.depth.index = UNUSED_ATTACHMENT THEN <<>> ELSE <<s.depth>>]

Built == [attachments |-> attachments, dependencies |-> dependencies,
          subpasses |-> [i \in DOMAIN subpasses |-> Native(subpasses[i])]]

\* A plausible slip: the names outlive the attachments.
BuildKeepingNames ==
    /\ active = <<>> /\ pass' = Built
    /\ attachments' = <<>> /\ subpasses' = <<>> /\ dependencies' = <<>>
    /\ given' = NoName /\ UNCHANGED <<active, added, nameToIndex>>

\* Build hands everything over and leaves the builder as it was made.
Build == /\ active = <<>> /\ pass' = Built
         /\ attachments' = <<>> /\ subpasses' = <<>> /\ dependencies' = <<>>
         /\ nameToIndex' = NoName /\ given' = NoName /\ UNCHANGED <<active, added>>

BuilderNext ==
    \/ \E n \in Names : AddNamed(n)
    \/ AddUnnamed \/ BeginSubpass \/ EndSubpass \/ Build
    \/ \E r \in Refs : SetDepth(r) \/ \E l \in {"color", "input", "resolve"} : AddRef(l, r)
    \/ ChainDependency \/ ExternalToFirst \/ LastToExternal

-----------------------------------------------------------------------------
(* Properties *)

Hits(r) == /\ r.index \in 0..Len(pass.attachments) - 1
           /\ pass.attachments[r.index + 1] = r.meant

\* Every reference of a pass that was built, by index or by name, is to the
\* attachment that the caller meant, a builder that is used again included; and
\* the ends of a dependency that a helper made are subpasses of that pass, the
\* earlier one before the later.
RefsHit ==
    /\ \A i \in DOMAIN pass.subpasses :
          LET s == pass.subpasses[i] IN
          \A r \in ToSet(s.color) \cup ToSet(s.input) \cup ToSet(s.resolve)
                     \cup ToSet(s.depth) : Hits(r)
    /\ \A i \in DOMAIN pass.dependencies :
          LET d == pass.dependencies[i] IN
          /\ {d.src, d.dst} \subseteq {EXTERNAL_SUBPASS} \cup 0..Len(pass.subpasses) - 1
          /\ d.src = EXTERNAL_SUBPASS \/ d.dst = EXTERNAL_SUBPASS \/ d.src < d.dst
=============================================================================
