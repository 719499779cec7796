--------------------------- MODULE ImageDelivery ----------------------------
(***************************************************************************)
(* From the name of an image to the layers a machine boots.                *)
(*                                                                         *)
(* Three routes turn a name into URLs: the PXE reconciler and the HTTP     *)
(* reconciler for the image of an SBC, and the boot server, which answers  *)
(* an unknown machine with the UKI of the default image.  Each parses the  *)
(* name, checks the allow list, resolves the name at a registry, fetches   *)
(* the index and the manifest for the architecture (internal/oci), and     *)
(* picks layers.  Each of these is a call of its own, while tags are moved *)
(* and images collected.  The URLs are kept: the machine follows them much *)
(* later, and the image proxy takes them apart again.                      *)
(***************************************************************************)
EXTENDS ImageReference, FiniteSets, SequencesExt

CONSTANTS Routes,        \* what is enabled of "pxe", "http", "default"
          RefsOf,        \* the references as written, by route
          Repositories,  \* the repositories that exist
          Content,       \* what the registries may hold, by digest
          NoImage,       \* no digest
          Architecture,  \* --architecture
          MaxPushes,     \* bound on tags moved and images collected
          MaxFaults      \* bound on failed calls to a registry

Kernel == {"kernel", "kernelOld"}
Initrd == {"initrd", "initrdOld"}
SquashFS == {"squashfs", "squashfsOld"}
UKI == {"uki"}
LayerTypes == Kernel \cup Initrd \cup SquashFS \cup UKI

\* The layers that make the files a machine asks for.
TypesOf == [kernel |-> Kernel, initrd |-> Initrd, squashfs |-> SquashFS, uki |-> UKI]
FilesOf(route) == IF route = "pxe" THEN {"kernel", "initrd", "squashfs"} ELSE {"uki"}

\* What a digest may stand for: a manifest with its layers, an OCI index with
\* the descriptors of manifests, or Docker's manifest list, which is none.
ContentVal ==
  [mediaType: {"manifest", "index", "list"},
   layers: Seq([type: LayerTypes, digest: Digests]),
   manifests: Seq([digest: Digests, platform: STRING, cname: BOOLEAN, annotated: STRING])]

\* On Docker Hub every repository has a namespace, and its images are at the
\* registry's host only.  An index describes manifests.
ASSUME DeliveryAssumption ==
  /\ Routes \subseteq {"pxe", "http", "default"}
  /\ \A route \in Routes : RefsOf[route] \subseteq References
  /\ \A r \in Repositories : /\ r.server # IndexDomain
                             /\ r.server = DefaultRegistry => Len(r.path) # 1
  /\ DOMAIN Content \subseteq Digests
  /\ \A d \in DOMAIN Content :
       /\ Content[d] \in ContentVal
       /\ \A i \in DOMAIN Content[d].manifests :
            LET m == Content[d].manifests[i].digest
            IN m \in DOMAIN Content /\ Content[m].mediaType # "index"
  /\ NoImage \notin Digests
  /\ MaxPushes \in Nat /\ MaxFaults \in Nat

VARIABLES tagged,    \* what the tags of the repositories name
          present,   \* the images the repositories hold
          job,       \* the resolution under way on each route
          child,     \* the URLs each route has written last
          pushes,    \* pushes and collections so far
          faults     \* failed calls so far

vars == <<tagged, present, job, child, pushes, faults>>

\* An image is what is pushed: a manifest, or an index with what it describes.
Described(d) == {m.digest : m \in ToSet(Content[d].manifests)}
Images == DOMAIN Content \ UNION {Described(d) : d \in DOMAIN Content}

-----------------------------------------------------------------------------
(***************************************************************************)
(* A registry.  A digest that a repository holds names its content for     *)
(* ever; a tag names what it was moved to last.                            *)
(***************************************************************************)
Holding(images) == images \cup UNION {Described(d) : d \in images}

\* What a reference names, given the tags and the images of the repositories.
Named(tags, images, ref) ==
  LET r == Repository(ref)
  IN IF ~Resolvable(ref) \/ r \notin Repositories THEN NoImage
     ELSE IF ref.digest \in Holding(images[r]) THEN ref.digest
     ELSE IF ref.digest = NoDigest /\ ref.tag # NoTag THEN tags[r][ref.tag]
     ELSE NoImage

\* The reference that a route hands to the resolver.
Asked(route, ref) ==
  IF route = "default" THEN ref
  ELSE LET parsed == ParseImageReference(ref)
       IN BuildImageReference(parsed.name, parsed.version)

\* What the reference means to its author, whatever the routes make of it: the
\* name as Docker completes it, pinned to the digest if there is one (Named),
\* else the tag, else the latest.
Meant(ref) ==
  [ParseNormalizedNamed(ref) EXCEPT !.tag = IF HasVersion(ref) THEN @ ELSE Latest]

\* Histories of a resolution: the images its reference has named meanwhile,
\* and whether a call failed or what it resolved was collected.
Idle == [pc |-> "idle", ref |-> NoImage, image |-> NoImage, manifest |-> NoImage,
         named |-> {}, excused |-> FALSE]
NoURLs == [urls |-> <<>>, ref |-> NoImage, named |-> {}, at |-> NoImage]

Init ==
  /\ tagged \in [Repositories -> [Tags -> Images \cup {NoImage}]]
  /\ present = [r \in Repositories |-> {tagged[r][t] : t \in Tags} \ {NoImage}]
  /\ job = [route \in Routes |-> Idle]
  /\ child = [route \in Routes |-> NoURLs]
  /\ pushes = 0
  /\ faults = 0

\* The resolutions under way see what their references name from now on.
UnderWay(route) == job[route].pc \notin {"idle", "error"}
Watching(collected) ==
  job' = [route \in Routes |->
    IF ~UnderWay(route) THEN job[route]
    ELSE [job[route] EXCEPT
            !.named = @ \cup {Named(tagged', present', Meant(job[route].ref))},
            !.excused = @ \/ job[route].image \in collected]]

\* An image is pushed under a tag, or the tag is moved.
MoveTag(r, t, d) ==
  /\ pushes < MaxPushes
  /\ pushes' = pushes + 1
  /\ tagged' = [tagged EXCEPT ![r][t] = d]
  /\ present' = [present EXCEPT ![r] = @ \cup {d}]
  /\ UNCHANGED <<child, faults>>
  /\ Watching({})

\* The registry collects an image no tag names.
Collect(r, d) ==
  /\ pushes < MaxPushes
  /\ pushes' = pushes + 1
  /\ d \in present[r] /\ \A t \in Tags : tagged[r][t] # d
  /\ present' = [present EXCEPT ![r] = @ \ {d}]
  /\ UNCHANGED <<tagged, child, faults>>
  /\ Watching({d})

-----------------------------------------------------------------------------
(***************************************************************************)
(* The steps of a resolution.                                              *)
(***************************************************************************)
Do(route, q) ==
  /\ job' = [job EXCEPT ![route] = q]
  /\ UNCHANGED <<tagged, present, child, pushes, faults>>

Fail(route) == Do(route, [job[route] EXCEPT !.pc = "error"])

\* The checks before the registry is asked.
Accepted(route, ref) ==
  /\ ref.wellFormed
  /\ ValidateImageRegistry(Asked(route, ref))
  /\ route = "default" => HasVersion(ref)

\* getImageDetailsFromConfig, constructUKIURL, ConstructUKIURLFromOCI: the
\* name is parsed and checked.
Start(route) ==
  /\ job[route].pc \in {"idle", "error"}
  /\ \E ref \in RefsOf[route] :
       Do(route, [Idle EXCEPT !.pc = IF Accepted(route, ref) THEN "resolve" ELSE "error",
                              !.ref = ref, !.named = {Named(tagged, present, Meant(ref))}])

\* resolver.Resolve
Resolve(route) ==
  LET d == Named(tagged, present, Asked(route, job[route].ref))
  IN /\ job[route].pc = "resolve"
     /\ IF d = NoImage THEN Fail(route)
        ELSE Do(route, [job[route] EXCEPT !.pc = "top", !.image = d])

Fits(m, architecture) == m.platform = architecture
HasCNAME(m, architecture) == m.cname /\ m.annotated = architecture

\* The first of the descriptors that a test accepts, or none.
FirstOf(descriptors, Accepts(_)) ==
  LET S == {i \in DOMAIN descriptors : Accepts(descriptors[i])}
  IN IF S = {} THEN NoImage ELSE descriptors[Min(S)].digest

\* Mutation: the first descriptor will do.
FindManifestOfAny(route, descriptors) ==
  IF descriptors = <<>> THEN NoImage ELSE descriptors[1].digest

\* FindManifestByArchitecture: annotations of older PXE images go first.
FindManifest(route, descriptors) ==
  LET annotated(m) == route = "pxe" /\ HasCNAME(m, Architecture)
      standard(m) == Fits(m, Architecture)
  IN IF FirstOf(descriptors, annotated) # NoImage THEN FirstOf(descriptors, annotated)
     ELSE FirstOf(descriptors, standard)

\* Content that is neither index nor manifest is read as an empty manifest.
LayersOf(d) == IF Content[d].mediaType = "manifest" THEN Content[d].layers ELSE <<>>

\* The PXE reconciler takes the last layer of a type, the others the first.
Layer(layers, types, last) ==
  LET S == {i \in DOMAIN layers : layers[i].type \in types}
  IN IF S = {} THEN NoImage ELSE layers[IF last THEN Max(S) ELSE Min(S)].digest

\* Mutation: it is not checked that a manifest was found.
FetchTopUnchecked(route) ==
  LET q == job[route]
      index == Content[q.image].mediaType = "index"
  IN /\ q.pc = "top"
     /\ Do(route, [q EXCEPT !.pc = IF index THEN "nested" ELSE "layers",
                            !.manifest = IF index THEN FindManifest(route, Content[q.image].manifests)
                                         ELSE q.image])

\* FetchContent of what was resolved.
FetchTop(route) ==
  LET q == job[route]
      r == Repository(Asked(route, q.ref))
      found == FindManifest(route, Content[q.image].manifests)
  IN /\ q.pc = "top"
     /\ IF q.image \notin Holding(present[r]) THEN Fail(route)
        ELSE IF Content[q.image].mediaType # "index"
        THEN Do(route, [q EXCEPT !.pc = "layers", !.manifest = q.image])
        ELSE IF found = NoImage THEN Fail(route)
        ELSE Do(route, [q EXCEPT !.pc = "nested", !.manifest = found])

\* FetchContent of the manifest for the architecture.
FetchNested(route) ==
  LET q == job[route]
      r == Repository(Asked(route, q.ref))
  IN /\ q.pc = "nested"
     /\ IF q.manifest \notin Holding(present[r]) THEN Fail(route)
        ELSE Do(route, [q EXCEPT !.pc = "layers"])

\* The URLs of the layers, by the file the machine asks for.  A PXE image may
\* lack any of them.
Written(route, q) ==
  LET parsed == ParseImageReference(q.ref)
      name == IF route = "default" THEN NameOf(q.ref) ELSE parsed.name
      layer(f) == Layer(LayersOf(q.manifest), TypesOf[f], route = "pxe")
  IN [f \in {f \in FilesOf(route) : layer(f) # NoImage} |->
        IF route = "pxe" THEN buildImageURL(name, parsed.version, layer(f))
        ELSE ukiURL(name, layer(f))]

\* The URLs go to the child or to the answer; without a UKI it is an error.
Write(route) ==
  LET q == job[route]
      urls == Written(route, q)
  IN /\ q.pc = "layers"
     /\ IF route # "pxe" /\ DOMAIN urls = {} THEN Fail(route)
        ELSE /\ child' = [child EXCEPT ![route] =
                  [urls |-> urls, ref |-> q.ref, named |-> q.named,
                   at |-> Repository(Asked(route, q.ref))]]
             /\ job' = [job EXCEPT ![route] = Idle]
             /\ UNCHANGED <<tagged, present, pushes, faults>>

\* A call fails, or the content is cut short (FetchContent compares sizes).
Fault(route) ==
  /\ faults < MaxFaults
  /\ faults' = faults + 1
  /\ job[route].pc \in {"resolve", "top", "nested"}
  /\ job' = [job EXCEPT ![route].pc = "error", ![route].excused = TRUE]
  /\ UNCHANGED <<tagged, present, child, pushes>>

Next ==
  \/ \E route \in Routes :
       \/ Start(route) \/ Resolve(route) \/ FetchTop(route) \/ FetchNested(route)
       \/ Write(route) \/ Fault(route)
  \/ \E r \in Repositories, d \in Images : Collect(r, d) \/ \E t \in Tags : MoveTag(r, t, d)

Spec == Init /\ [][Next]_vars

-----------------------------------------------------------------------------
(***************************************************************************)
(* Properties.                                                             *)
(***************************************************************************)

\* Every variable has its type.  In particular what is resolved on the way is
\* content of the registries (Resolve and FindManifest return none of it
\* only together with an error).
TypeOK ==
  /\ tagged \in [Repositories -> [Tags -> Images \cup {NoImage}]]
  /\ present \in [Repositories -> SUBSET Images]
  /\ \A route \in Routes :
       LET q == job[route]
       IN /\ q.pc \in {"idle", "resolve", "top", "nested", "layers", "error"}
          /\ q.named \subseteq DOMAIN Content \cup {NoImage}
          /\ q.excused \in BOOLEAN
          /\ UnderWay(route) => q.ref \in RefsOf[route]
          /\ q.pc \in {"top", "nested", "layers"} => q.image \in DOMAIN Content
          /\ q.pc \in {"nested", "layers"} => q.manifest \in DOMAIN Content
  /\ DOMAIN child = Routes
  /\ pushes \in 0..MaxPushes
  /\ faults \in 0..MaxFaults

\* The manifests of an image that are for the machines' architecture.
ManifestsOf(route, d) ==
  IF Content[d].mediaType # "index" THEN {d}
  ELSE {m.digest : m \in {m \in ToSet(Content[d].manifests) :
          Fits(m, Architecture) \/ (route = "pxe" /\ HasCNAME(m, Architecture))}}

\* TrimPrefix leaves a UKI whose digest is not SHA-256 without a usable URL.
Readable(url) == url.hash \in Hashes

\* The reconcilers follow the tag of a reference that has a tag and a digest
\* (ParseImageReference; the boot server's parseOCIReferenceForUKI keeps both).
PinIsLost(route, ref) == route # "default" /\ ref.tag # NoTag /\ ref.digest # NoDigest

\* What a machine boots is one image for its architecture, and one that the
\* reference named while it was resolved: the digests the image proxy reads
\* from the URLs are all of layers, of the right types, of one manifest,
\* although tags move and images are collected between the calls to the
\* registry (getLayerDigestsFromNestedManifest, getUKIDigestFromNestedManifest,
\* FindManifestByArchitecture).  The exception: if the pin is lost, it is one
\* image, but not the one that the reference names.
BootsWhatWasNamed ==
  \A route \in Routes :
    LET urls == child[route].urls
        candidates == IF PinIsLost(route, child[route].ref) THEN DOMAIN Content
                      ELSE child[route].named \ {NoImage}
    IN urls # <<>> =>
         \E d \in candidates : \E m \in ManifestsOf(route, d) :
           \A f \in DOMAIN urls : Readable(urls[f]) =>
             \E l \in ToSet(LayersOf(m)) :
               l.type \in TypesOf[f] /\ l.digest = ImageDetails(urls[f]).digest

\* The image proxy asks the registry and the repository in which the image was
\* resolved, and does not refuse them: allow list, resolver, the writer of the
\* URL and its reader agree on a name (parseImageURL, parseHttpBootImagePath).
\* The exception: /image takes .efi from the end of a name.
ProxyFindsTheImage ==
  \A route \in Routes : \A f \in DOMAIN child[route].urls :
    LET url == child[route].urls[f]
        details == ImageDetails(url)
    IN \/ url.endpoint = "/image" /\ Trimmed(url.name) # url.name
       \/ /\ IsRegistryAllowed(details.domain)
          /\ [server |-> Lower[details.domain], path |-> details.repository] = child[route].at

\* A host as the documentation of the allow list compares it.
Canonical(host) ==
  IF Lower[host] \in {DockerHubDomain, IndexDomain, DefaultRegistry} THEN DockerHubDomain
  ELSE Lower[host]

\* The references the documentation allows.
Allowed(route, ref) ==
  LET listed == IF AllowedRegistries = {} THEN {DefaultAllowedRegistry} ELSE AllowedRegistries
  IN /\ ref.wellFormed
     /\ Canonical(ParseNormalizedNamed(ref).host) \in {Canonical(item) : item \in listed}
     /\ route = "default" => HasVersion(ref)
     /\ route # "default" /\ ref.tag = NoTag => ref.digest.alg # "sha384"

\* An image a route can boot a machine from.
Bootable(route, d) ==
  /\ d # NoImage
  /\ ManifestsOf(route, d) # {}
  /\ route # "pxe" => \A m \in ManifestsOf(route, d) :
                        \E l \in ToSet(LayersOf(m)) : l.type \in UKI

\* A resolution fails although no call failed and its reference was allowed
\* and named images all along that can be booted.
FailsNeedlessly(route) ==
  LET q == job[route]
  IN /\ q.pc = "error"
     /\ ~q.excused
     /\ Allowed(route, q.ref)
     /\ \A d \in q.named : Bootable(route, d)

\* The resolver finds what the reference means.
ResolvedAsMeant(route, ref) ==
  LET asked == Asked(route, ref)
  IN Resolvable(asked) /\ Repository(asked) = Repository(Meant(ref))

\* An allowed image that can be booted is never reported as unusable, however
\* its host is written and whatever is pushed meanwhile, if its name is one
\* that the resolver understands as Docker does, and its digest is not lost
\* beside a tag (ValidateImageRegistry, ParseImageReference,
\* FindManifestByArchitecture).
AllowedIsUsed ==
  \A route \in Routes :
    FailsNeedlessly(route) =>
      \/ ~ResolvedAsMeant(route, job[route].ref)
      \/ PinIsLost(route, job[route].ref)

(***************************************************************************)
(* What the documentation says and the code does not do.                   *)
(***************************************************************************)

\* "support for multiple registries (e.g., GHCR, Docker Hub, ...)": allowed
\* images are used, those on Docker Hub too.
DockerHubIsSupported == \A route \in Routes : ~FailsNeedlessly(route)
=============================================================================
