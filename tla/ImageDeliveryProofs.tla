------------------------ MODULE ImageDeliveryProofs ------------------------
(***************************************************************************)
(* For any hosts, names and allow list, any content of the registries, and *)
(* any moves of tags and collections of images: the readers of an image    *)
(* name agree on it, and what is resolved is what was named.               *)
(***************************************************************************)
EXTENDS ImageDelivery, WellFoundedInduction, TLAPS

OnDockerHub(host) == host \in {NoHost, DockerHubDomain, IndexDomain}

\* The name a route writes into its URLs.
NameFor(route, ref) ==
  IF route = "default" THEN NameOf(ref) ELSE ParseImageReference(ref).name

-----------------------------------------------------------------------------
(***************************************************************************)
(* Names (module ImageReference).                                          *)
(***************************************************************************)
\* The domain of a name depends on its host alone.
LEMMA DomainOfHost ==
  ASSUME NEW name, NEW version, NEW wellFormed
  PROVE  ExtractRegistryDomain(Reference(name, version, wellFormed)) =
           IF OnDockerHub(name.host) THEN DefaultRegistry ELSE name.host
  BY DEF Reference, ExtractRegistryDomain, ParseNormalizedNamed, OnDockerHub

\* A name on another host is left as it is, and so is one on Docker Hub with a
\* namespace.
LEMMA NormalizedElsewhere ==
  ASSUME NEW name, NEW version, NEW wellFormed,
         OnDockerHub(name.host) => Len(name.path) # 1
  PROVE  /\ ParseNormalizedNamed(Reference(name, version, wellFormed)).path = name.path
         /\ ParseNormalizedNamed(Reference(name, version, wellFormed)).host =
              IF OnDockerHub(name.host) THEN DockerHubDomain ELSE name.host
  BY DEF Reference, ParseNormalizedNamed, OnDockerHub

\* A reference is the name and the version that are written.
LEMMA Parts ==
  ASSUME NEW ref \in References
  PROVE  /\ NameOf(ref).host = ref.host /\ NameOf(ref).path = ref.path
         /\ ref.tag \in Tags \cup {NoTag} /\ ref.digest \in Digests \cup {NoDigest}
         /\ ref.wellFormed \in BOOLEAN
         /\ ref = Reference(NameOf(ref), [tag |-> ref.tag, digest |-> ref.digest],
                            ref.wellFormed)
  BY DEF References, NameOf, Reference

\* Where images of Docker Hub are.
LEMMA HubRepositories ==
  ASSUME NEW r \in Repositories
  PROVE  r.server # IndexDomain /\ (r.server = DefaultRegistry => Len(r.path) # 1)
  BY DeliveryAssumption

\* The familiar name of a reference has no host on Docker Hub, and is the name
\* as written elsewhere.
LEMMA Familiar ==
  ASSUME NEW ref \in References
  PROVE  LET name == ParseImageReference(ref).name
         IN IF OnDockerHub(ref.host) THEN name.host = NoHost ELSE name = NameOf(ref)
  <1> DEFINE named == ParseNormalizedNamed(ref)
  <1>1. ParseImageReference(ref).name = FamiliarName(named)
    BY DEF ParseImageReference
  <1>2. CASE OnDockerHub(ref.host)
    <2>1. named.host = DockerHubDomain
      BY <1>2 DEF References, ParseNormalizedNamed, OnDockerHub
    <2> QED
      BY <1>1, <1>2, <2>1 DEF FamiliarName
  <1>3. CASE ~OnDockerHub(ref.host)
    <2>1. named.host = ref.host /\ named.path = ref.path /\ named.host # DockerHubDomain
      BY <1>3 DEF References, ParseNormalizedNamed, OnDockerHub
    <2> QED
      BY <1>1, <1>3, <2>1 DEF FamiliarName, NameOf
  <1> QED
    BY <1>2, <1>3

\* What is asked for is the name in the URLs, in some version.
LEMMA AskedName ==
  ASSUME NEW route, NEW ref \in References
  PROVE  /\ \E version, wellFormed :
              Asked(route, ref) = Reference(NameFor(route, ref), version, wellFormed)
         /\ Asked(route, ref).host = NameFor(route, ref).host
         /\ Asked(route, ref).path = NameFor(route, ref).path
  <1>1. CASE route = "default"
    BY <1>1, Parts DEF Asked, NameFor
  <1>2. CASE route # "default"
    BY <1>2 DEF Asked, NameFor, ParseImageReference, BuildImageReference, Reference
  <1> QED
    BY <1>1, <1>2

\* The parser of a route keeps what the reference means.
Kept(route, ref) == (route = "default" => HasVersion(ref)) /\ ~PinIsLost(route, ref)

\* The version a route asks for is the one that is meant if its parser keeps it,
\* and what is asked for is well formed unless its digest is one of SHA-384.
LEMMA AskedVersion ==
  ASSUME NEW route, NEW ref \in References
  PROVE  /\ Kept(route, ref) => /\ Asked(route, ref).tag = Meant(ref).tag
                                /\ Asked(route, ref).digest = Meant(ref).digest
         /\ Meant(ref).tag \in Tags \cup {NoTag}
         /\ Asked(route, ref).tag \in Tags \cup {NoTag}
         /\ Asked(route, ref).digest \in Digests \cup {NoDigest}
         /\ Asked(route, ref).wellFormed \in BOOLEAN
         /\ ref.wellFormed /\ (route # "default" /\ ref.tag = NoTag => ref.digest.alg # "sha384")
              => Asked(route, ref).wellFormed
  <1>0. /\ Meant(ref).digest = ref.digest
        /\ Meant(ref).tag = IF HasVersion(ref) THEN ref.tag ELSE Latest
        /\ Meant(ref).tag \in Tags \cup {NoTag}
    <2>1. Meant(ref).tag = IF HasVersion(ref) THEN ref.tag ELSE Latest
      BY DEF Meant, ParseNormalizedNamed, References
    <2>2. Meant(ref).digest = ref.digest
      BY DEF Meant, ParseNormalizedNamed, References
    <2> QED
      BY <2>1, <2>2, Parts, ReferenceAssumption
  <1>1. CASE route = "default"
    BY <1>0, <1>1, Parts DEF Asked, Kept
  <1>2. CASE route # "default"
    <2> DEFINE v == ParseImageReference(ref).version
    <2>1. /\ Asked(route, ref).tag = v.tag /\ Asked(route, ref).digest = v.digest
          /\ Asked(route, ref).wellFormed =
               (v.digest = NoDigest \/ v.digest.alg \in {"sha256", "sha512"})
      BY <1>2 DEF Asked, BuildImageReference, Reference
    <2>2. \/ ref.tag # NoTag /\ v.tag = ref.tag /\ v.digest = NoDigest
          \/ /\ ref.tag = NoTag /\ ref.digest # NoDigest
             /\ v.tag = NoTag /\ v.digest = ref.digest
          \/ /\ ref.tag = NoTag /\ ref.digest = NoDigest
             /\ v.tag = Latest /\ v.digest = NoDigest
      BY DEF ParseImageReference
    <2> HIDE DEF v
    <2>3. v.tag \in Tags \cup {NoTag} /\ v.digest \in Digests \cup {NoDigest}
      BY <2>2, Parts, ReferenceAssumption
    <2>4. ref.tag = NoTag /\ ref.digest # NoDigest /\ ref.digest.alg # "sha384" =>
            ref.digest.alg \in {"sha256", "sha512"}
      BY Parts DEF Digests, Algorithms
    <2>5. Kept(route, ref) => v.tag = Meant(ref).tag /\ v.digest = Meant(ref).digest
      BY <1>0, <1>2, <2>2 DEF Kept, PinIsLost, HasVersion
    <2> QED
      BY <1>0, <1>2, <2>1, <2>2, <2>3, <2>4, <2>5
  <1> QED
    BY <1>1, <1>2

\* The resolver finds what the reference means, if there is any such repository.
LEMMA AskedIsMeant ==
  ASSUME NEW route, NEW ref \in References,
         Resolvable(Asked(route, ref)), Repository(Asked(route, ref)) \in Repositories
  PROVE  /\ Resolvable(Meant(ref))
         /\ Repository(Meant(ref)) = Repository(Asked(route, ref))
         /\ route # "default" => ~OnDockerHub(ref.host)
         /\ OnDockerHub(ref.host) => ref.host = DockerHubDomain /\ Len(ref.path) # 1
  <1> DEFINE asked == Asked(route, ref)
             named == ParseNormalizedNamed(ref)
  <1>0. /\ Meant(ref).host = named.host /\ Meant(ref).path = named.path
        /\ asked.host # NoHost
    BY DEF Meant, ParseNormalizedNamed, References, Resolvable
  <1>1. CASE ~OnDockerHub(ref.host)
    <2>1. NameFor(route, ref) = NameOf(ref)
      BY <1>1, Familiar DEF NameFor
    <2>2. asked.host = ref.host /\ asked.path = ref.path
      BY <2>1, AskedName DEF NameOf
    <2>3. named.host = ref.host /\ named.path = ref.path
      BY <1>1 DEF References, ParseNormalizedNamed, OnDockerHub
    <2> HIDE DEF asked, named
    <2>4. Repository(Meant(ref)) = Repository(asked) /\ Resolvable(Meant(ref))
      BY <1>0, <2>2, <2>3 DEF Repository, Resolvable
    <2> QED
      BY <1>1, <2>4 DEF asked
  <1>2. CASE OnDockerHub(ref.host)
    <2>1. route = "default"
      BY <1>0, <1>2, Familiar, AskedName DEF NameFor
    <2>2. asked = ref
      BY <2>1 DEF Asked
    <2>3. ref.host # NoHost /\ Repository(ref) \in Repositories
      BY <1>0, <2>2
    <2>4. Repository(ref).server = ServerOf(ref.host) /\ Repository(ref).path = ref.path
      BY DEF Repository
    <2>5. ref.host # IndexDomain
      <3>1. ServerOf(IndexDomain) = IndexDomain
        BY ReferenceAssumption DEF ServerOf, IndexDomain, DockerHubDomain
      <3> QED
        BY <2>3, <2>4, <3>1, HubRepositories
    <2>6. ref.host = DockerHubDomain
      BY <1>2, <2>3, <2>5 DEF OnDockerHub
    <2>7. Len(ref.path) # 1
      BY <2>3, <2>4, <2>6, HubRepositories DEF ServerOf
    <2>8. named.host = ref.host /\ named.path = ref.path
      BY <2>6, <2>7 DEF References, ParseNormalizedNamed
    <2> HIDE DEF asked, named
    <2>9. Repository(Meant(ref)) = Repository(asked) /\ Resolvable(Meant(ref))
      BY <1>0, <2>2, <2>3, <2>8 DEF Repository, Resolvable
    <2> QED
      BY <2>1, <2>6, <2>7, <2>9 DEF asked
  <1> QED
    BY <1>1, <1>2

\* From a URL that a route wrote the image proxy reads a registry that it does
\* not refuse if the route's validator did not, and the repository in which the
\* resolver found the image.  The exception are names ending in .efi on
\* /image (parseImageURL, parseHttpBootImagePath, ValidateImageRegistry).
THEOREM ReadersAgree ==
  ASSUME NEW route, NEW ref \in References, NEW url, url.name = NameFor(route, ref),
         url.endpoint = "/image" => Trimmed(url.name) = url.name
  PROVE  /\ ValidateImageRegistry(Asked(route, ref)) =>
              IsRegistryAllowed(ImageDetails(url).domain)
         /\ /\ Resolvable(Asked(route, ref))
            /\ route = "default" => Repository(Asked(route, ref)) \in Repositories
            => Repository(Asked(route, ref)) = [server |-> Lower[ImageDetails(url).domain],
                                                path |-> ImageDetails(url).repository]
  <1> DEFINE name == NameFor(route, ref)
             asked == Asked(route, ref)
  <1>1. PICK version, wellFormed : asked = Reference(name, version, wellFormed)
    BY AskedName
  <1>2. ImageDetails(url) = DetailsOf(name, url)
    BY DEF ImageDetails, parseImageURL, parseHttpBootImagePath
  <1>3. /\ ImageDetails(url).domain = ExtractRegistryDomain(Plain(name))
        /\ ImageDetails(url).repository = ParseNormalizedNamed(Plain(name)).path
    BY <1>2 DEF DetailsOf
  <1>4. ImageDetails(url).domain = ExtractRegistryDomain(asked)
    BY <1>1, <1>3, DomainOfHost DEF Plain
  <1>5. ASSUME Resolvable(asked), route = "default" => Repository(asked) \in Repositories
        PROVE  Repository(asked) = [server |-> Lower[ImageDetails(url).domain],
                                    path |-> ImageDetails(url).repository]
    <2>1. asked.host = name.host /\ asked.path = name.path /\ name.host # NoHost
      BY <1>5, AskedName DEF Resolvable
    <2>2. CASE ~OnDockerHub(name.host)
      <3>1. ServerOf(asked.host) = Lower[name.host]
        BY <2>1, <2>2 DEF ServerOf, OnDockerHub
      <3> HIDE DEF asked, name
      <3>2. ExtractRegistryDomain(Plain(name)) = name.host
        BY <2>2, DomainOfHost DEF Plain
      <3>3. ParseNormalizedNamed(Plain(name)).path = name.path
        BY <2>2, NormalizedElsewhere DEF Plain
      <3>4. ImageDetails(url).domain = name.host /\ ImageDetails(url).repository = name.path
        BY <1>3, <3>2, <3>3
      <3> QED
        BY <2>1, <3>1, <3>4 DEF Repository
    <2>3. CASE OnDockerHub(name.host)
      <3>1. route = "default" /\ name = NameOf(ref)
        <4>1. ASSUME route # "default" PROVE FALSE
          <5>1. name = ParseImageReference(ref).name
            BY <4>1 DEF NameFor
          <5> HIDE DEF asked, name
          <5>2. ~OnDockerHub(ref.host) /\ name = NameOf(ref)
            BY <2>1, <5>1, Familiar
          <5>3. name.host = ref.host
            BY <5>2 DEF NameOf
          <5> QED
            BY <2>3, <5>2, <5>3
        <4> QED
          BY <4>1 DEF NameFor
      <3>2. name.host = DockerHubDomain /\ Len(name.path) # 1
        <4>1. name.host = ref.host /\ name.path = ref.path
          BY <3>1 DEF NameOf
        <4>2. OnDockerHub(ref.host) => ref.host = DockerHubDomain /\ Len(ref.path) # 1
          BY <1>5, <3>1, AskedIsMeant
        <4> QED
          BY <2>3, <4>1, <4>2
      <3> HIDE DEF asked, name
      <3>3. ImageDetails(url).domain = DefaultRegistry /\ ImageDetails(url).repository = name.path
        BY <1>3, <2>3, <3>2, DomainOfHost, NormalizedElsewhere DEF Plain
      <3> QED
        BY <2>1, <3>2, <3>3, ReferenceAssumption DEF Repository, ServerOf
    <2> QED
      BY <2>2, <2>3
  <1> QED
    BY <1>4, <1>5 DEF ValidateImageRegistry

\* An image on Docker Hub is never resolved for an SBC, however it is written
\* (ParseImageReference, FamiliarName).
THEOREM DockerHubIsLost ==
  ASSUME NEW route, route # "default", NEW ref \in References, OnDockerHub(ref.host)
  PROVE  ~Resolvable(Asked(route, ref))
  <1>1. NameFor(route, ref).host = NoHost
    BY Familiar DEF NameFor
  <1> QED
    BY <1>1, AskedName DEF Resolvable

-----------------------------------------------------------------------------
(***************************************************************************)
(* Descriptors and layers.                                                 *)
(***************************************************************************)
\* A set of numbers that is not empty has a least one ...
LEMMA LeastExists ==
  ASSUME NEW S \in SUBSET Nat, S # {}
  PROVE  \E i \in S : \A j \in S : i <= j
  <1> DEFINE less == {p \in Nat \X Nat : p[1] < p[2]}
  <1>1. less = OpToRel(<, Nat)
    BY DEF OpToRel
  <1>2. IsWellFoundedOn(less, Nat)
    BY <1>1, NatLessThanWellFounded
  <1>3. PICK i \in S : \A j \in S : ~(<<j, i>> \in less)
    <2> HIDE DEF less
    <2> QED
      BY <1>2, WFMin
  <1>4. \A j \in S : i \in Nat /\ j \in Nat /\ ~(j < i)
    BY <1>3
  <1> QED
    BY <1>4

\* ... and so positions have a first and a last one.
LEMMA FirstAndLast ==
  ASSUME NEW n \in Nat, NEW S \in SUBSET (1..n), S # {}
  PROVE  Min(S) \in S /\ Max(S) \in S
  <1>1. PICK i \in S : \A j \in S : i <= j
    BY LeastExists
  <1> DEFINE T == {n - j : j \in S}
  <1>2. T \in SUBSET Nat /\ T # {}
    OBVIOUS
  <1>3. PICK m \in T : \A k \in T : m <= k
    <2> HIDE DEF T
    <2> QED
      BY <1>2, LeastExists
  <1>4. PICK l \in S : m = n - l
    BY <1>3
  <1>5. ASSUME NEW j \in S PROVE l >= j
    <2>1. n - j \in T
      OBVIOUS
    <2>2. n - l <= n - j
      BY <1>3, <1>4, <2>1
    <2>3. l \in Nat /\ j \in Nat
      OBVIOUS
    <2> QED
      BY <2>2, <2>3
  <1> QED
    BY <1>1, <1>5 DEF Min, Max

\* What the registries may hold.
LEMMA ContentFacts ==
  /\ NoImage \notin DOMAIN Content /\ NoImage \notin Digests /\ NoDigest \notin Digests
  /\ DOMAIN Content \subseteq Digests
  /\ \A d \in DOMAIN Content :
       /\ Content[d].layers \in Seq([type: LayerTypes, digest: Digests])
       /\ Content[d].manifests \in
            Seq([digest: Digests, platform: STRING, cname: BOOLEAN, annotated: STRING])
       /\ \A i \in DOMAIN Content[d].manifests :
            /\ Content[d].manifests[i].digest \in DOMAIN Content
            /\ Content[Content[d].manifests[i].digest].mediaType # "index"
  <1>1. NoDigest \notin Digests
    BY DEF NoDigest, Digests, Algorithms
  <1>2. /\ NoImage \notin Digests /\ DOMAIN Content \subseteq Digests
        /\ \A d \in DOMAIN Content :
             \A i \in DOMAIN Content[d].manifests :
               /\ Content[d].manifests[i].digest \in DOMAIN Content
               /\ Content[Content[d].manifests[i].digest].mediaType # "index"
    BY DeliveryAssumption
  <1>3. \A d \in DOMAIN Content : Content[d] \in ContentVal
    BY DeliveryAssumption
  <1>4. \A v \in ContentVal :
          /\ v.layers \in Seq([type: LayerTypes, digest: Digests])
          /\ v.manifests \in
               Seq([digest: Digests, platform: STRING, cname: BOOLEAN, annotated: STRING])
    BY DEF ContentVal
  <1> QED
    BY <1>1, <1>2, <1>3, <1>4

\* FindManifestByArchitecture finds a manifest of the index for the
\* architecture, unless there is none.
LEMMA ManifestFound ==
  ASSUME NEW route, NEW d \in DOMAIN Content, Content[d].mediaType = "index",
         NEW found, found = FindManifest(route, Content[d].manifests)
  PROVE  /\ found = NoImage => ManifestsOf(route, d) = {}
         /\ found # NoImage => /\ found \in ManifestsOf(route, d)
                               /\ found \in Described(d)
                               /\ found \in DOMAIN Content
  <1> DEFINE ms == Content[d].manifests
             annotated(m) == route = "pxe" /\ HasCNAME(m, Architecture)
             standard(m) == Fits(m, Architecture)
             A == {i \in DOMAIN ms : annotated(ms[i])}
             B == {i \in DOMAIN ms : standard(ms[i])}
  <1>1. /\ Len(ms) \in Nat /\ DOMAIN ms = 1..Len(ms)
        /\ \A i \in DOMAIN ms : ms[i].digest \in DOMAIN Content /\ ms[i].digest # NoImage
    BY ContentFacts
  <1>2. /\ A # {} => Min(A) \in A
        /\ B # {} => Min(B) \in B
    <2>1. A \in SUBSET (1..Len(ms)) /\ B \in SUBSET (1..Len(ms))
      BY <1>1
    <2> HIDE DEF ms, A, B
    <2> QED
      BY <1>1, <2>1, FirstAndLast
  <1>3. found = IF A # {} THEN ms[Min(A)].digest
                ELSE IF B # {} THEN ms[Min(B)].digest ELSE NoImage
    <2>1. FirstOf(ms, annotated) = IF A = {} THEN NoImage ELSE ms[Min(A)].digest
      BY DEF FirstOf
    <2>2. FirstOf(ms, standard) = IF B = {} THEN NoImage ELSE ms[Min(B)].digest
      BY DEF FirstOf
    <2>3. found = IF FirstOf(ms, annotated) # NoImage THEN FirstOf(ms, annotated)
                  ELSE FirstOf(ms, standard)
      BY DEF FindManifest
    <2> HIDE DEF ms, annotated, standard
    <2>4. A # {} => ms[Min(A)].digest # NoImage
      BY <1>1, <1>2
    <2> HIDE DEF A, B
    <2> QED
      BY <2>1, <2>2, <2>3, <2>4
  <1>4. ManifestsOf(route, d) = {m.digest : m \in {m \in ToSet(ms) : standard(m) \/ annotated(m)}}
    BY DEF ManifestsOf
  <1>5. \A i \in A \cup B : /\ ms[i].digest \in ManifestsOf(route, d)
                            /\ ms[i].digest \in Described(d)
    BY <1>4 DEF ToSet, Described
  <1>6. A = {} /\ B = {} => ManifestsOf(route, d) = {}
    BY <1>4 DEF ToSet
  <1>7. A \subseteq DOMAIN ms /\ B \subseteq DOMAIN ms
    OBVIOUS
  <1> HIDE DEF ms, annotated, standard, A, B
  <1> QED
    BY <1>1, <1>2, <1>3, <1>5, <1>6, <1>7

\* The layer of a type is one of the manifest's, unless there is none.
LEMMA LayerFound ==
  ASSUME NEW layers \in Seq([type: LayerTypes, digest: Digests]), NEW types, NEW last
  PROVE  LET l == Layer(layers, types, last)
         IN /\ l = NoImage => \A x \in ToSet(layers) : x.type \notin types
            /\ l # NoImage => /\ l \in Digests
                              /\ \E x \in ToSet(layers) : x.type \in types /\ x.digest = l
  <1> DEFINE S == {i \in DOMAIN layers : layers[i].type \in types}
             p == IF last THEN Max(S) ELSE Min(S)
  <1>1. /\ Len(layers) \in Nat /\ DOMAIN layers = 1..Len(layers)
        /\ \A i \in DOMAIN layers : layers[i].digest \in Digests
    <2>1. \A x \in [type: LayerTypes, digest: Digests] : x.digest \in Digests
      OBVIOUS
    <2> DEFINE E == [type: LayerTypes, digest: Digests]
    <2>2. layers \in Seq(E)
      OBVIOUS
    <2> HIDE DEF E
    <2>3. /\ Len(layers) \in Nat /\ DOMAIN layers = 1..Len(layers)
          /\ \A i \in DOMAIN layers : layers[i] \in E
      BY <2>2
    <2> QED
      BY <2>1, <2>3 DEF E
  <1>2. S # {} => p \in S
    <2>1. S \in SUBSET (1..Len(layers))
      BY <1>1
    <2> HIDE DEF S
    <2> QED
      BY <1>1, <2>1, FirstAndLast
  <1>3. Layer(layers, types, last) = IF S = {} THEN NoImage ELSE layers[p].digest
    BY DEF Layer
  <1> HIDE DEF p
  <1>4. S # {} => /\ layers[p].digest \in Digests /\ layers[p].digest # NoImage
                  /\ layers[p] \in ToSet(layers) /\ layers[p].type \in types
    BY <1>1, <1>2, ContentFacts DEF ToSet
  <1>5. S = {} => \A x \in ToSet(layers) : x.type \notin types
    BY DEF ToSet
  <1> HIDE DEF S
  <1> QED
    BY <1>3, <1>4, <1>5

-----------------------------------------------------------------------------
(***************************************************************************)
(* Registries.                                                             *)
(***************************************************************************)
\* Repositories hold images, those among them that their tags name.
RegistryOK ==
  /\ tagged \in [Repositories -> [Tags -> Images \cup {NoImage}]]
  /\ present \in [Repositories -> SUBSET Images]
  /\ \A r \in Repositories : \A t \in Tags : tagged[r][t] \in present[r] \cup {NoImage}

\* A repository holds content, and no more than one index deep.
LEMMA HoldingFacts ==
  ASSUME NEW images \in SUBSET Images
  PROVE  /\ images \subseteq DOMAIN Content
         /\ Holding(images) \subseteq DOMAIN Content
         /\ images \subseteq Holding(images)
         /\ \A d \in images : Described(d) \subseteq Holding(images)
         /\ \A d \in Holding(images) : Content[d].mediaType = "index" => d \in images
  <1>1. images \subseteq DOMAIN Content
    BY DEF Images
  <1>2. \A d \in images : \A e \in Described(d) :
          e \in DOMAIN Content /\ Content[e].mediaType # "index"
    BY <1>1, ContentFacts DEF Described, ToSet
  <1> QED
    BY <1>1, <1>2 DEF Holding

\* Tags move and images are collected, but tags name what is there.
LEMMA RegistryStep == RegistryOK /\ [Next]_vars => RegistryOK'
  <1> SUFFICES ASSUME RegistryOK, [Next]_vars PROVE RegistryOK'
    OBVIOUS
  <1>1. ASSUME NEW r \in Repositories, NEW d \in Images, NEW t \in Tags, MoveTag(r, t, d)
        PROVE  RegistryOK'
    <2>1. /\ tagged' = [tagged EXCEPT ![r] = [@ EXCEPT ![t] = d]]
          /\ present' = [present EXCEPT ![r] = @ \cup {d}]
      BY <1>1 DEF MoveTag
    <2>2. tagged' \in [Repositories -> [Tags -> Images \cup {NoImage}]]
      BY <2>1 DEF RegistryOK
    <2>3. present' \in [Repositories -> SUBSET Images]
      BY <2>1 DEF RegistryOK
    <2>4. ASSUME NEW s \in Repositories, NEW u \in Tags
          PROVE  tagged'[s][u] \in present'[s] \cup {NoImage}
      BY <2>1 DEF RegistryOK
    <2> QED
      BY <2>2, <2>3, <2>4 DEF RegistryOK
  <1>2. ASSUME NEW r \in Repositories, NEW d \in Images, Collect(r, d)
        PROVE  RegistryOK'
    BY <1>2 DEF Collect, RegistryOK
  <1>3. CASE UNCHANGED <<tagged, present>>
    BY <1>3 DEF RegistryOK
  <1>4. ASSUME NEW route \in Routes,
               \/ Start(route) \/ Resolve(route) \/ FetchTop(route) \/ FetchNested(route)
               \/ Write(route) \/ Fault(route)
        PROVE  UNCHANGED <<tagged, present>>
    BY <1>4 DEF Start, Resolve, FetchTop, FetchNested, Write, Fault, Do, Fail
  <1> QED
    BY <1>1, <1>2, <1>3, <1>4 DEF Next, vars

Digestible == DOMAIN Content \cup {NoImage}

\* A reference names content or nothing.
LEMMA NamedType ==
  ASSUME NEW tags \in [Repositories -> [Tags -> Images \cup {NoImage}]],
         NEW images \in [Repositories -> SUBSET Images],
         NEW route, NEW ref \in References
  PROVE  /\ Named(tags, images, Meant(ref)) \in Digestible
         /\ Named(tags, images, Asked(route, ref)) \in Digestible
  <1>1. ASSUME NEW q, q.tag \in Tags \cup {NoTag}
        PROVE  Named(tags, images, q) \in Digestible
    <2> DEFINE r == Repository(q)
    <2>1. CASE r \in Repositories
      <3>1. Holding(images[r]) \subseteq DOMAIN Content /\ Images \subseteq DOMAIN Content
        BY <2>1, HoldingFacts DEF Images
      <3>2. q.tag # NoTag => tags[r][q.tag] \in Images \cup {NoImage}
        BY <1>1, <2>1
      <3> QED
        BY <3>1, <3>2 DEF Named, Digestible
    <2>2. CASE r \notin Repositories
      BY <2>2 DEF Named, Digestible
    <2> QED
      BY <2>1, <2>2
  <1> QED
    BY <1>1, AskedVersion

\* What the resolver finds is there, a digest names itself, a tag an image; it is
\* what the reference means if the parser keeps that.
LEMMA ResolvedFacts ==
  ASSUME RegistryOK, NEW route, NEW ref \in References,
         NEW d, d = Named(tagged, present, Asked(route, ref)), d # NoImage
  PROVE  LET asked == Asked(route, ref)
         IN /\ Resolvable(asked) /\ Repository(asked) \in Repositories
            /\ Kept(route, ref) => d = Named(tagged, present, Meant(ref))
            /\ IF asked.digest # NoDigest THEN d = asked.digest
               ELSE d \in present[Repository(asked)]
  <1> DEFINE asked == Asked(route, ref)
             meant == Meant(ref)
             r == Repository(asked)
  <1>1. Resolvable(asked) /\ r \in Repositories
    BY DEF Named
  <1>2. Resolvable(meant) /\ Repository(meant) = r
    BY <1>1, AskedIsMeant
  <1>3. /\ Kept(route, ref) => asked.tag = meant.tag /\ asked.digest = meant.digest
        /\ asked.tag \in Tags \cup {NoTag}
    BY AskedVersion
  <1> HIDE DEF asked, meant, r
  <1>4. d = Named(tagged, present, asked)
    BY DEF asked
  <1>5. Repository(asked) = r
    BY DEF r
  <1>6. Kept(route, ref) => d = Named(tagged, present, meant)
    BY <1>1, <1>2, <1>3, <1>4, <1>5 DEF Named
  <1>7. NoDigest \notin Holding(present[r])
    BY <1>1, HoldingFacts, ContentFacts DEF RegistryOK
  <1>8. IF asked.digest # NoDigest THEN d = asked.digest ELSE d \in present[r]
    <2>1. CASE asked.digest # NoDigest
      BY <1>4, <1>5, <2>1 DEF Named
    <2>2. CASE asked.digest = NoDigest
      <3>1. asked.tag \in Tags /\ d = tagged[r][asked.tag]
        BY <1>3, <1>4, <1>5, <1>7, <2>2 DEF Named
      <3> QED
        BY <1>1, <2>2, <3>1 DEF RegistryOK
    <2> QED
      BY <2>1, <2>2
  <1> QED
    BY <1>1, <1>6, <1>8 DEF asked, meant, r

\* What the resolver does not find the reference does not name either, if the
\* resolver understands it and the parser keeps it.
LEMMA UnresolvedFacts ==
  ASSUME NEW route, NEW ref \in References,
         Named(tagged, present, Asked(route, ref)) = NoImage, ResolvedAsMeant(route, ref),
         Kept(route, ref)
  PROVE  Named(tagged, present, Meant(ref)) = NoImage
  <1> DEFINE asked == Asked(route, ref)
             meant == Meant(ref)
  <1>1. asked.tag = meant.tag /\ asked.digest = meant.digest
    BY AskedVersion
  <1>2. Resolvable(asked) /\ Repository(asked) = Repository(meant)
    BY DEF ResolvedAsMeant
  <1>3. Named(tagged, present, asked) = NoImage
    OBVIOUS
  <1> HIDE DEF asked, meant
  <1>4. Named(tagged, present, meant) = NoImage
    BY <1>1, <1>2, <1>3 DEF Named
  <1> QED
    BY <1>4 DEF meant

-----------------------------------------------------------------------------
(***************************************************************************)
(* Resolutions.                                                            *)
(*                                                                         *)
(* A resolution asks a registry three times, and the properties are about  *)
(* all of its answers together.  JobOK says what the record of one is good *)
(* for in between, given the tags and the images of the repositories.      *)
(***************************************************************************)
JobVal ==
  [pc: {"idle", "resolve", "top", "nested", "layers", "error"},
   ref: References \cup {NoImage}, image: Digestible, manifest: Digestible,
   named: SUBSET Digestible, excused: BOOLEAN]

\* The checks have let the reference pass, and what it names is on record.
RefOK(route, q, tags, images) ==
  /\ q.ref \in RefsOf[route]
  /\ Accepted(route, q.ref)
  /\ Named(tags, images, Meant(q.ref)) \in q.named

\* What was resolved is on record unless the pin is lost; it is there still if a
\* tag named it, unless the resolution is excused.
ImageOK(route, q, images) ==
  LET asked == Asked(route, q.ref)
  IN /\ Resolvable(asked) /\ Repository(asked) \in Repositories
     /\ q.image # NoImage
     /\ PinIsLost(route, q.ref) \/ q.image \in q.named
     /\ IF asked.digest # NoDigest THEN q.image = asked.digest
        ELSE q.excused \/ q.image \in images[Repository(asked)]

\* The manifest is one of the image for the architecture.
ManifestOK(route, q) == q.manifest \in ManifestsOf(route, q.image) \ {NoImage}

\* An image that is reported as unusable is not allowed, or not found as it is
\* meant, or lost its pin, or could not be booted at some time.
FailureOK(route, q) ==
  ~q.excused =>
    \/ ~Accepted(route, q.ref)
    \/ ~ResolvedAsMeant(route, q.ref)
    \/ PinIsLost(route, q.ref)
    \/ \E d \in q.named : ~Bootable(route, d)

JobOK(route, q, tags, images) ==
  /\ q \in JobVal
  /\ q.pc \notin {"idle", "error"} => RefOK(route, q, tags, images)
  /\ q.pc \in {"top", "nested", "layers"} => ImageOK(route, q, images)
  /\ q.pc = "nested" => Content[q.image].mediaType = "index"
  /\ q.pc \in {"nested", "layers"} => ManifestOK(route, q)
  /\ q.pc = "error" => q.ref \in RefsOf[route] /\ FailureOK(route, q)

JobsOK ==
  /\ job \in [Routes -> JobVal]
  /\ \A route \in Routes : JobOK(route, job[route], tagged, present)

\* A resolution that has not started, or is over.
LEMMA IdleOK ==
  ASSUME NEW route, NEW tags, NEW images
  PROVE  JobOK(route, Idle, tags, images)
  BY DEF JobOK, JobVal, Idle, Digestible

\* What goes on at the registries while a resolution is under way.
LEMMA WatchingOK ==
  ASSUME JobsOK, RegistryOK, RegistryOK', NEW collected, Watching(collected),
         \A r \in Repositories : present[r] \subseteq present'[r] \cup collected
  PROVE  JobsOK'
  <1>1. ASSUME NEW route \in Routes
        PROVE  JobOK(route, job'[route], tagged', present') /\ job'[route] \in JobVal
    <2> DEFINE q == job[route]
               n == Named(tagged', present', Meant(q.ref))
               e == q.excused \/ q.image \in collected
               seen == q.named \cup {n}
               p == job'[route]
    <2>1. JobOK(route, q, tagged, present)
      BY <1>1 DEF JobsOK
    <2>2. CASE ~UnderWay(route)
      <3>1. job'[route] = q /\ q.pc \in {"idle", "error"}
        BY <2>2 DEF Watching, UnderWay
      <3> QED
        BY <2>1, <3>1 DEF JobOK
    <2>3. CASE UnderWay(route)
      <3>1. job'[route] = [q EXCEPT !.named = @ \cup {n}, !.excused = e]
        BY <2>3 DEF Watching
      <3>2. q \in JobVal /\ q.pc \notin {"idle", "error"} /\ RefOK(route, q, tagged, present)
        BY <2>1, <2>3 DEF JobOK, UnderWay
      <3>3. q.ref \in References
        BY <1>1, <3>2, DeliveryAssumption DEF RefOK
      <3>4. n \in Digestible /\ e \in BOOLEAN
        BY <3>2, <3>3, NamedType DEF RegistryOK, JobVal
      <3> HIDE DEF n, e, p
      <3>10. seen \in SUBSET Digestible
        BY <3>2, <3>4 DEF JobVal
      <3>11. p = [q EXCEPT !.named = seen, !.excused = e]
        BY <3>1 DEF p
      <3> HIDE DEF seen, q
      <3>5. /\ p \in JobVal /\ p.pc = q.pc /\ p.ref = q.ref /\ p.image = q.image
            /\ p.manifest = q.manifest /\ p.named = seen /\ p.excused = e
        <4>1. q \in JobVal /\ seen \in SUBSET Digestible
          BY <3>2, <3>10
        <4>2. CASE e = TRUE
          <5>1. p = [q EXCEPT !.named = seen, !.excused = TRUE]
            BY <3>11, <4>2
          <5> QED
            BY <4>1, <4>2, <5>1 DEF JobVal
        <4>3. CASE e = FALSE
          <5>1. p = [q EXCEPT !.named = seen, !.excused = FALSE]
            BY <3>11, <4>3
          <5> QED
            BY <4>1, <4>3, <5>1 DEF JobVal
        <4> QED
          BY <3>4, <4>2, <4>3
      <3>6. RefOK(route, p, tagged', present')
        BY <3>2, <3>5 DEF RefOK, n, seen
      <3>7. ASSUME q.pc \in {"top", "nested", "layers"}
            PROVE  ImageOK(route, p, present')
        <4>1. ImageOK(route, q, present)
          BY <2>1, <3>7 DEF JobOK
        <4> QED
          BY <3>5, <4>1 DEF ImageOK, e, seen
      <3>8. ManifestOK(route, q) => ManifestOK(route, p)
        BY <3>5 DEF ManifestOK
      <3>9. JobOK(route, p, tagged', present')
        BY <2>1, <3>2, <3>5, <3>6, <3>7, <3>8 DEF JobOK
      <3> QED
        BY <3>5, <3>9 DEF p, q
    <2> QED
      BY <2>2, <2>3
  <1>2. job' \in [Routes -> JobVal]
    <2>1. job' = [route \in Routes |-> job'[route]]
      BY DEF Watching
    <2> QED
      BY <1>1, <2>1
  <1> QED
    BY <1>1, <1>2 DEF JobsOK

\* One step of a resolution.
LEMMA DoOK ==
  ASSUME JobsOK, UNCHANGED <<tagged, present>>, NEW route \in Routes, NEW q,
         job' = [job EXCEPT ![route] = q], JobOK(route, q, tagged, present)
  PROVE  JobsOK'
  <1>1. q \in JobVal
    BY DEF JobOK
  <1> QED
    BY <1>1 DEF JobsOK

\* What a resolution under way knows.
LEMMA UnderWayFacts ==
  ASSUME JobsOK, NEW route \in Routes, job[route].pc \notin {"idle", "error"}
  PROVE  LET q == job[route]
         IN /\ q \in JobVal
            /\ RefOK(route, q, tagged, present) /\ q.ref \in References
            /\ q.pc \in {"top", "nested", "layers"} =>
                 ImageOK(route, q, present) /\ q.image \in DOMAIN Content
            /\ q.pc = "nested" => Content[q.image].mediaType = "index"
            /\ q.pc \in {"nested", "layers"} =>
                 ManifestOK(route, q) /\ q.manifest \in DOMAIN Content
  <1> DEFINE q == job[route]
  <1>1. JobOK(route, q, tagged, present)
    BY DEF JobsOK
  <1>2. q.ref \in References
    BY <1>1, DeliveryAssumption DEF JobOK, RefOK
  <1> HIDE DEF q
  <1>3. q \in JobVal /\ q.image \in Digestible /\ q.manifest \in Digestible
    BY <1>1 DEF JobOK, JobVal
  <1>4. q.pc \in {"top", "nested", "layers"} =>
          ImageOK(route, q, present) /\ q.image \in DOMAIN Content
    BY <1>1, <1>3 DEF JobOK, ImageOK, Digestible
  <1>5. q.pc \in {"nested", "layers"} =>
          ManifestOK(route, q) /\ q.manifest \in DOMAIN Content
    BY <1>1, <1>3 DEF JobOK, ManifestOK, Digestible
  <1> QED
    BY <1>1, <1>2, <1>3, <1>4, <1>5 DEF JobOK, q

\* A resolution that fails for a reason.
LEMMA FailOK ==
  ASSUME JobsOK, RegistryOK, NEW route \in Routes, job[route].pc \notin {"idle", "error"},
         Fail(route), FailureOK(route, job[route])
  PROVE  JobsOK'
  <1> DEFINE q == job[route]
             p == [q EXCEPT !.pc = "error"]
  <1>1. q \in JobVal /\ q.ref \in RefsOf[route]
    BY UnderWayFacts DEF RefOK
  <1>2. /\ p \in JobVal /\ p.pc = "error" /\ p.ref = q.ref
        /\ p.named = q.named /\ p.excused = q.excused
    BY <1>1 DEF JobVal
  <1>3. job' = [job EXCEPT ![route] = p] /\ UNCHANGED <<tagged, present>>
    BY DEF Fail, Do
  <1> HIDE DEF p
  <1>4. JobOK(route, p, tagged, present)
    BY <1>1, <1>2 DEF JobOK, FailureOK
  <1> QED
    BY <1>3, <1>4, DoOK

\* What was resolved is at the registry still, or its reference has named
\* nothing since; else it was collected.
LEMMA StillThere ==
  ASSUME JobsOK, RegistryOK, NEW route \in Routes,
         job[route].pc \in {"top", "nested", "layers"}, ~job[route].excused,
         NoImage \notin job[route].named, ~PinIsLost(route, job[route].ref)
  PROVE  LET q == job[route]
             r == Repository(Asked(route, q.ref))
         IN /\ r \in Repositories
            /\ q.image \in Holding(present[r])
            /\ Content[q.image].mediaType = "index" =>
                 Described(q.image) \subseteq Holding(present[r])
  <1> DEFINE q == job[route]
             asked == Asked(route, q.ref)
             meant == Meant(q.ref)
             r == Repository(asked)
  <1>1. /\ q.ref \in References /\ ImageOK(route, q, present)
        /\ Named(tagged, present, meant) \in q.named
        /\ Kept(route, q.ref)
    BY UnderWayFacts DEF RefOK, Accepted, Kept
  <1>2. /\ Resolvable(asked) /\ r \in Repositories
        /\ IF asked.digest # NoDigest THEN q.image = asked.digest
           ELSE q.image \in present[r]
    BY <1>1 DEF ImageOK
  <1>3. Resolvable(meant) /\ Repository(meant) = r /\ asked.digest = meant.digest
    BY <1>1, <1>2, AskedIsMeant, AskedVersion
  <1>4. present[r] \in SUBSET Images
    BY <1>2 DEF RegistryOK
  <1>5. q.image \in Holding(present[r])
    <2>1. CASE asked.digest # NoDigest
      <3>1. Named(tagged, present, meant) # NoImage
        BY <1>1
      <3> HIDE DEF asked, meant, r, q
      <3>2. meant.digest \in Holding(present[r])
        BY <1>3, <2>1, <3>1 DEF Named
      <3> QED
        BY <1>2, <1>3, <2>1, <3>2
    <2>2. CASE asked.digest = NoDigest
      <3>1. present[r] \subseteq Holding(present[r])
        BY <1>4, HoldingFacts
      <3> QED
        BY <1>2, <2>2, <3>1
    <2> QED
      BY <2>1, <2>2
  <1>6. ASSUME Content[q.image].mediaType = "index"
        PROVE  Described(q.image) \subseteq Holding(present[r])
    <2>1. q.image \in present[r]
      BY <1>4, <1>5, <1>6, HoldingFacts
    <2> QED
      BY <1>4, <2>1, HoldingFacts
  <1> QED
    BY <1>2, <1>5, <1>6

\* A name is parsed and checked.
LEMMA StartOK ==
  ASSUME JobsOK, RegistryOK, NEW route \in Routes, Start(route)
  PROVE  JobsOK'
  <1>1. PICK ref \in RefsOf[route] :
          Do(route, [Idle EXCEPT !.pc = IF Accepted(route, ref) THEN "resolve" ELSE "error",
                                 !.ref = ref,
                                 !.named = {Named(tagged, present, Meant(ref))}])
    BY DEF Start
  <1> DEFINE pc == IF Accepted(route, ref) THEN "resolve" ELSE "error"
             n == Named(tagged, present, Meant(ref))
             named == {n}
             p == [Idle EXCEPT !.pc = pc, !.ref = ref, !.named = named]
  <1>2. Idle \in JobVal
    BY IdleOK DEF JobOK
  <1>3. job' = [job EXCEPT ![route] = p] /\ UNCHANGED <<tagged, present>>
    BY <1>1 DEF Do
  <1>4. ref \in References
    BY DeliveryAssumption
  <1>5. n \in Digestible /\ pc \in {"resolve", "error"}
    BY <1>4, NamedType DEF RegistryOK
  <1>6. p \in JobVal /\ p.pc = pc /\ p.ref = ref /\ p.named = named
    <2>1. named \in SUBSET Digestible
      BY <1>5
    <2> HIDE DEF named, n, pc
    <2> QED
      BY <1>2, <1>4, <1>5, <2>1 DEF JobVal
  <1> HIDE DEF p
  <1>7. JobOK(route, p, tagged, present)
    <2>1. /\ n \in p.named /\ p.pc \in {"resolve", "error"}
          /\ pc = "resolve" => Accepted(route, ref)
          /\ pc = "error" => ~Accepted(route, ref)
      BY <1>5, <1>6
    <2>2. pc = "resolve" => RefOK(route, p, tagged, present)
      BY <1>6, <2>1 DEF RefOK
    <2>3. pc = "error" => FailureOK(route, p)
      BY <1>6, <2>1 DEF FailureOK
    <2> HIDE DEF pc, n
    <2> QED
      BY <1>6, <2>1, <2>2, <2>3 DEF JobOK
  <1> QED
    BY <1>3, <1>7, DoOK

\* The resolver finds what the reference means, or nothing, or the pin is lost.
LEMMA ResolveOK ==
  ASSUME JobsOK, RegistryOK, NEW route \in Routes, Resolve(route)
  PROVE  JobsOK'
  <1> DEFINE q == job[route]
             d == Named(tagged, present, Asked(route, q.ref))
             p == [q EXCEPT !.pc = "top", !.image = d]
  <1>1. q.pc = "resolve" /\ (IF d = NoImage THEN Fail(route) ELSE Do(route, p))
    BY DEF Resolve
  <1>2. q \in JobVal /\ q.ref \in References /\ RefOK(route, q, tagged, present)
    BY <1>1, UnderWayFacts
  <1>0. ~PinIsLost(route, q.ref) => Kept(route, q.ref)
    BY <1>2 DEF RefOK, Accepted, Kept
  <1>3. CASE d = NoImage
    <2>1. ResolvedAsMeant(route, q.ref) /\ ~PinIsLost(route, q.ref) => NoImage \in q.named
      BY <1>0, <1>2, <1>3, UnresolvedFacts DEF RefOK
    <2>2. ~Bootable(route, NoImage)
      BY DEF Bootable
    <2>3. FailureOK(route, q)
      BY <2>1, <2>2 DEF FailureOK
    <2> QED
      BY <1>1, <1>3, <2>3, FailOK
  <1>4. CASE d # NoImage
    <2>1. d \in Digestible
      BY <1>2, NamedType DEF RegistryOK
    <2>2. /\ p \in JobVal /\ p.pc = "top" /\ p.ref = q.ref /\ p.image = d
          /\ p.named = q.named
      <3> HIDE DEF d
      <3> QED
        BY <1>2, <2>1 DEF JobVal
    <2>3. LET asked == Asked(route, q.ref)
          IN /\ Resolvable(asked) /\ Repository(asked) \in Repositories
             /\ Kept(route, q.ref) => d = Named(tagged, present, Meant(q.ref))
             /\ IF asked.digest # NoDigest THEN d = asked.digest
                ELSE d \in present[Repository(asked)]
      BY <1>2, <1>4, ResolvedFacts
    <2>4. job' = [job EXCEPT ![route] = p] /\ UNCHANGED <<tagged, present>>
      BY <1>1, <1>4 DEF Do
    <2> HIDE DEF d, p
    <2>5. RefOK(route, p, tagged, present)
      BY <1>2, <2>2 DEF RefOK
    <2>6. ImageOK(route, p, present)
      BY <1>0, <1>2, <1>4, <2>2, <2>3 DEF ImageOK, RefOK
    <2>7. JobOK(route, p, tagged, present)
      BY <2>2, <2>5, <2>6 DEF JobOK
    <2> QED
      BY <2>4, <2>7, DoOK
  <1> QED
    BY <1>3, <1>4

\* What the next step of a resolution works on, after it has learned more.
LEMMA NextPart ==
  ASSUME JobsOK, NEW route \in Routes, job[route].pc \in {"top", "nested"},
         NEW pc \in {"nested", "layers"}, NEW m \in DOMAIN Content,
         UNCHANGED <<tagged, present>>,
         job' = [job EXCEPT ![route] = [@ EXCEPT !.pc = pc, !.manifest = m]],
         m \in ManifestsOf(route, job[route].image),
         pc = "nested" => Content[job[route].image].mediaType = "index"
  PROVE  JobsOK'
  <1> DEFINE q == job[route]
             p == [q EXCEPT !.pc = pc, !.manifest = m]
  <1>1. /\ q \in JobVal /\ RefOK(route, q, tagged, present) /\ ImageOK(route, q, present)
        /\ m \in Digestible /\ m # NoImage
    BY UnderWayFacts, ContentFacts DEF Digestible
  <1>2. job' = [job EXCEPT ![route] = p]
    OBVIOUS
  <1>3. /\ m \in ManifestsOf(route, q.image)
        /\ pc = "nested" => Content[q.image].mediaType = "index"
    OBVIOUS
  <1> HIDE DEF q
  <1>4. /\ p \in JobVal /\ p.pc = pc /\ p.ref = q.ref /\ p.image = q.image /\ p.manifest = m
        /\ p.named = q.named /\ p.excused = q.excused
    BY <1>1 DEF JobVal
  <1> HIDE DEF p
  <1>5. RefOK(route, p, tagged, present) /\ ImageOK(route, p, present) /\ ManifestOK(route, p)
    BY <1>1, <1>3, <1>4 DEF RefOK, ImageOK, ManifestOK
  <1>6. JobOK(route, p, tagged, present)
    BY <1>3, <1>4, <1>5 DEF JobOK
  <1> QED
    BY <1>2, <1>6, DoOK

\* The manifest for the architecture is found in the index, or is the image.
LEMMA FetchTopOK ==
  ASSUME JobsOK, RegistryOK, NEW route \in Routes, FetchTop(route)
  PROVE  JobsOK'
  <1> DEFINE q == job[route]
             r == Repository(Asked(route, q.ref))
             found == FindManifest(route, Content[q.image].manifests)
  <1>1. /\ q.pc = "top"
        /\ IF q.image \notin Holding(present[r]) THEN Fail(route)
           ELSE IF Content[q.image].mediaType # "index"
           THEN Do(route, [q EXCEPT !.pc = "layers", !.manifest = q.image])
           ELSE IF found = NoImage THEN Fail(route)
           ELSE Do(route, [q EXCEPT !.pc = "nested", !.manifest = found])
    BY DEF FetchTop
  <1>2. /\ q \in JobVal /\ q.image \in DOMAIN Content
        /\ PinIsLost(route, q.ref) \/ q.image \in q.named
    BY <1>1, UnderWayFacts DEF ImageOK
  <1>3. CASE q.image \notin Holding(present[r])
    <2>1. q.excused \/ NoImage \in q.named \/ PinIsLost(route, q.ref)
      BY <1>1, <1>3, StillThere
    <2>2. FailureOK(route, q)
      BY <2>1 DEF FailureOK, Bootable
    <2> QED
      BY <1>1, <1>3, <2>2, FailOK
  <1>4. CASE Fail(route) /\ Content[q.image].mediaType = "index" /\ found = NoImage
    <2>1. ManifestsOf(route, q.image) = {}
      BY <1>2, <1>4, ManifestFound
    <2>2. FailureOK(route, q)
      BY <1>2, <2>1 DEF FailureOK, Bootable
    <2> QED
      BY <1>1, <1>4, <2>2, FailOK
  <1>5. CASE /\ Content[q.image].mediaType # "index"
             /\ Do(route, [q EXCEPT !.pc = "layers", !.manifest = q.image])
    <2>1. q.image \in ManifestsOf(route, q.image)
      BY <1>5 DEF ManifestsOf
    <2> QED
      BY <1>1, <1>2, <1>5, <2>1, NextPart DEF Do
  <1>6. CASE /\ Content[q.image].mediaType = "index" /\ found # NoImage
             /\ Do(route, [q EXCEPT !.pc = "nested", !.manifest = found])
    <2>1. found \in ManifestsOf(route, q.image) /\ found \in DOMAIN Content
      BY <1>2, <1>6, ManifestFound
    <2> HIDE DEF found
    <2> QED
      BY <1>1, <1>6, <2>1, NextPart DEF Do
  <1> QED
    BY <1>1, <1>3, <1>4, <1>5, <1>6

\* The manifest is there as long as the index is.
LEMMA FetchNestedOK ==
  ASSUME JobsOK, RegistryOK, NEW route \in Routes, FetchNested(route)
  PROVE  JobsOK'
  <1> DEFINE q == job[route]
             r == Repository(Asked(route, q.ref))
  <1>1. /\ q.pc = "nested"
        /\ IF q.manifest \notin Holding(present[r]) THEN Fail(route)
           ELSE Do(route, [q EXCEPT !.pc = "layers"])
    BY DEF FetchNested
  <1>2. /\ q \in JobVal /\ Content[q.image].mediaType = "index" /\ ManifestOK(route, q)
        /\ RefOK(route, q, tagged, present) /\ ImageOK(route, q, present)
    BY <1>1, UnderWayFacts
  <1>3. CASE q.manifest \notin Holding(present[r])
    <2>1. q.manifest \in Described(q.image)
      BY <1>2 DEF ManifestOK, ManifestsOf, Described
    <2>2. q.excused \/ NoImage \in q.named \/ PinIsLost(route, q.ref)
      BY <1>1, <1>2, <1>3, <2>1, StillThere
    <2>3. FailureOK(route, q)
      BY <2>2 DEF FailureOK, Bootable
    <2> QED
      BY <1>1, <1>3, <2>3, FailOK
  <1>4. CASE q.manifest \in Holding(present[r])
    <2> DEFINE p == [q EXCEPT !.pc = "layers"]
    <2>1. job' = [job EXCEPT ![route] = p] /\ UNCHANGED <<tagged, present>>
      BY <1>1, <1>4 DEF Do
    <2> HIDE DEF q
    <2>2. /\ p \in JobVal /\ p.pc = "layers" /\ p.ref = q.ref /\ p.image = q.image
          /\ p.manifest = q.manifest /\ p.named = q.named /\ p.excused = q.excused
      BY <1>2 DEF JobVal
    <2> HIDE DEF p
    <2>3. RefOK(route, p, tagged, present) /\ ImageOK(route, p, present) /\ ManifestOK(route, p)
      BY <1>2, <2>2 DEF RefOK, ImageOK, ManifestOK
    <2>4. JobOK(route, p, tagged, present)
      BY <2>2, <2>3 DEF JobOK
    <2> QED
      BY <2>1, <2>4, DoOK
  <1> QED
    BY <1>3, <1>4

\* A failed call excuses the resolution.
LEMMA FaultOK ==
  ASSUME JobsOK, RegistryOK, NEW route \in Routes, Fault(route)
  PROVE  JobsOK'
  <1> DEFINE q == job[route]
             p == [q EXCEPT !.pc = "error", !.excused = TRUE]
  <1>1. /\ q.pc \in {"resolve", "top", "nested"}
        /\ job' = [job EXCEPT ![route] = p]
        /\ UNCHANGED <<tagged, present>>
    BY DEF Fault
  <1>2. q \in JobVal /\ q.ref \in RefsOf[route]
    BY <1>1, UnderWayFacts DEF RefOK
  <1> HIDE DEF q
  <1>3. p \in JobVal /\ p.pc = "error" /\ p.ref = q.ref /\ p.excused
    BY <1>2 DEF JobVal
  <1> HIDE DEF p
  <1>4. JobOK(route, p, tagged, present)
    BY <1>2, <1>3 DEF JobOK, FailureOK
  <1> QED
    BY <1>1, <1>4, DoOK

\* A manifest's layers.
LEMMA LayersOfType ==
  ASSUME NEW m \in DOMAIN Content
  PROVE  LayersOf(m) \in Seq([type: LayerTypes, digest: Digests])
  <1> DEFINE E == [type: LayerTypes, digest: Digests]
  <1>1. Content[m].layers \in Seq(E)
    BY ContentFacts
  <1> HIDE DEF E
  <1>2. <<>> \in Seq(E)
    OBVIOUS
  <1> QED
    BY <1>1, <1>2 DEF LayersOf, E

\* The URLs are written, or the image has no UKI for the architecture.
LEMMA WriteOK ==
  ASSUME JobsOK, RegistryOK, NEW route \in Routes, Write(route)
  PROVE  JobsOK'
  <1> DEFINE q == job[route]
             urls == Written(route, q)
  <1>1. /\ q.pc = "layers"
        /\ IF route # "pxe" /\ DOMAIN urls = {} THEN Fail(route)
           ELSE job' = [job EXCEPT ![route] = Idle] /\ UNCHANGED <<tagged, present>>
    BY DEF Write
  <1>2. /\ ManifestOK(route, q) /\ q.manifest \in DOMAIN Content
        /\ PinIsLost(route, q.ref) \/ q.image \in q.named
    BY <1>1, UnderWayFacts DEF ImageOK
  <1>3. CASE route # "pxe" /\ DOMAIN urls = {}
    <2>1. Layer(LayersOf(q.manifest), TypesOf["uki"], route = "pxe") = NoImage
      BY <1>3 DEF Written, FilesOf
    <2>2. TypesOf["uki"] = UKI
      BY DEF TypesOf
    <2>3. \A x \in ToSet(LayersOf(q.manifest)) : x.type \notin UKI
      BY <1>2, <2>1, <2>2, LayersOfType, LayerFound
    <2>4. ~Bootable(route, q.image)
      BY <1>2, <1>3, <2>3 DEF Bootable, ManifestOK
    <2>5. FailureOK(route, q)
      BY <1>2, <2>4 DEF FailureOK
    <2> QED
      BY <1>1, <1>3, <2>5, FailOK
  <1>4. CASE ~(route # "pxe" /\ DOMAIN urls = {})
    BY <1>1, <1>4, IdleOK, DoOK
  <1> QED
    BY <1>3, <1>4

\* Every step keeps what is known of the resolutions.
LEMMA JobsStep == JobsOK /\ RegistryOK /\ [Next]_vars => JobsOK'
  <1> SUFFICES ASSUME JobsOK, RegistryOK, [Next]_vars PROVE JobsOK'
    OBVIOUS
  <1>0. RegistryOK'
    BY RegistryStep
  <1>1. ASSUME NEW r \in Repositories, NEW d \in Images, NEW t \in Tags, MoveTag(r, t, d)
        PROVE  JobsOK'
    <2>1. Watching({}) /\ \A s \in Repositories : present[s] \subseteq present'[s] \cup {}
      BY <1>1 DEF MoveTag, RegistryOK
    <2> QED
      BY <1>0, <2>1, WatchingOK
  <1>2. ASSUME NEW r \in Repositories, NEW d \in Images, Collect(r, d)
        PROVE  JobsOK'
    <2>1. Watching({d}) /\ \A s \in Repositories : present[s] \subseteq present'[s] \cup {d}
      BY <1>2 DEF Collect, RegistryOK
    <2> QED
      BY <1>0, <2>1, WatchingOK
  <1>3. ASSUME NEW route \in Routes,
               \/ Start(route) \/ Resolve(route) \/ FetchTop(route) \/ FetchNested(route)
               \/ Write(route) \/ Fault(route)
        PROVE  JobsOK'
    BY <1>3, StartOK, ResolveOK, FetchTopOK, FetchNestedOK, WriteOK, FaultOK
  <1>4. CASE UNCHANGED vars
    BY <1>4 DEF vars, JobsOK
  <1> QED
    BY <1>1, <1>2, <1>3, <1>4 DEF Next

\* Nothing is under way yet.
LEMMA DeliveryInit == Init => RegistryOK /\ JobsOK
  <1> SUFFICES ASSUME Init PROVE RegistryOK /\ JobsOK
    OBVIOUS
  <1>1. RegistryOK
    <2>1. /\ tagged \in [Repositories -> [Tags -> Images \cup {NoImage}]]
          /\ present = [r \in Repositories |-> {tagged[r][t] : t \in Tags} \ {NoImage}]
      BY DEF Init
    <2> QED
      BY <2>1 DEF RegistryOK
  <1>2. JobsOK
    <2>1. job = [route \in Routes |-> Idle]
      BY DEF Init
    <2>2. Idle \in JobVal
      BY IdleOK DEF JobOK
    <2> QED
      BY <2>1, <2>2, IdleOK DEF JobsOK
  <1> QED
    BY <1>1, <1>2

\* A step writes the URLs of one route only.
LEMMA ChildStep ==
  ASSUME DOMAIN child = Routes, [Next]_vars
  PROVE  /\ DOMAIN child' = Routes
         /\ \A route \in Routes :
              \/ child'[route] = child[route]
              \/ /\ job[route].pc = "layers"
                 /\ child'[route] =
                      [urls |-> Written(route, job[route]), ref |-> job[route].ref,
                       named |-> job[route].named, at |-> Repository(Asked(route, job[route].ref))]
  <1>1. CASE UNCHANGED child
    BY <1>1
  <1>2. ASSUME NEW route \in Routes, Write(route)
        PROVE  \/ UNCHANGED child
               \/ /\ job[route].pc = "layers"
                  /\ child' = [child EXCEPT ![route] =
                       [urls |-> Written(route, job[route]), ref |-> job[route].ref,
                        named |-> job[route].named, at |-> Repository(Asked(route, job[route].ref))]]
    BY <1>2 DEF Write, Fail, Do
  <1>3. UNCHANGED child \/ \E route \in Routes : Write(route)
    BY DEF Next, vars, Start, Resolve, FetchTop, FetchNested, Fault, Fail, Do, MoveTag, Collect
  <1> QED
    BY <1>1, <1>2, <1>3

-----------------------------------------------------------------------------
(***************************************************************************)
(* Theorems.                                                               *)
(***************************************************************************)
Inv ==
  /\ RegistryOK
  /\ JobsOK
  /\ DOMAIN child = Routes
  /\ pushes \in 0..MaxPushes
  /\ faults \in 0..MaxFaults

\* Inv is inductive.
LEMMA Invariance == Spec => []Inv
  <1>1. Init => Inv
    <2> SUFFICES ASSUME Init PROVE Inv
      OBVIOUS
    <2>1. DOMAIN child = Routes /\ pushes = 0 /\ faults = 0
      BY DEF Init
    <2>2. 0 \in 0..MaxPushes /\ 0 \in 0..MaxFaults
      BY DeliveryAssumption
    <2> QED
      BY <2>1, <2>2, DeliveryInit DEF Inv
  <1>2. Inv /\ [Next]_vars => Inv'
    <2> SUFFICES ASSUME Inv, [Next]_vars PROVE Inv'
      OBVIOUS
    <2>1. MaxPushes \in Nat /\ MaxFaults \in Nat
      BY DeliveryAssumption
    <2>2. /\ pushes' = pushes \/ (pushes < MaxPushes /\ pushes' = pushes + 1)
          /\ faults' = faults \/ (faults < MaxFaults /\ faults' = faults + 1)
      BY DEF Next, vars, Start, Resolve, FetchTop, FetchNested, Write, Fault, Fail, Do,
             MoveTag, Collect
    <2>3. pushes' \in 0..MaxPushes /\ faults' \in 0..MaxFaults
      BY <2>1, <2>2 DEF Inv
    <2>4. RegistryOK' /\ JobsOK' /\ DOMAIN child' = Routes
      BY RegistryStep, JobsStep, ChildStep DEF Inv
    <2> QED
      BY <2>3, <2>4 DEF Inv
  <1> QED
    BY <1>1, <1>2, PTL DEF Spec

\* What is resolved on the way to a layer is content of the registries,
\* whatever is pushed, collected or fails meanwhile.
THEOREM TypeCorrect == Spec => []TypeOK
  <1>1. Inv => TypeOK
    <2> SUFFICES ASSUME Inv PROVE TypeOK
      OBVIOUS
    <2>1. ASSUME NEW route \in Routes
          PROVE  LET q == job[route]
                 IN /\ q.pc \in {"idle", "resolve", "top", "nested", "layers", "error"}
                    /\ q.named \subseteq DOMAIN Content \cup {NoImage}
                    /\ q.excused \in BOOLEAN
                    /\ UnderWay(route) => q.ref \in RefsOf[route]
                    /\ q.pc \in {"top", "nested", "layers"} => q.image \in DOMAIN Content
                    /\ q.pc \in {"nested", "layers"} => q.manifest \in DOMAIN Content
      <3>1. job[route] \in JobVal
        BY DEF Inv, JobsOK
      <3>2. UnderWay(route) => job[route].ref \in RefsOf[route]
        BY UnderWayFacts DEF Inv, UnderWay, RefOK
      <3>3. /\ job[route].pc \in {"top", "nested", "layers"} =>
                 job[route].image \in DOMAIN Content
            /\ job[route].pc \in {"nested", "layers"} => job[route].manifest \in DOMAIN Content
        BY UnderWayFacts DEF Inv
      <3> QED
        BY <3>1, <3>2, <3>3 DEF JobVal, Digestible
    <2> QED
      BY <2>1 DEF Inv, TypeOK, RegistryOK
  <1> QED
    BY <1>1, Invariance, PTL

\* An allowed reference passes the checks, however its host is written.
LEMMA AllowedIsAccepted ==
  ASSUME NEW route, NEW ref \in References, Allowed(route, ref)
  PROVE  Accepted(route, ref)
  <1> DEFINE asked == Asked(route, ref)
             host == ParseNormalizedNamed(ref).host
  <1>1. ref.wellFormed /\ asked.wellFormed
    BY AskedVersion DEF Allowed
  <1>2. \E item \in (IF AllowedRegistries = {} THEN {DefaultAllowedRegistry}
                     ELSE AllowedRegistries) : Canonical(item) = Canonical(host)
    BY DEF Allowed
  <1>3. Canonical(ExtractRegistryDomain(asked)) = Canonical(host)
    <2>1. host = IF OnDockerHub(ref.host) THEN DockerHubDomain ELSE ref.host
      BY DEF References, ParseNormalizedNamed, OnDockerHub
    <2>2. ExtractRegistryDomain(asked) =
            IF OnDockerHub(NameFor(route, ref).host) THEN DefaultRegistry
            ELSE NameFor(route, ref).host
      BY AskedName, DomainOfHost
    <2>3. IF OnDockerHub(ref.host) THEN OnDockerHub(NameFor(route, ref).host)
          ELSE NameFor(route, ref).host = ref.host
      <3>1. CASE route = "default"
        BY <3>1 DEF NameFor, NameOf
      <3>2. CASE route # "default"
        <4>1. NameFor(route, ref) = ParseImageReference(ref).name
          BY <3>2 DEF NameFor
        <4>2. OnDockerHub(ref.host) => NameFor(route, ref).host = NoHost
          BY <4>1, Familiar
        <4>3. ~OnDockerHub(ref.host) => NameFor(route, ref) = NameOf(ref)
          BY <4>1, Familiar
        <4>4. NameOf(ref).host = ref.host /\ OnDockerHub(NoHost)
          BY DEF NameOf, OnDockerHub
        <4> QED
          BY <4>2, <4>3, <4>4
      <3> QED
        BY <3>1, <3>2
    <2>4. Canonical(DockerHubDomain) = DockerHubDomain /\ Canonical(DefaultRegistry) = DockerHubDomain
      BY ReferenceAssumption DEF Canonical
    <2> HIDE DEF asked, host
    <2>5. CASE OnDockerHub(ref.host)
      BY <2>1, <2>2, <2>3, <2>4, <2>5
    <2>6. CASE ~OnDockerHub(ref.host)
      BY <2>1, <2>2, <2>3, <2>6
    <2> QED
      BY <2>5, <2>6
  <1> HIDE DEF asked, host
  <1>4. \A h : normalizeDockerHubDomain(h) = Canonical(h)
    BY DEF normalizeDockerHubDomain, Canonical
  <1>5. IsRegistryAllowed(ExtractRegistryDomain(asked))
    <2>1. CASE AllowedRegistries = {}
      <3>1. Canonical(DefaultAllowedRegistry) = DefaultAllowedRegistry
        BY ReferenceAssumption
           DEF Canonical, DefaultAllowedRegistry, DockerHubDomain, IndexDomain, DefaultRegistry
      <3> QED
        BY <1>2, <1>3, <1>4, <2>1, <3>1 DEF IsRegistryAllowed
    <2>2. CASE AllowedRegistries # {}
      BY <1>2, <1>3, <1>4, <2>2 DEF IsRegistryAllowed, isInList
    <2> QED
      BY <2>1, <2>2
  <1> QED
    BY <1>1, <1>5 DEF Accepted, ValidateImageRegistry, Allowed, asked

\* An allowed image that can be booted is never reported as unusable, however
\* its host is written and whatever is pushed meanwhile, if its name is one
\* that the resolver understands as Docker does, and its digest is not lost
\* beside a tag (ValidateImageRegistry, ParseImageReference,
\* FindManifestByArchitecture).
THEOREM AllowedImagesAreUsed == Spec => []AllowedIsUsed
  <1>1. Inv => AllowedIsUsed
    <2> SUFFICES ASSUME Inv, NEW route \in Routes, FailsNeedlessly(route)
                 PROVE  \/ ~ResolvedAsMeant(route, job[route].ref)
                        \/ PinIsLost(route, job[route].ref)
      BY DEF AllowedIsUsed
    <2> DEFINE q == job[route]
    <2>1. /\ q.pc = "error" /\ ~q.excused
          /\ Allowed(route, q.ref)
          /\ \A d \in q.named : Bootable(route, d)
      BY DEF FailsNeedlessly
    <2>2. q.ref \in RefsOf[route] /\ FailureOK(route, q)
      BY <2>1 DEF Inv, JobsOK, JobOK
    <2>3. q.ref \in References
      BY <2>2, DeliveryAssumption
    <2>4. Accepted(route, q.ref)
      BY <2>1, <2>3, AllowedIsAccepted
    <2> QED
      BY <2>1, <2>2, <2>4 DEF FailureOK
  <1> QED
    BY <1>1, Invariance, PTL

\* The image proxy reads from a URL the digest of the layer it was written for
\* (parseImageURL, parseHttpBootImagePath, buildImageURL, constructUKIURL).
LEMMA DigestIsRead ==
  ASSUME NEW name, NEW version, NEW l \in Digests
  PROVE  /\ ImageDetails(buildImageURL(name, version, l)).digest = l
         /\ Readable(ukiURL(name, l)) => ImageDetails(ukiURL(name, l)).digest = l
  <1>1. l = [alg |-> l.alg, hash |-> l.hash] /\ l.alg \in Algorithms /\ l.hash \in Hashes
    BY DEF Digests
  <1>2. ASSUME NEW url
        PROVE  ImageDetails(url).digest = [alg |-> url.prefix, hash |-> url.hash]
    BY DEF ImageDetails, parseImageURL, parseHttpBootImagePath, DetailsOf
  <1>3. /\ buildImageURL(name, version, l).prefix = l.alg
        /\ buildImageURL(name, version, l).hash = l.hash
    BY DEF buildImageURL
  <1>4. /\ ukiURL(name, l).prefix = "sha256"
        /\ ukiURL(name, l).hash = IF l.alg = "sha256" THEN l.hash ELSE <<l.alg, l.hash>>
    BY DEF ukiURL
  <1>5. Readable(ukiURL(name, l)) => l.alg = "sha256"
    BY <1>1, <1>4, ReferenceAssumption DEF Readable
  <1> QED
    BY <1>1, <1>2, <1>3, <1>4, <1>5

\* What a resolution writes: for a file the URL of a layer for it.
LEMMA WrittenFile ==
  ASSUME NEW route, NEW q, q.manifest \in DOMAIN Content,
         NEW f \in DOMAIN Written(route, q)
  PROVE  \E l \in Digests :
           /\ \E x \in ToSet(LayersOf(q.manifest)) : x.type \in TypesOf[f] /\ x.digest = l
           /\ Written(route, q)[f] =
                IF route = "pxe"
                THEN buildImageURL(NameFor(route, q.ref), ParseImageReference(q.ref).version, l)
                ELSE ukiURL(NameFor(route, q.ref), l)
  <1> DEFINE l == Layer(LayersOf(q.manifest), TypesOf[f], route = "pxe")
  <1>1. /\ l # NoImage
        /\ Written(route, q)[f] =
             IF route = "pxe"
             THEN buildImageURL(NameFor(route, q.ref), ParseImageReference(q.ref).version, l)
             ELSE ukiURL(NameFor(route, q.ref), l)
    BY DEF Written, NameFor
  <1>2. /\ l \in Digests
        /\ \E x \in ToSet(LayersOf(q.manifest)) : x.type \in TypesOf[f] /\ x.digest = l
    BY <1>1, LayersOfType, LayerFound
  <1> QED
    BY <1>1, <1>2

\* What a machine boots is one image for its architecture, and one that the
\* reference named while it was resolved, although tags move and images are
\* collected between the calls to the registry
\* (getLayerDigestsFromNestedManifest, getUKIDigestFromNestedManifest,
\* FindManifestByArchitecture); if the reconcilers lose the digest of a
\* reference with a tag, it is one image, but not the one that is named.
THEOREM NamedIsBooted == Spec => []BootsWhatWasNamed
  <1> DEFINE Boots(route, c) ==
        c.urls # <<>> =>
          \E d \in (IF PinIsLost(route, c.ref) THEN DOMAIN Content
                   ELSE c.named \ {NoImage}) : \E m \in ManifestsOf(route, d) :
            \A f \in DOMAIN c.urls : Readable(c.urls[f]) =>
              \E l \in ToSet(LayersOf(m)) :
                l.type \in TypesOf[f] /\ l.digest = ImageDetails(c.urls[f]).digest
  <1>1. Init => BootsWhatWasNamed
    BY DEF Init, NoURLs, BootsWhatWasNamed
  <1>2. Inv /\ BootsWhatWasNamed /\ [Next]_vars => BootsWhatWasNamed'
    <2> SUFFICES ASSUME Inv, BootsWhatWasNamed, [Next]_vars, NEW route \in Routes
                 PROVE  Boots(route, child'[route])
      BY DEF BootsWhatWasNamed
    <2> DEFINE q == job[route]
    <2>1. CASE child'[route] = child[route]
      BY <2>1 DEF BootsWhatWasNamed
    <2>2. ASSUME q.pc = "layers",
                 NEW c, c.urls = Written(route, q), c.ref = q.ref, c.named = q.named
          PROVE  Boots(route, c)
      <3>1. /\ q.image \in DOMAIN Content /\ q.image # NoImage
            /\ PinIsLost(route, q.ref) \/ q.image \in q.named
            /\ q.manifest \in ManifestsOf(route, q.image)
            /\ q.manifest \in DOMAIN Content
        BY <2>2, UnderWayFacts DEF Inv, ImageOK, ManifestOK
      <3> HIDE DEF q
      <3>2. ASSUME NEW f \in DOMAIN c.urls, Readable(c.urls[f])
            PROVE  \E l \in ToSet(LayersOf(q.manifest)) :
                     l.type \in TypesOf[f] /\ l.digest = ImageDetails(c.urls[f]).digest
        <4>1. PICK l \in Digests :
                /\ \E x \in ToSet(LayersOf(q.manifest)) : x.type \in TypesOf[f] /\ x.digest = l
                /\ c.urls[f] =
                     IF route = "pxe"
                     THEN buildImageURL(NameFor(route, q.ref),
                                        ParseImageReference(q.ref).version, l)
                     ELSE ukiURL(NameFor(route, q.ref), l)
          BY <2>2, <3>1, WrittenFile
        <4>2. ImageDetails(c.urls[f]).digest = l
          BY <3>2, <4>1, DigestIsRead
        <4> QED
          BY <4>1, <4>2
      <3> QED
        BY <2>2, <3>1, <3>2
    <2>3. CASE /\ q.pc = "layers"
               /\ child'[route] = [urls |-> Written(route, q), ref |-> q.ref, named |-> q.named,
                                   at |-> Repository(Asked(route, q.ref))]
      <3>1. /\ child'[route].urls = Written(route, q) /\ child'[route].ref = q.ref
            /\ child'[route].named = q.named
        BY <2>3
      <3> HIDE DEF Boots, q
      <3> QED
        BY <2>2, <2>3, <3>1
    <2> QED
      BY <2>1, <2>3, ChildStep DEF Inv
  <1> QED
    BY <1>1, <1>2, Invariance, PTL DEF Spec

\* The image proxy asks the registry and the repository in which the image was
\* resolved, and does not refuse them: allow list, resolver, the writer of the
\* URL and its reader agree on a name (parseImageURL, parseHttpBootImagePath).
THEOREM ProxyAsksTheRepository == Spec => []ProxyFindsTheImage
  <1> DEFINE Finds(url, at) ==
        \/ url.endpoint = "/image" /\ Trimmed(url.name) # url.name
        \/ /\ IsRegistryAllowed(ImageDetails(url).domain)
           /\ [server |-> Lower[ImageDetails(url).domain],
               path |-> ImageDetails(url).repository] = at
  <1>1. Init => ProxyFindsTheImage
    BY DEF Init, NoURLs, ProxyFindsTheImage
  <1>2. Inv /\ ProxyFindsTheImage /\ [Next]_vars => ProxyFindsTheImage'
    <2> SUFFICES ASSUME Inv, ProxyFindsTheImage, [Next]_vars, NEW route \in Routes,
                        NEW f \in DOMAIN child'[route].urls
                 PROVE  Finds(child'[route].urls[f], child'[route].at)
      BY DEF ProxyFindsTheImage
    <2> DEFINE q == job[route]
    <2>1. CASE child'[route] = child[route]
      BY <2>1 DEF ProxyFindsTheImage
    <2>2. CASE /\ q.pc = "layers"
               /\ child'[route] = [urls |-> Written(route, q), ref |-> q.ref, named |-> q.named,
                                   at |-> Repository(Asked(route, q.ref))]
      <3> DEFINE url == child'[route].urls[f]
                 asked == Asked(route, q.ref)
      <3>1. /\ q.ref \in RefsOf[route] /\ Accepted(route, q.ref)
            /\ Resolvable(asked) /\ Repository(asked) \in Repositories
            /\ q.manifest \in DOMAIN Content
        BY <2>2, UnderWayFacts DEF Inv, RefOK, ImageOK
      <3>2. q.ref \in References /\ ValidateImageRegistry(asked)
        BY <3>1, DeliveryAssumption DEF Accepted
      <3>3. /\ url = Written(route, q)[f] /\ f \in DOMAIN Written(route, q)
            /\ child'[route].at = Repository(asked)
        BY <2>2
      <3> HIDE DEF q, url
      <3>4. url.name = NameFor(route, q.ref)
        BY <3>1, <3>3, WrittenFile DEF buildImageURL, ukiURL
      <3>5. CASE url.endpoint = "/image" => Trimmed(url.name) = url.name
        <4>1. /\ IsRegistryAllowed(ImageDetails(url).domain)
              /\ Repository(asked) = [server |-> Lower[ImageDetails(url).domain],
                                      path |-> ImageDetails(url).repository]
          BY <3>1, <3>2, <3>4, <3>5, ReadersAgree
        <4> QED
          BY <3>3, <4>1 DEF url
      <3> QED
        BY <3>5 DEF url
    <2> QED
      BY <2>1, <2>2, ChildStep DEF Inv
  <1> QED
    BY <1>1, <1>2, Invariance, PTL DEF Spec
=============================================================================
