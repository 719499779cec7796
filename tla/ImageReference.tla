--------------------------- MODULE ImageReference ---------------------------
(***************************************************************************)
(* Names of OCI images, and what the parts of the operator make of them    *)
(* (internal/registry/validation.go, internal/uki/oci.go, the helpers of   *)
(* the SBC reconcilers, and the URLs that server/imageproxyserver.go       *)
(* takes apart again).  Four readers of a name must agree, each with a     *)
(* parser of its own: the allow list, the resolver of containerd, the      *)
(* writer of the URL and the image proxy.                                  *)
(*                                                                         *)
(* A reference is a record of what is written: a host ("" when there is    *)
(* none), the components of a path, a tag ("" when there is none) and a    *)
(* digest.  Hosts are strings, as some of them have a meaning in the code; *)
(* the rest of a name only matters for being equal or not.                 *)
(***************************************************************************)
EXTENDS Sequences

CONSTANTS Hosts,     \* registry hosts, as they may be written
          Lower,     \* strings.ToLower on them
          Names,     \* components of paths
          TrimEFI,   \* strings.TrimSuffix(name, ".efi") on them
          Tags,      \* tags
          Hashes,    \* the hashes of digests
          AllowedRegistries   \* the items of --allowed-registries, none if not set

DockerHubDomain == "docker.io"
IndexDomain == "index.docker.io"
DefaultRegistry == "registry-1.docker.io"
DefaultAllowedRegistry == "ghcr.io"
NoHost == ""
NoTag == ""
Latest == "latest"
Library == "library"

Algorithms == {"sha256", "sha384", "sha512"}
Digests == [alg: Algorithms, hash: Hashes]
NoDigest == [alg |-> "none", hash |-> "none"]
Versions == [tag: Tags \cup {NoTag}, digest: Digests \cup {NoDigest}]

ASSUME ReferenceAssumption ==
  /\ {DockerHubDomain, IndexDomain, DefaultRegistry, DefaultAllowedRegistry} \subseteq Hosts
  /\ NoHost \notin Hosts
  /\ Lower \in [Hosts -> Hosts]
  /\ \A h \in {DockerHubDomain, IndexDomain, DefaultRegistry, DefaultAllowedRegistry} :
       Lower[h] = h
  /\ Library \in Names
  /\ TrimEFI \in [Names -> Names]
  /\ TrimEFI[Library] = Library
  /\ Latest \in Tags
  /\ NoTag \notin Tags
  /\ AllowedRegistries \subseteq Hosts
  /\ \A alg \in Algorithms, hash \in Hashes : <<alg, hash>> \notin Hashes

ImageNames == [host: Hosts \cup {NoHost}, path: Seq(Names) \ {<<>>}]

\* wellFormed is whether the grammar of references accepts what is written.
Reference(name, version, wellFormed) ==
  [host |-> name.host, path |-> name.path, tag |-> version.tag,
   digest |-> version.digest, wellFormed |-> wellFormed]

\* References as they may be written.
References ==
  [host: Hosts \cup {NoHost}, path: Seq(Names) \ {<<>>}, tag: Tags \cup {NoTag},
   digest: Digests \cup {NoDigest}, wellFormed: BOOLEAN]

NameOf(ref) == [host |-> ref.host, path |-> ref.path]
NoVersion == [tag |-> NoTag, digest |-> NoDigest]
Plain(name) == Reference(name, NoVersion, TRUE)

-----------------------------------------------------------------------------
(***************************************************************************)
(* github.com/distribution/reference.  A name without a host is on Docker  *)
(* Hub, and one component alone is an official image there.  The familiar  *)
(* name leaves out what normalization adds.                                *)
(***************************************************************************)
ParseNormalizedNamed(ref) ==
  LET hub == ref.host \in {NoHost, DockerHubDomain, IndexDomain}
  IN [ref EXCEPT !.host = IF hub THEN DockerHubDomain ELSE @,
                 !.path = IF hub /\ Len(@) = 1 THEN <<Library>> \o @ ELSE @]

FamiliarName(named) ==
  IF named.host # DockerHubDomain THEN NameOf(named)
  ELSE [host |-> NoHost,
        path |-> IF Len(named.path) = 2 /\ named.path[1] = Library
                 THEN Tail(named.path) ELSE named.path]

-----------------------------------------------------------------------------
(***************************************************************************)
(* The helpers of the SBC reconcilers.                                     *)
(***************************************************************************)

\* Name and version: a tag goes before a digest, whose pin is lost then.
ParseImageReference(ref) ==
  LET pinned == ref.tag = NoTag /\ ref.digest # NoDigest
  IN [name |-> FamiliarName(ParseNormalizedNamed(ref)),
      version |-> CASE ref.tag # NoTag -> [tag |-> ref.tag, digest |-> NoDigest]
                    [] pinned -> [tag |-> NoTag, digest |-> ref.digest]
                    [] OTHER -> [tag |-> Latest, digest |-> NoDigest]]

\* The version is joined by @ if it starts like one of two digests and by a
\* colon otherwise, where another digest is no tag.
BuildImageReference(name, version) ==
  Reference(name, version, version.digest = NoDigest \/ version.digest.alg \in {"sha256", "sha512"})

\* The URL of a layer at the image proxy: query parameters of /image ...
buildImageURL(name, version, digest) ==
  [endpoint |-> "/image", name |-> name, version |-> version, prefix |-> digest.alg,
   hash |-> digest.hash]

\* ... or a path below /httpboot/, name/sha256-hash.efi.  TrimPrefix leaves
\* another algorithm in the hash.
ukiURL(name, digest) ==
  [endpoint |-> "/httpboot/", name |-> name, version |-> NoVersion, prefix |-> "sha256",
   hash |-> IF digest.alg = "sha256" THEN digest.hash ELSE <<digest.alg, digest.hash>>]

\* parseOCIReferenceForUKI: the name as written; a tag or a digest is required.
HasVersion(ref) == ref.tag # NoTag \/ ref.digest # NoDigest

-----------------------------------------------------------------------------
(***************************************************************************)
(* The allow list.                                                         *)
(***************************************************************************)

\* Mutation: Docker Hub is called by its short name.
ExtractShortDomain(ref) == ParseNormalizedNamed(ref).host

ExtractRegistryDomain(ref) ==
  LET domain == ParseNormalizedNamed(ref).host
  IN IF domain = DockerHubDomain THEN DefaultRegistry ELSE domain

\* Mutation: hosts are compared as they are written.
normalizeWithoutCase(domain) ==
  IF domain \in {DockerHubDomain, IndexDomain, DefaultRegistry} THEN DockerHubDomain ELSE domain

normalizeDockerHubDomain(domain) ==
  IF Lower[domain] \in {DockerHubDomain, IndexDomain, DefaultRegistry}
  THEN DockerHubDomain ELSE Lower[domain]

isInList(domain) ==
  \E item \in AllowedRegistries :
    normalizeDockerHubDomain(item) = normalizeDockerHubDomain(domain)

IsRegistryAllowed(domain) ==
  IF AllowedRegistries # {} THEN isInList(domain)
  ELSE normalizeDockerHubDomain(domain) = DefaultAllowedRegistry

ValidateImageRegistry(ref) ==
  ref.wellFormed /\ IsRegistryAllowed(ExtractRegistryDomain(ref))

-----------------------------------------------------------------------------
(***************************************************************************)
(* The image proxy reads a URL: parseImageURL and parseHttpBootImagePath.  *)
(* The first takes .efi from the end of the name, the second from the end  *)
(* of the digest.                                                          *)
(***************************************************************************)
Trimmed(name) == [name EXCEPT !.path[Len(name.path)] = TrimEFI[@]]

DetailsOf(name, url) ==
  [domain |-> ExtractRegistryDomain(Plain(name)),
   repository |-> ParseNormalizedNamed(Plain(name)).path,
   digest |-> [alg |-> url.prefix, hash |-> url.hash]]

parseImageURL(url) == DetailsOf(Trimmed(url.name), url)

parseHttpBootImagePath(url) == DetailsOf(url.name, url)

ImageDetails(url) ==
  IF url.endpoint = "/image" THEN parseImageURL(url) ELSE parseHttpBootImagePath(url)

-----------------------------------------------------------------------------
(***************************************************************************)
(* The resolver of containerd.  It takes a reference as it is written:     *)
(* what comes before the first slash is the host, and Docker Hub has an    *)
(* alias, but no official images.                                          *)
(***************************************************************************)
Resolvable(ref) == ref.host # NoHost

ServerOf(host) == IF host = DockerHubDomain THEN DefaultRegistry ELSE Lower[host]

Repository(ref) == [server |-> ServerOf(ref.host), path |-> ref.path]
=============================================================================
