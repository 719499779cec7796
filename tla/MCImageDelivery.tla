-------------------------- MODULE MCImageDelivery --------------------------
(***************************************************************************)
(* Instances of ImageDelivery for TLC.  The routes share nothing but the   *)
(* registries, which they only read: one of them runs in each behaviour,   *)
(* until it has written its URLs, as the next resolution starts afresh.    *)
(***************************************************************************)
EXTENDS ImageDelivery

CONSTANTS os, image,                \* names
          osEFI,                    \* os.efi
          one, two, nestedA, nestedB, old, flat, list, sha512  \* hashes

LowerOf ==
  [h \in Hosts |-> CASE h = "GHCR.IO" -> "ghcr.io" [] h = "Index.docker.io" -> "index.docker.io"
                     [] OTHER -> h]
TrimEFIOf == [n \in Names |-> IF n = osEFI THEN os ELSE n]

D(hash) == [alg |-> IF hash = sha512 THEN "sha512" ELSE "sha256", hash |-> hash]
L(type, hash) == [type |-> type, digest |-> D(hash)]
For(hash, platform, cname, annotated) ==
  [digest |-> D(hash), platform |-> platform, cname |-> cname, annotated |-> annotated]
Manifest(layers) == [mediaType |-> "manifest", layers |-> layers, manifests |-> <<>>]
Index(manifests) == [mediaType |-> "index", layers |-> <<>>, manifests |-> manifests]

\* An image for two architectures, one of them also in the older format; one
\* for another architecture; a manifest without an index; Docker's list.  A
\* layer is named by the hash of its manifest, which tells whose it is.
ContentOf ==
  (D(one) :> Index(<<For(nestedB, "arm64", TRUE, "arm64"), For(nestedA, "amd64", FALSE, ""),
                     For(old, "", TRUE, "amd64")>>)) @@
  (D(two) :> Index(<<For(nestedB, "arm64", FALSE, "amd64")>>)) @@
  (D(nestedA) :> Manifest(<<L("squashfs", one), L("kernel", nestedA), L("initrd", nestedA),
                            L("uki", nestedA), L("uki", one)>>)) @@
  (D(nestedB) :> Manifest(<<L("kernel", nestedB), L("initrd", nestedB), L("uki", nestedB)>>)) @@
  (D(old) :> Manifest(<<L("kernel", one), L("kernelOld", old), L("initrdOld", old)>>)) @@
  (D(flat) :> Manifest(<<L("uki", sha512), L("kernel", flat)>>)) @@
  (D(list) :> [mediaType |-> "list", layers |-> <<>>, manifests |-> <<>>])

GHCR == [server |-> "ghcr.io", path |-> <<image, os>>]
Hub == [server |-> "registry-1.docker.io", path |-> <<Library, os>>]
Odd == [server |-> "ghcr.io", path |-> <<osEFI>>]
MCRepositories == {GHCR, Hub, Odd}
HubOnly == {Hub}

Named_(host, path, tag, digest) ==
  Reference([host |-> host, path |-> path], [tag |-> tag, digest |-> digest], TRUE)

\* References as users write them.
GHCRRefs ==
  {Named_("ghcr.io", <<image, os>>, "v1", NoDigest),
   Named_("GHCR.IO", <<image, os>>, NoTag, D(one)),
   Named_("ghcr.io", <<image, os>>, "v1", D(one)),
   Named_("ghcr.io", <<image, os>>, NoTag, NoDigest),
   Named_("ghcr.io", <<image, os>>, NoTag, [alg |-> "sha384", hash |-> one]),
   Named_("ghcr.io", <<osEFI>>, "v1", NoDigest),
   Named_("quay.io", <<image, os>>, "v1", NoDigest),
   [Named_("ghcr.io", <<image, os>>, "v1", NoDigest) EXCEPT !.wellFormed = FALSE]}
HubRefs ==
  {Named_(NoHost, <<os>>, "v1", NoDigest),
   Named_("docker.io", <<os>>, "v1", NoDigest),
   Named_("docker.io", <<Library, os>>, "v1", NoDigest),
   Named_("index.docker.io", <<Library, os>>, "v1", NoDigest)}
AllRefs == [route \in Routes |-> GHCRRefs \cup HubRefs]
OnHub == [route \in Routes |-> HubRefs]

VARIABLE only   \* the route that runs

\* One tag of one repository names anything at first, and is moved while a
\* resolution is under way; the tag that is used by default stays.
MCInit ==
  /\ Init
  /\ only \in Routes
  /\ \A r \in Repositories : tagged[r][Latest] \in {D(one), NoImage}
  /\ \A r \in Repositories \ {GHCR} : \A t \in Tags : tagged[r][t] = D(one)
MCNext ==
  /\ child[only] = NoURLs
  /\ Next
  /\ UNCHANGED only
  /\ pushes' # pushes => UnderWay(only)
  /\ \A r \in Repositories : tagged'[r][Latest] = tagged[r][Latest]
  /\ \A r \in Repositories \ {GHCR} : tagged'[r] = tagged[r] /\ present'[r] = present[r]
  /\ \A route \in Routes \ {only} : job'[route] = job[route]

MCSpec == MCInit /\ [][MCNext]_<<vars, only>>
=============================================================================
