CONSTANTS
  os = os
  osEFI = osEFI
  image = image
  one = one
  two = two
  nestedA = nestedA
  nestedB = nestedB
  old = old
  flat = flat
  list = list
  sha512 = sha512
  Hosts = {"docker.io", "index.docker.io", "Index.docker.io", "registry-1.docker.io", "ghcr.io", "GHCR.IO", "quay.io"}
  Lower <- LowerOf
  Names = {"library", image, os, osEFI}
  TrimEFI <- TrimEFIOf
  Tags = {"v1", "latest"}
  Hashes = {one, two, nestedA, nestedB, old, flat, list, sha512}
  Content <- ContentOf
  NoImage = NoImage
  Architecture = "amd64"
  AllowedRegistries = {"docker.io"}
  Routes = {"http"}
  RefsOf <- OnHub
  Repositories <- HubOnly
  MaxPushes = 0
  MaxFaults = 0
SPECIFICATION MCSpec
INVARIANTS
  DockerHubIsSupported
CHECK_DEADLOCK FALSE
