-------------------------- MODULE BackendManifest ---------------------------
(***************************************************************************)
(* Negotiation of backend/src/lib.rs: a manifest is a contract version and *)
(* a word with one bit per capability, and a caller requires both.         *)
(***************************************************************************)
EXTENDS Naturals, FiniteSetsExt, Bitwise

(* Capability ids. *)
StrongRoots == 0
NativeState == 1
OwnedExternalBuffers == 2
ForcedGarbageCollection == 3
BorrowedBufferBytes == 4
Capabilities == 0 .. 4

(* The u64 of the code, cut to the bits that have a capability, all set. *)
AllBits == 31

mask(capability) == 2 ^ capability

empty == 0
with(set, capability) == set | mask(capability)
only(capability) == mask(capability)
contains(set, capability) == (set & mask(capability)) # 0
difference(set, other) == set & (AllBits - other)
iter(set) == {capability \in Capabilities : contains(set, capability)}

ContractVersion(major, minor) == [major |-> major, minor |-> minor]
supports(provided, required) == provided.major = required.major /\ provided.minor >= required.minor

Manifest(contract, capabilities) == [contract |-> contract, capabilities |-> capabilities]

require(manifest, contract, capabilities) ==
  IF ~supports(manifest.contract, contract) THEN [refused |-> "ContractVersion", missing |-> empty]
  ELSE LET missing == difference(capabilities, manifest.capabilities)
       IN  IF missing = empty THEN [refused |-> "Ok", missing |-> empty]
           ELSE [refused |-> "MissingCapabilities", missing |-> missing]

BACKEND_CONTRACT_VERSION == ContractVersion(2, 0)

(* What the two backends advertise. *)
ModelManifest ==
  Manifest(BACKEND_CONTRACT_VERSION, with(with(only(StrongRoots), OwnedExternalBuffers), BorrowedBufferBytes))

JscManifest == Manifest(BACKEND_CONTRACT_VERSION, with(only(StrongRoots), OwnedExternalBuffers))
=============================================================================
