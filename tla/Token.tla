------------------------------- MODULE Token -------------------------------
(***************************************************************************)
(* The life of a biscuit (biscuit.go, builder.go, third_party.go): an       *)
(* issuer builds it, holders append blocks, ask third parties for signed    *)
(* blocks and seal it, verifiers pick a root key and check the chain.       *)
(*                                                                          *)
(* Cryptography is symbolic: a key pair is one value, a signature is the    *)
(* pair <<key, message>> and verifies under that key only.  The labelled    *)
(* byte layouts of the payload functions become tuples with a leading tag.  *)
(***************************************************************************)
EXTENDS Naturals, Sequences, SequencesExt

CONSTANTS
  RootKeys,        \* root key pairs of issuers
  PartyKeys,       \* key pairs of third parties
  RootKeyID,       \* RootKeyID[k]: the id the issuer gives root key k
  Data,            \* marshalled block contents
  MaxTokens,       \* bound: tokens built, derived or imported
  MaxBlocks,       \* bound: blocks per token, authority included
  MaxKeys          \* bound: key pairs generated for next keys

(* Generated key pairs are numbered from 1; 0 is no key.  A verifier's map  *)
(* of keys holds one key for an id.                                         *)
ASSUME TokenAssumption ==
  /\ MaxTokens \in Nat /\ MaxBlocks \in Nat \ {0} /\ MaxKeys \in Nat
  /\ RootKeys \cap PartyKeys = {}
  /\ (RootKeys \cup PartyKeys) \cap (0..MaxKeys) = {}
  /\ \A k \in RootKeys, l \in RootKeys : RootKeyID[k] = RootKeyID[l] => k = l

VARIABLES
  tokens,     \* the Biscuit values in existence, in order of creation
  requests,   \* ThirdPartyBlockRequests handed out: a previousSignature each
  contents,   \* ThirdPartyBlockContents signed by third parties
  keyCount    \* how many next keys have been generated

vars == <<tokens, requests, contents, keyCount>>

NoSignature == <<>>
Sign(key, message) == <<key, message>>
Verify(key, message, signature) == signature = <<key, message>>

NoExternal == [key |-> 0, signature |-> NoSignature]

-----------------------------------------------------------------------------
(* Signature payloads.  v1 authority payloads have no PREVSIG part and v1   *)
(* payloads of first-party blocks no EXTERNALSIG part.                      *)

blockSignaturePayloadV0(data, nextKey) == <<"v0", data, nextKey>>

(* Seeded fault: the next key is left out of the signed payload.            *)
PayloadWithoutNextKey(data, nextKey, externalSignature, previousSignature) ==
  <<"block", data, previousSignature, externalSignature>>

blockSignaturePayloadV1(data, nextKey, externalSignature, previousSignature) ==
  <<"block", data, nextKey, previousSignature, externalSignature>>

authorityBlockSignaturePayloadV1(data, nextKey) ==
  blockSignaturePayloadV1(data, nextKey, NoSignature, NoSignature)

sealedBlockSignaturePayload(block) ==
  <<"sealed", block.data, block.nextKey, block.signature>>

externalSignaturePayloadV1(data, previousSignature) ==
  <<"external", data, previousSignature>>

(* Seeded fault: the signature is not verified.                             *)
VersionCheckedOnly(data, previousSignature, external, version) == version = 1

(* verifyExternalSignature: only v1 blocks may carry one.                   *)
verifyExternalSignature(data, previousSignature, external, version) ==
  /\ version = 1
  /\ Verify(external.key, externalSignaturePayloadV1(data, previousSignature),
            external.signature)

-----------------------------------------------------------------------------
(* authorizerFor: verification of a chain of signed blocks and its proof.   *)

NextSecret(key) == [kind |-> "nextSecret", key |-> key, signature |-> NoSignature]
FinalSignature(sig) == [kind |-> "finalSignature", key |-> 0, signature |-> sig]

VerifyAuthority(block, root) ==
  LET message == IF block.version = 0
                 THEN blockSignaturePayloadV0(block.data, block.nextKey)
                 ELSE authorityBlockSignaturePayloadV1(block.data, block.nextKey)
  IN  Verify(root, message, block.signature)

(* One iteration of the loop over appended blocks; "previous" provides the  *)
(* verifier's key and previousSignature.                                    *)
VerifyBlock(block, previous) ==
  LET message == IF block.version = 0
                 THEN blockSignaturePayloadV0(block.data, block.nextKey)
                 ELSE blockSignaturePayloadV1(block.data, block.nextKey,
                        block.external.signature, previous.signature)
  IN  /\ Verify(previous.nextKey, message, block.signature)
      /\ block.external # NoExternal =>
           verifyExternalSignature(block.data, previous.signature,
                                   block.external, block.version)

(* Seeded fault: the proof's secret is not compared with the last next key. *)
SecretNotCompared(proof, lastBlock) ==
  proof.kind = "finalSignature" =>
    Verify(lastBlock.nextKey, sealedBlockSignaturePayload(lastBlock),
           proof.signature)

VerifyProof(proof, lastBlock) ==
  CASE proof.kind = "nextSecret" -> proof.key = lastBlock.nextKey
    [] proof.kind = "finalSignature" ->
         Verify(lastBlock.nextKey, sealedBlockSignaturePayload(lastBlock),
                proof.signature)

authorizerFor(blocks, proof, root) ==
  /\ VerifyAuthority(blocks[1], root)
  /\ \A i \in 2..Len(blocks) : VerifyBlock(blocks[i], blocks[i-1])
  /\ VerifyProof(proof, Last(blocks))

(* RevocationIds: the signatures of the blocks.                             *)
RevocationIds(blocks) == [i \in DOMAIN blocks |-> blocks[i].signature]

-----------------------------------------------------------------------------
(* Operations.  "root" and "parent" are history: the root key that signed   *)
(* the authority block and the token this one was derived from (0: none).   *)

Init ==
  /\ tokens = <<>>
  /\ requests = {}
  /\ contents = {}
  /\ keyCount = 0

CanCreate == Len(tokens) < MaxTokens /\ keyCount < MaxKeys

SignedBlock(data, nextKey, external, version, signature) ==
  [data |-> data, nextKey |-> nextKey, external |-> external,
   version |-> version, signature |-> signature]

(* Seeded fault: the key counter is used before it is increased.            *)
StaleNextKey(root, rootKeyID, data) ==
  /\ CanCreate
  /\ keyCount' = keyCount + 1
  /\ LET signature == Sign(root, authorityBlockSignaturePayloadV1(data, keyCount))
     IN  tokens' = Append(tokens,
           [rootKeyID |-> rootKeyID,
            blocks |-> <<SignedBlock(data, keyCount, NoExternal, 1, signature)>>,
            proof |-> NextSecret(keyCount), root |-> root, parent |-> 0])
  /\ UNCHANGED <<requests, contents>>

(* newBiscuit: a fresh next key, the authority block signed by the root.    *)
newBiscuit(root, rootKeyID, data) ==
  /\ CanCreate
  /\ keyCount' = keyCount + 1
  /\ LET nextKey == keyCount + 1
         signature == Sign(root, authorityBlockSignaturePayloadV1(data, nextKey))
     IN  tokens' = Append(tokens,
           [rootKeyID |-> rootKeyID,
            blocks |-> <<SignedBlock(data, nextKey, NoExternal, 1, signature)>>,
            proof |-> NextSecret(nextKey), root |-> root, parent |-> 0])
  /\ UNCHANGED <<requests, contents>>

(* Seeded faults: the previous signature is always the authority's; and a   *)
(* sealed token is not refused.                                             *)
AppendSignsAuthority(t, data, external) ==
  /\ CanCreate
  /\ Len(tokens[t].blocks) < MaxBlocks
  /\ tokens[t].proof.kind = "nextSecret"
  /\ keyCount' = keyCount + 1
  /\ LET message == blockSignaturePayloadV1(data, keyCount + 1, external.signature,
                      tokens[t].blocks[1].signature)
         signature == Sign(tokens[t].proof.key, message)
     IN  tokens' = Append(tokens,
           [rootKeyID |-> "nil",
            blocks |-> Append(tokens[t].blocks,
                         SignedBlock(data, keyCount + 1, external, 1, signature)),
            proof |-> NextSecret(keyCount + 1),
            root |-> tokens[t].root, parent |-> t])
  /\ UNCHANGED <<requests, contents>>

AppendToSealed(t, data, external) ==
  /\ CanCreate
  /\ Len(tokens[t].blocks) < MaxBlocks
  /\ keyCount' = keyCount + 1
  /\ LET message == blockSignaturePayloadV1(data, keyCount + 1, external.signature,
                      Last(tokens[t].blocks).signature)
         signature == Sign(tokens[t].proof.key, message)
     IN  tokens' = Append(tokens,
           [rootKeyID |-> "nil",
            blocks |-> Append(tokens[t].blocks,
                         SignedBlock(data, keyCount + 1, external, 1, signature)),
            proof |-> NextSecret(keyCount + 1),
            root |-> tokens[t].root, parent |-> t])
  /\ UNCHANGED <<requests, contents>>

(* append: refused when the proof holds no secret.  The new container is    *)
(* made from the authority, the blocks and the new proof only.              *)
append(t, data, external) ==
  /\ CanCreate
  /\ Len(tokens[t].blocks) < MaxBlocks
  /\ tokens[t].proof.kind = "nextSecret"
  /\ keyCount' = keyCount + 1
  /\ LET nextKey == keyCount + 1
         message == blockSignaturePayloadV1(data, nextKey, external.signature,
                      Last(tokens[t].blocks).signature)
         signature == Sign(tokens[t].proof.key, message)
     IN  tokens' = Append(tokens,
           [rootKeyID |-> "nil",
            blocks |-> Append(tokens[t].blocks,
                         SignedBlock(data, nextKey, external, 1, signature)),
            proof |-> NextSecret(nextKey),
            root |-> tokens[t].root, parent |-> t])
  /\ UNCHANGED <<requests, contents>>

AppendBlock(t, data) == append(t, data, NoExternal)

(* ThirdPartyBlockRequest: the last block's signature, unless sealed.       *)
ThirdPartyBlockRequest(t) ==
  /\ tokens[t].proof.kind = "nextSecret"
  /\ requests' = requests \cup {Last(tokens[t].blocks).signature}
  /\ UNCHANGED <<tokens, contents, keyCount>>

(* SignRequest: the third party signs a block for one request.              *)
SignRequest(key, previousSignature, data) ==
  LET signature == Sign(key, externalSignaturePayloadV1(data, previousSignature))
  IN  /\ contents' = contents \cup
           {[data |-> data, external |-> [key |-> key, signature |-> signature]]}
      /\ UNCHANGED <<tokens, requests, keyCount>>

(* AppendThirdPartyBlock: the contents must be signed for the block that is *)
(* last now; contents made for an earlier state of the token are refused.   *)
AppendThirdPartyBlock(t, c) ==
  /\ verifyExternalSignature(c.data, Last(tokens[t].blocks).signature,
                             c.external, 1)
  /\ append(t, c.data, c.external)

(* Seal: the secret is replaced by a signature it makes over the last block.*)
Seal(t) ==
  /\ Len(tokens) < MaxTokens
  /\ tokens[t].proof.kind = "nextSecret"
  /\ tokens' = Append(tokens,
       [rootKeyID |-> "nil",
        blocks |-> tokens[t].blocks,
        proof |-> FinalSignature(Sign(tokens[t].proof.key,
                    sealedBlockSignaturePayload(Last(tokens[t].blocks)))),
        root |-> tokens[t].root, parent |-> t])
  /\ UNCHANGED <<requests, contents, keyCount>>

(* A holder that still makes deprecated v0 signatures (other Biscuit        *)
(* implementations do); this library verifies the result.                   *)
AppendLegacy(t, data) ==
  /\ CanCreate
  /\ Len(tokens[t].blocks) < MaxBlocks
  /\ tokens[t].proof.kind = "nextSecret"
  /\ keyCount' = keyCount + 1
  /\ LET nextKey == keyCount + 1
         signature == Sign(tokens[t].proof.key,
                           blockSignaturePayloadV0(data, nextKey))
     IN  tokens' = Append(tokens,
           [rootKeyID |-> tokens[t].rootKeyID,
            blocks |-> Append(tokens[t].blocks,
                         SignedBlock(data, nextKey, NoExternal, 0, signature)),
            proof |-> NextSecret(nextKey),
            root |-> tokens[t].root, parent |-> t])
  /\ UNCHANGED <<requests, contents>>

Next ==
  \/ \E root \in RootKeys, data \in Data :
        \E id \in {"nil", RootKeyID[root]} : newBiscuit(root, id, data)
  \/ \E t \in DOMAIN tokens :
        \/ \E data \in Data : AppendBlock(t, data) \/ AppendLegacy(t, data)
        \/ ThirdPartyBlockRequest(t)
        \/ \E c \in contents : AppendThirdPartyBlock(t, c)
        \/ Seal(t)
  \/ \E key \in PartyKeys, sig \in requests, data \in Data :
        SignRequest(key, sig, data)

Spec == Init /\ [][Next]_vars

-----------------------------------------------------------------------------
(* Key selection of AuthorizerFor with WithRootPublicKeys(keysByID, nil or  *)
(* a default key): 0 stands for ErrNoPublicKeyAvailable.                    *)
WithRootPublicKeys(id, default) ==
  IF id = "nil" THEN default
  ELSE IF \E k \in RootKeys : RootKeyID[k] = id
       THEN CHOOSE k \in RootKeys : RootKeyID[k] = id
       ELSE 0

AuthorizerFor(t, default) ==
  LET key == WithRootPublicKeys(tokens[t].rootKeyID, default)
  IN  key # 0 /\ authorizerFor(tokens[t].blocks, tokens[t].proof, key)

-----------------------------------------------------------------------------
(* Type invariant.                                                          *)
Key == RootKeys \cup PartyKeys \cup 1..MaxKeys

TypeOK ==
  /\ keyCount \in 0..MaxKeys
  /\ Len(tokens) \in 0..MaxTokens
  /\ \A t \in DOMAIN tokens :
       /\ tokens[t].root \in RootKeys
       /\ tokens[t].parent \in 0..(t - 1)
       /\ tokens[t].rootKeyID \in {"nil", RootKeyID[tokens[t].root]}
       /\ Len(tokens[t].blocks) \in 1..MaxBlocks
       /\ tokens[t].proof.kind \in {"nextSecret", "finalSignature"}
       /\ \A i \in DOMAIN tokens[t].blocks :
            /\ tokens[t].blocks[i].data \in Data
            /\ tokens[t].blocks[i].nextKey \in 1..keyCount
            /\ tokens[t].blocks[i].version \in {0, 1}
            /\ tokens[t].blocks[i].external.key \in PartyKeys \cup {0}

(* Signing and verification agree: whatever the operations that led to a    *)
(* token, AuthorizerFor accepts it under the root key it was issued with    *)
(* and under no other, sealed or not, with v0 and v1 blocks mixed; and a    *)
(* key source that goes by the embedded id never has it refused while the   *)
(* id is there.                                                             *)
TokensVerify ==
  \A t \in DOMAIN tokens :
    /\ \A root \in RootKeys :
         authorizerFor(tokens[t].blocks, tokens[t].proof, root)
           <=> root = tokens[t].root
    /\ \A default \in RootKeys \cup {0} :
         AuthorizerFor(t, default)
           <=> (tokens[t].rootKeyID # "nil" \/ default = tokens[t].root)

(* Chains cut and joined from the blocks and proofs of different tokens.    *)
Beginnings(t) ==
  {SubSeq(tokens[t].blocks, 1, i) : i \in 1..Len(tokens[t].blocks)}
Ends(t) ==
  {SubSeq(tokens[t].blocks, j, Len(tokens[t].blocks)) :
     j \in 2..(Len(tokens[t].blocks) + 1)}

Splices(t, u) == {s \o e : s \in Beginnings(t), e \in Ends(u)}

(* Verification accepts only chains that some sequence of operations made:  *)
(* dropping, exchanging or re-joining blocks of existing tokens, or giving  *)
(* one the proof of another, never verifies unless the result is a token.   *)
OnlyBuiltChainsVerify ==
  \A t \in DOMAIN tokens, u \in DOMAIN tokens, p \in DOMAIN tokens :
    \A chain \in Splices(t, u), root \in RootKeys :
      authorizerFor(chain, tokens[p].proof, root) =>
        \E v \in DOMAIN tokens : /\ tokens[v].blocks = chain
                                 /\ tokens[v].proof = tokens[p].proof

(* A revocation id names one history: two tokens share one only if they     *)
(* share every block up to it, so revoking an id revokes exactly the tokens *)
(* derived from that block; and appending or sealing keeps the parent's ids.*)
RevocationNamesHistory ==
  /\ \A t \in DOMAIN tokens, u \in DOMAIN tokens :
       \A i \in DOMAIN tokens[t].blocks, j \in DOMAIN tokens[u].blocks :
         RevocationIds(tokens[t].blocks)[i] = RevocationIds(tokens[u].blocks)[j]
           => /\ i = j
              /\ SubSeq(tokens[t].blocks, 1, i) = SubSeq(tokens[u].blocks, 1, j)
  /\ \A t \in DOMAIN tokens :
       tokens[t].parent # 0 =>
         IsPrefix(RevocationIds(tokens[tokens[t].parent].blocks),
                  RevocationIds(tokens[t].blocks))

(* A third-party block sits directly after the block its contents were      *)
(* requested for: contents that arrive after the token moved on, or for     *)
(* another token, never enter a chain.                                      *)
ThirdPartyBlocksBound ==
  \A t \in DOMAIN tokens : \A i \in DOMAIN tokens[t].blocks :
    tokens[t].blocks[i].external # NoExternal =>
      /\ i > 1
      /\ tokens[t].blocks[i-1].signature \in requests
      /\ tokens[t].blocks[i].external.signature =
           Sign(tokens[t].blocks[i].external.key,
                externalSignaturePayloadV1(tokens[t].blocks[i].data,
                                           tokens[t].blocks[i-1].signature))

(* A sealed token is final: nothing is derived from it, and its proof       *)
(* reveals no secret with which another holder could extend it.             *)
SealedIsFinal ==
  \A t \in DOMAIN tokens : tokens[t].proof.kind = "finalSignature" =>
    /\ \A u \in DOMAIN tokens : tokens[u].parent # t
    /\ tokens[t].proof.key = 0
=============================================================================
