---------------------------- MODULE TokenProofs ----------------------------
(* Proofs about the life of tokens for any keys, data, bounds and third       *)
(* parties.  Everything rests on two facts that every operation keeps: each   *)
(* block is signed as the verifier expects (SoundToken), and a next key names *)
(* one block and everything before it (Related).                              *)
EXTENDS Token, SequenceTheorems, TLAPS

Listed(s) == \E S : s \in Seq(S)

LEMMA ListedLen ==
  ASSUME NEW s, Listed(s)
  PROVE  Len(s) \in Nat /\ DOMAIN s = 1..Len(s)
<1>1. PICK S : s \in Seq(S)
  BY DEF Listed
<1>2. QED
  BY <1>1, LenProperties

LEMMA Listed2 ==
  ASSUME NEW s, Listed(s), NEW t, Listed(t)
  PROVE  \E S : s \in Seq(S) /\ t \in Seq(S)
<1>1. PICK S : s \in Seq(S)
  BY DEF Listed
<1>2. PICK T : t \in Seq(T)
  BY DEF Listed
<1>3. s \in Seq(S \cup T) /\ t \in Seq(S \cup T)
  BY <1>1, <1>2
<1>4. QED
  BY <1>3

LEMMA ListedAppend ==
  ASSUME NEW s, Listed(s), NEW x
  PROVE  LET a == Append(s, x)
         IN  /\ Listed(a)
             /\ Len(a) = Len(s) + 1
             /\ DOMAIN a = 1..(Len(s) + 1)
             /\ \A i \in 1..Len(s) : a[i] = s[i]
             /\ a[Len(s) + 1] = x
<1>1. PICK S : s \in Seq(S)
  BY DEF Listed
<1>2. s \in Seq(S \cup {x})
  BY <1>1
<1>3. /\ Append(s, x) \in Seq(S \cup {x})
      /\ Len(Append(s, x)) = Len(s) + 1
      /\ \A i \in 1..Len(s) : Append(s, x)[i] = s[i]
      /\ Append(s, x)[Len(s) + 1] = x
  BY <1>2, AppendProperties
<1>4. Listed(Append(s, x))
  BY <1>3 DEF Listed
<1>5. QED
  BY <1>3, <1>4, ListedLen

LEMMA ListedEqual ==
  ASSUME NEW s, Listed(s), NEW t, Listed(t), Len(s) = Len(t),
         \A i \in 1..Len(s) : s[i] = t[i]
  PROVE  s = t
<1>1. PICK S : s \in Seq(S) /\ t \in Seq(S)
  BY Listed2
<1>2. QED
  BY <1>1, SeqEqual

LEMMA ListedPrefix ==
  ASSUME NEW s, Listed(s), NEW n \in 0..Len(s)
  PROVE  LET p == SubSeq(s, 1, n)
         IN  Listed(p) /\ Len(p) = n /\ \A i \in 1..n : p[i] = s[i]
<1>1. PICK S : s \in Seq(S)
  BY DEF Listed
<1>2. Len(s) \in Nat /\ DOMAIN s = 1..Len(s)
  BY ListedLen
<1>3. \A i \in 1..n : s[i] \in S
  BY <1>1, <1>2, ElementOfSeq
<1>4. /\ SubSeq(s, 1, n) \in Seq(S)
      /\ Len(SubSeq(s, 1, n)) = IF 1 <= n THEN n - 1 + 1 ELSE 0
      /\ \A i \in 1..(n - 1 + 1) : SubSeq(s, 1, n)[i] = s[1 + i - 1]
  BY <1>2, <1>3, SubSeqProperties
<1>5. QED
  BY <1>2, <1>4 DEF Listed

LEMMA ListedSplice ==
  ASSUME NEW a, Listed(a), NEW b, Listed(b),
         NEW i \in 1..Len(a), NEW j \in 2..(Len(b) + 1)
  PROVE  LET c == SubSeq(a, 1, i) \o SubSeq(b, j, Len(b))
         IN  /\ Listed(c)
             /\ Len(c) = i + (Len(b) - j + 1)
             /\ \A k \in 1..i : c[k] = a[k]
             /\ \A k \in 1..(Len(b) - j + 1) : c[i + k] = b[j + k - 1]
<1> DEFINE p == SubSeq(a, 1, i)
           q == SubSeq(b, j, Len(b))
<1>1. PICK S : a \in Seq(S) /\ b \in Seq(S)
  BY Listed2
<1>2. Len(a) \in Nat /\ Len(b) \in Nat
  BY ListedLen
<1>3. \A k \in 1..i : a[k] \in S
  BY <1>1, <1>2, ElementOfSeq
<1>4. \A k \in j..Len(b) : b[k] \in S
  BY <1>1, <1>2, ElementOfSeq
<1>5. p \in Seq(S) /\ Len(p) = i /\ \A k \in 1..i : p[k] = a[k]
  <2>1. /\ p \in Seq(S)
        /\ Len(p) = IF 1 <= i THEN i - 1 + 1 ELSE 0
        /\ \A k \in 1..(i - 1 + 1) : p[k] = a[1 + k - 1]
    BY <1>2, <1>3, SubSeqProperties
  <2>2. QED
    BY <1>2, <2>1
<1>6. /\ q \in Seq(S) /\ Len(q) = Len(b) - j + 1
      /\ \A k \in 1..(Len(b) - j + 1) : q[k] = b[j + k - 1]
  <2>1. /\ q \in Seq(S)
        /\ Len(q) = IF j <= Len(b) THEN Len(b) - j + 1 ELSE 0
        /\ \A k \in 1..(Len(b) - j + 1) : q[k] = b[j + k - 1]
    BY <1>2, <1>4, SubSeqProperties
  <2>2. QED
    BY <1>2, <2>1
<1> HIDE DEF p, q
<1>7. /\ p \o q \in Seq(S)
      /\ Len(p \o q) = Len(p) + Len(q)
      /\ \A k \in 1..(Len(p) + Len(q)) :
           (p \o q)[k] = IF k <= Len(p) THEN p[k] ELSE q[k - Len(p)]
  BY <1>5, <1>6, ConcatProperties
<1>8. \A k \in 1..i : (p \o q)[k] = a[k]
  BY <1>2, <1>5, <1>6, <1>7, SMTT(60)
<1>9. ASSUME NEW k \in 1..(Len(b) - j + 1)
      PROVE  (p \o q)[i + k] = b[j + k - 1]
  <2>1. /\ i + k \in 1..(Len(p) + Len(q))
        /\ ~(i + k <= Len(p))
        /\ i + k - Len(p) = k
    BY <1>2, <1>5, <1>6
  <2>2. (p \o q)[i + k] = q[i + k - Len(p)]
    BY <1>7, <2>1
  <2>3. QED
    BY <1>6, <2>1, <2>2
<1>10. QED
  BY <1>5, <1>6, <1>7, <1>8, <1>9 DEF p, q, Listed

----------------------------------------------------------------------------
(* The inductive invariant.  A signature is a pair of a key and a message;    *)
(* v0 and v1 messages both hold the next key in third place.                  *)
BlockMessage(blocks, i) ==
  IF blocks[i].version = 0
  THEN blockSignaturePayloadV0(blocks[i].data, blocks[i].nextKey)
  ELSE blockSignaturePayloadV1(blocks[i].data, blocks[i].nextKey,
         blocks[i].external.signature, blocks[i-1].signature)

BlockSigned(blocks, i, root) ==
  IF i = 1
  THEN /\ blocks[i].version = 1
       /\ blocks[i].external = NoExternal
       /\ blocks[i].signature =
            Sign(root, authorityBlockSignaturePayloadV1(blocks[i].data,
                                                        blocks[i].nextKey))
  ELSE blocks[i].signature = Sign(blocks[i-1].nextKey, BlockMessage(blocks, i))

(* R: the requests made so far.                                               *)
ExternallySigned(blocks, i, R) ==
  blocks[i].external # NoExternal =>
    /\ i > 1
    /\ blocks[i].version = 1
    /\ blocks[i].external.key \in PartyKeys
    /\ blocks[i-1].signature \in R
    /\ blocks[i].external.signature =
         Sign(blocks[i].external.key,
              externalSignaturePayloadV1(blocks[i].data, blocks[i-1].signature))

SoundBlocks(blocks, root, n, R) ==
  /\ Listed(blocks)
  /\ Len(blocks) \in 1..MaxBlocks
  /\ \A i \in 1..Len(blocks) :
       /\ blocks[i].data \in Data
       /\ blocks[i].nextKey \in 1..n
       /\ blocks[i].version \in {0, 1}
       /\ BlockSigned(blocks, i, root)
       /\ ExternallySigned(blocks, i, R)

SoundProof(proof, last) ==
  \/ proof = NextSecret(last.nextKey)
  \/ proof = FinalSignature(Sign(last.nextKey, sealedBlockSignaturePayload(last)))

(* What holds of each token, when n keys were generated.                      *)
SoundToken(token, n, R) ==
  /\ token.root \in RootKeys
  /\ token.rootKeyID \in {"nil", RootKeyID[token.root]}
  /\ SoundBlocks(token.blocks, token.root, n, R)
  /\ SoundProof(token.proof, Last(token.blocks))

(* A next key names one place and all that was before it.                     *)
Related(a, b) ==
  \A i \in 1..Len(a), j \in 1..Len(b) :
    a[i].nextKey = b[j].nextKey => i = j /\ \A k \in 1..i : a[k] = b[k]

Begins(a, b) == Len(a) <= Len(b) /\ \A i \in 1..Len(a) : a[i] = b[i]

Derived(t) ==
  /\ tokens[t].parent \in 0..(t - 1)
  /\ tokens[t].parent # 0 =>
       /\ tokens[tokens[t].parent].proof.kind = "nextSecret"
       /\ Begins(tokens[tokens[t].parent].blocks, tokens[t].blocks)

SoundContent(c, R) ==
  \E key \in PartyKeys, sig \in R, data \in Data :
    c = [data |-> data,
         external |-> [key |-> key,
                       signature |-> Sign(key, externalSignaturePayloadV1(data, sig))]]

Counted ==
  /\ Listed(tokens)
  /\ Len(tokens) \in 0..MaxTokens
  /\ keyCount \in 0..MaxKeys

TokenInv ==
  /\ Counted
  /\ \A t \in 1..Len(tokens) : SoundToken(tokens[t], keyCount, requests)
  /\ \A t \in 1..Len(tokens) : Derived(t)
  /\ \A t, u \in 1..Len(tokens) : Related(tokens[t].blocks, tokens[u].blocks)
  /\ \A c \in contents : SoundContent(c, requests)

----------------------------------------------------------------------------
(* A block's signature tells its signer and its next key.                     *)
LEMMA SignatureNames ==
  ASSUME NEW root, NEW n, NEW R, NEW blocks, SoundBlocks(blocks, root, n, R),
         NEW i \in 1..Len(blocks)
  PROVE  /\ blocks[i].signature[2][3] = blocks[i].nextKey
         /\ i = 1 => blocks[i].signature[1] = root
         /\ i # 1 => blocks[i].signature[1] = blocks[i-1].nextKey
<1>1. BlockSigned(blocks, i, root)
  BY DEF SoundBlocks
<1>2. CASE i = 1
  BY <1>1, <1>2 DEF BlockSigned, Sign, authorityBlockSignaturePayloadV1,
     blockSignaturePayloadV1
<1>3. CASE i # 1
  <2>1. blocks[i].signature = <<blocks[i-1].nextKey, BlockMessage(blocks, i)>>
    BY <1>1, <1>3 DEF BlockSigned, Sign
  <2>2. BlockMessage(blocks, i)[3] = blocks[i].nextKey
    BY DEF BlockMessage, blockSignaturePayloadV0, blockSignaturePayloadV1
  <2>3. QED
    BY <1>3, <2>1, <2>2
<1>4. QED
  BY <1>2, <1>3

LEMMA SoundStays ==
  ASSUME NEW root, NEW n \in Nat, NEW R, NEW blocks,
         SoundBlocks(blocks, root, n, R),
         NEW m \in Nat, n <= m, NEW S, R \subseteq S
  PROVE  SoundBlocks(blocks, root, m, S)
BY DEF SoundBlocks, ExternallySigned

LEMMA SoundAppend ==
  ASSUME NEW root, NEW n \in Nat, NEW R, NEW blocks,
         SoundBlocks(blocks, root, n, R), Len(blocks) < MaxBlocks,
         NEW x, x.data \in Data, x.nextKey = n + 1, x.version \in {0, 1},
         BlockSigned(Append(blocks, x), Len(blocks) + 1, root),
         ExternallySigned(Append(blocks, x), Len(blocks) + 1, R)
  PROVE  SoundBlocks(Append(blocks, x), root, n + 1, R)
<1> DEFINE a == Append(blocks, x)
           l == Len(blocks)
<1>1. /\ Listed(a) /\ Len(a) = l + 1
      /\ \A i \in 1..l : a[i] = blocks[i]
      /\ a[l + 1] = x
      /\ l \in 1..MaxBlocks /\ l < MaxBlocks
      /\ MaxBlocks \in Nat
  BY ListedAppend, TokenAssumption DEF SoundBlocks
<1>2. \A i \in 1..l : /\ blocks[i].data \in Data
                      /\ blocks[i].nextKey \in 1..n
                      /\ blocks[i].version \in {0, 1}
                      /\ BlockSigned(blocks, i, root)
                      /\ ExternallySigned(blocks, i, R)
  BY DEF SoundBlocks
<1>3. BlockSigned(a, l + 1, root) /\ ExternallySigned(a, l + 1, R)
  OBVIOUS
<1> HIDE DEF a, l
<1>4. ASSUME NEW i \in 1..l
      PROVE  BlockSigned(a, i, root) /\ ExternallySigned(a, i, R)
  <2>1. a[i] = blocks[i] /\ (i # 1 => a[i-1] = blocks[i-1])
    BY <1>1
  <2>2. BlockSigned(a, i, root)
    BY <1>2, <2>1 DEF BlockSigned, BlockMessage
  <2>3. ExternallySigned(a, i, R)
    <3>1. CASE i = 1
      BY <1>2, <2>1, <3>1 DEF ExternallySigned
    <3>2. CASE i # 1
      BY <1>2, <2>1, <3>2 DEF ExternallySigned
    <3>3. QED
      BY <3>1, <3>2
  <2>4. QED
    BY <2>2, <2>3
<1>5. ASSUME NEW i \in 1..(l + 1)
      PROVE  /\ a[i].data \in Data
             /\ a[i].nextKey \in 1..(n + 1)
             /\ a[i].version \in {0, 1}
             /\ BlockSigned(a, i, root)
             /\ ExternallySigned(a, i, R)
  <2>1. CASE i \in 1..l
    BY <1>1, <1>2, <1>4, <2>1
  <2>2. CASE i = l + 1
    BY <1>1, <1>3, <2>2
  <2>3. QED
    BY <1>1, <2>1, <2>2
<1>6. Len(a) \in 1..MaxBlocks
  BY <1>1
<1>7. SoundBlocks(a, root, n + 1, R)
  BY <1>1, <1>5, <1>6 DEF SoundBlocks
<1>8. QED
  BY <1>7 DEF a

(* Blocks that continue others with at most one block of a new next key stay  *)
(* related to whatever those others were related to.                          *)
Grown(base, blocks, n) ==
  /\ Begins(base, blocks)
  /\ Len(blocks) <= Len(base) + 1
  /\ Len(blocks) = Len(base) + 1 => blocks[Len(blocks)].nextKey = n + 1

LEMMA GrownRelated ==
  ASSUME NEW n \in Nat, NEW base, NEW blocks, NEW c,
         Len(base) \in Nat, Len(blocks) \in Nat, Len(c) \in Nat,
         Grown(base, blocks, n), Related(base, c),
         \A i \in 1..Len(c) : c[i].nextKey \in 1..n
  PROVE  Related(blocks, c) /\ Related(c, blocks)
<1> SUFFICES ASSUME NEW i \in 1..Len(blocks), NEW j \in 1..Len(c),
                    blocks[i].nextKey = c[j].nextKey
             PROVE  i = j /\ \A k \in 1..i : blocks[k] = c[k]
  BY DEF Related
<1>1. c[j].nextKey \in 1..n
  OBVIOUS
<1>2. i # Len(base) + 1
  BY <1>1 DEF Grown
<1>3. i \in 1..Len(base)
  BY <1>2 DEF Grown
<1>4. \A k \in 1..i : blocks[k] = base[k]
  BY <1>3 DEF Grown, Begins
<1>5. i = j /\ \A k \in 1..i : base[k] = c[k]
  BY <1>3, <1>4 DEF Related
<1>6. QED
  BY <1>4, <1>5

LEMMA GrownSelf ==
  ASSUME NEW n \in Nat, NEW base, NEW blocks,
         Len(base) \in Nat, Len(blocks) \in Nat,
         Grown(base, blocks, n), Related(base, base),
         \A i \in 1..Len(base) : base[i].nextKey \in 1..n
  PROVE  Related(blocks, blocks)
<1> SUFFICES ASSUME NEW i \in 1..Len(blocks), NEW j \in 1..Len(blocks),
                    blocks[i].nextKey = blocks[j].nextKey
             PROVE  i = j
  BY DEF Related
<1>1. \A k \in 1..Len(base) : blocks[k] = base[k] /\ blocks[k].nextKey \in 1..n
  BY DEF Grown, Begins
<1>2. /\ i \in 1..Len(base) \/ (i = Len(base) + 1 /\ blocks[i].nextKey = n + 1)
      /\ j \in 1..Len(base) \/ (j = Len(base) + 1 /\ blocks[j].nextKey = n + 1)
  BY DEF Grown
<1>3. QED
  BY <1>1, <1>2 DEF Related

----------------------------------------------------------------------------
(* A step that adds a token keeps the invariant if the token is sound and     *)
(* grown from nothing or from a token that is not sealed.                     *)
LEMMA CreatedInv ==
  ASSUME TokenInv, Len(tokens) < MaxTokens,
         NEW new, tokens' = Append(tokens, new),
         keyCount' \in {keyCount, keyCount + 1}, keyCount' \in 0..MaxKeys,
         requests' = requests, contents' = contents,
         SoundToken(new, keyCount', requests),
         NEW base, Len(base) \in Nat, Grown(base, new.blocks, keyCount),
         \/ base = <<>> /\ new.parent = 0
         \/ /\ new.parent \in 1..Len(tokens)
            /\ base = tokens[new.parent].blocks
            /\ tokens[new.parent].proof.kind = "nextSecret"
  PROVE  TokenInv'
<1> DEFINE l == Len(tokens)
<1>1. /\ Listed(tokens) /\ l \in 0..MaxTokens /\ keyCount \in 0..MaxKeys
      /\ MaxTokens \in Nat /\ MaxKeys \in Nat
  BY TokenAssumption DEF TokenInv, Counted
<1>2. /\ Listed(tokens') /\ Len(tokens') = l + 1
      /\ \A t \in 1..l : tokens'[t] = tokens[t]
      /\ tokens'[l + 1] = new
  BY <1>1, ListedAppend
<1> HIDE DEF l
<1>3. Counted'
  BY <1>1, <1>2 DEF Counted, l
<1>4. \A t \in 1..l : SoundToken(tokens[t], keyCount, requests)
  BY DEF TokenInv, l
<1>5. \A t \in 1..l : SoundToken(tokens[t], keyCount', requests)
  BY <1>1, <1>4, SoundStays DEF SoundToken
<1>6. \A t \in 1..(l + 1) : SoundToken(tokens'[t], keyCount', requests')
  <2>1. \A t \in 1..(l + 1) : t \in 1..l \/ t = l + 1
    BY <1>1
  <2>2. QED
    BY <1>2, <1>5, <2>1
<1>7. \A t \in 1..l : /\ Len(tokens[t].blocks) \in Nat
                      /\ \A i \in 1..Len(tokens[t].blocks) :
                           tokens[t].blocks[i].nextKey \in 1..keyCount
  BY <1>4, ListedLen DEF SoundToken, SoundBlocks
<1>8. Len(new.blocks) \in Nat
  BY ListedLen DEF SoundToken, SoundBlocks
<1>9. /\ \A t \in 1..l : Related(base, tokens[t].blocks)
      /\ Related(base, base)
      /\ \A i \in 1..Len(base) : base[i].nextKey \in 1..keyCount
  <2>1. CASE base = <<>>
    BY <2>1 DEF Related
  <2>2. CASE \E t \in 1..l : base = tokens[t].blocks
    BY <2>2, <1>7 DEF TokenInv, l
  <2>3. QED
    BY <2>1, <2>2 DEF l
<1>10. ASSUME NEW t \in 1..l
       PROVE  /\ Related(new.blocks, tokens[t].blocks)
              /\ Related(tokens[t].blocks, new.blocks)
  <2>1. keyCount \in Nat
    BY <1>1
  <2>2. /\ Len(tokens[t].blocks) \in Nat /\ Related(base, tokens[t].blocks)
        /\ \A i \in 1..Len(tokens[t].blocks) :
             tokens[t].blocks[i].nextKey \in 1..keyCount
    BY <1>7, <1>9
  <2>3. QED
    BY <1>8, <2>1, <2>2, GrownRelated
<1>11. Related(new.blocks, new.blocks)
  BY <1>1, <1>8, <1>9, GrownSelf
<1>12. \A t, u \in 1..(l + 1) : Related(tokens'[t].blocks, tokens'[u].blocks)
  <2>1. \A t \in 1..(l + 1) : t \in 1..l \/ t = l + 1
    BY <1>1
  <2>2. \A t, u \in 1..l : Related(tokens[t].blocks, tokens[u].blocks)
    BY DEF TokenInv, l
  <2>3. QED
    BY <1>2, <1>10, <1>11, <2>1, <2>2
<1>13. ASSUME NEW t \in 1..(l + 1)
       PROVE  Derived(t)'
  <2>1. CASE t \in 1..l
    <3>1. Derived(t)
      BY <2>1 DEF TokenInv, l
    <3>2. tokens[t].parent # 0 => tokens[t].parent \in 1..l
      BY <1>1, <2>1, <3>1, SMTT(60) DEF Derived
    <3>3. tokens'[t] = tokens[t]
      BY <1>2, <2>1
    <3>4. tokens[t].parent # 0 => tokens'[tokens[t].parent] = tokens[tokens[t].parent]
      BY <1>2, <3>2
    <3>5. QED
      BY <3>1, <3>3, <3>4 DEF Derived
  <2>2. CASE t = l + 1
    <3>1. new.parent \in 0..l
      BY <1>1 DEF l
    <3>2. new.parent # 0 => /\ tokens'[new.parent].proof.kind = "nextSecret"
                            /\ tokens'[new.parent].blocks = base
      BY <1>2 DEF l
    <3>3. tokens'[t] = new /\ Begins(base, new.blocks)
      BY <1>2, <2>2 DEF Grown
    <3>4. l = t - 1
      BY <1>1, <2>2
    <3>5. QED
      BY <3>1, <3>2, <3>3, <3>4 DEF Derived
  <2>3. QED
    BY <1>1, <2>1, <2>2
<1>14. (\A c \in contents : SoundContent(c, requests))'
  BY DEF TokenInv
<1>15. QED
  BY <1>2, <1>3, <1>6, <1>12, <1>13, <1>14 DEF TokenInv

LEMMA newBiscuitInv ==
  ASSUME TokenInv, NEW root \in RootKeys, NEW data \in Data,
         NEW id \in {"nil", RootKeyID[root]}, newBiscuit(root, id, data)
  PROVE  TokenInv'
<1> DEFINE k == keyCount + 1
           b == SignedBlock(data, k, NoExternal, 1,
                  Sign(root, authorityBlockSignaturePayloadV1(data, k)))
           new == [rootKeyID |-> id, blocks |-> <<b>>, proof |-> NextSecret(k),
                   root |-> root, parent |-> 0]
<1>1. /\ Len(tokens) < MaxTokens /\ keyCount < MaxKeys /\ keyCount' = k
      /\ tokens' = Append(tokens, new)
      /\ requests' = requests /\ contents' = contents
  BY DEF newBiscuit, CanCreate
<1>2. /\ keyCount \in 0..MaxKeys /\ MaxKeys \in Nat
      /\ k \in 1..MaxKeys /\ k \in 1..k
  BY <1>1, TokenAssumption DEF TokenInv, Counted
<1>3. /\ b.data = data /\ b.nextKey = k /\ b.version = 1
      /\ b.external = NoExternal
      /\ b.signature = Sign(root, authorityBlockSignaturePayloadV1(data, k))
  BY DEF SignedBlock
<1>4. /\ new.root = root /\ new.rootKeyID = id /\ new.blocks = <<b>>
      /\ new.proof = NextSecret(k) /\ new.parent = 0
  OBVIOUS
<1> HIDE DEF b, new, k
<1>5. Listed(<<b>>) /\ Len(<<b>>) = 1 /\ <<b>>[1] = b /\ Last(<<b>>) = b
  <2>1. <<b>> \in Seq({b})
    OBVIOUS
  <2>2. QED
    BY <2>1 DEF Listed, Last
<1>6. 1 \in 1..MaxBlocks
  BY TokenAssumption
<1>7. SoundBlocks(<<b>>, root, k, requests)
  BY <1>2, <1>3, <1>5, <1>6 DEF SoundBlocks, BlockSigned, ExternallySigned
<1>8. SoundToken(new, k, requests)
  BY <1>3, <1>4, <1>5, <1>7 DEF SoundToken, SoundProof
<1>9. Grown(<<>>, new.blocks, keyCount)
  BY <1>3, <1>4, <1>5 DEF Grown, Begins, k
<1>10. QED
  BY <1>1, <1>2, <1>4, <1>8, <1>9, CreatedInv DEF k

(* A block signed with the secret of an unsealed token.                       *)
LEMMA ExtendedInv ==
  ASSUME TokenInv, NEW t \in DOMAIN tokens, NEW data \in Data,
         NEW id \in {"nil", RootKeyID[tokens[t].root]},
         NEW external, NEW version \in {0, 1}, NEW signature,
         CanCreate, Len(tokens[t].blocks) < MaxBlocks,
         tokens[t].proof.kind = "nextSecret", keyCount' = keyCount + 1,
         signature = Sign(tokens[t].proof.key,
           IF version = 0
           THEN blockSignaturePayloadV0(data, keyCount + 1)
           ELSE blockSignaturePayloadV1(data, keyCount + 1, external.signature,
                  Last(tokens[t].blocks).signature)),
         external # NoExternal =>
           /\ version = 1
           /\ external.key \in PartyKeys
           /\ Last(tokens[t].blocks).signature \in requests
           /\ verifyExternalSignature(data, Last(tokens[t].blocks).signature,
                                      external, 1),
         tokens' = Append(tokens,
           [rootKeyID |-> id,
            blocks |-> Append(tokens[t].blocks,
              SignedBlock(data, keyCount + 1, external, version, signature)),
            proof |-> NextSecret(keyCount + 1),
            root |-> tokens[t].root, parent |-> t]),
         requests' = requests, contents' = contents
  PROVE  TokenInv'
<1> DEFINE k == keyCount + 1
           blocks == tokens[t].blocks
           n == Len(blocks)
           x == SignedBlock(data, k, external, version, signature)
           a == Append(blocks, x)
           new == [rootKeyID |-> id, blocks |-> a, proof |-> NextSecret(k),
                   root |-> tokens[t].root, parent |-> t]
<1>1. /\ Len(tokens) < MaxTokens /\ keyCount < MaxKeys /\ keyCount' = k
      /\ tokens' = Append(tokens, new)
  BY DEF CanCreate
<1>2. /\ keyCount \in 0..MaxKeys /\ MaxKeys \in Nat
      /\ keyCount \in Nat /\ k \in 0..MaxKeys
  BY <1>1, TokenAssumption DEF TokenInv, Counted
<1>3. /\ x.data = data /\ x.nextKey = k /\ x.version = version
      /\ x.external = external /\ x.signature = signature
  BY DEF SignedBlock
<1>4. /\ new.root = tokens[t].root /\ new.rootKeyID = id /\ new.blocks = a
      /\ new.proof = NextSecret(k) /\ new.parent = t
  OBVIOUS
<1>5. t \in 1..Len(tokens)
  BY ListedLen DEF TokenInv, Counted
<1>6. SoundToken(tokens[t], keyCount, requests)
  BY <1>5 DEF TokenInv
<1>7. /\ SoundBlocks(blocks, tokens[t].root, keyCount, requests)
      /\ SoundProof(tokens[t].proof, Last(blocks))
      /\ tokens[t].root \in RootKeys
  BY <1>6 DEF SoundToken
<1>8. Listed(blocks) /\ n \in Nat /\ n >= 1 /\ n < MaxBlocks
  BY <1>7, ListedLen, TokenAssumption DEF SoundBlocks
<1>9. tokens[t].proof.key = blocks[n].nextKey
  BY <1>7 DEF SoundProof, NextSecret, FinalSignature, Last
<1> HIDE DEF x, new, k
<1>10. /\ Listed(a) /\ Len(a) = n + 1 /\ a[n + 1] = x /\ a[n] = blocks[n]
       /\ \A i \in 1..n : a[i] = blocks[i]
  BY <1>8, ListedAppend
<1> HIDE DEF a
<1>11. Last(a) = x
  BY <1>10 DEF Last
<1>12. BlockSigned(a, n + 1, tokens[t].root)
  <2>1. signature = Sign(a[n].nextKey,
          IF version = 0
          THEN blockSignaturePayloadV0(data, k)
          ELSE blockSignaturePayloadV1(data, k, external.signature, a[n].signature))
    BY <1>9, <1>10 DEF Last, k
  <2>2. n + 1 # 1 /\ (n + 1) - 1 = n
    BY <1>8
  <2>3. QED
    BY <1>3, <1>10, <2>1, <2>2 DEF BlockSigned, BlockMessage
<1>13. ExternallySigned(a, n + 1, requests)
  <2>1. n + 1 > 1 /\ (n + 1) - 1 = n
    BY <1>8
  <2>2. external # NoExternal =>
          /\ version = 1 /\ external.key \in PartyKeys
          /\ a[n].signature \in requests
          /\ external.signature =
               Sign(external.key, externalSignaturePayloadV1(data, a[n].signature))
    BY <1>10 DEF Last, verifyExternalSignature, Verify, Sign
  <2>3. QED
    BY <1>3, <1>10, <2>1, <2>2 DEF ExternallySigned
<1>14. SoundBlocks(a, tokens[t].root, k, requests)
  BY <1>2, <1>3, <1>7, <1>8, <1>12, <1>13, SoundAppend DEF a, k
<1>15. SoundToken(new, k, requests)
  BY <1>3, <1>4, <1>7, <1>11, <1>14 DEF SoundToken, SoundProof
<1>16. Grown(blocks, new.blocks, keyCount)
  BY <1>3, <1>4, <1>8, <1>10 DEF Grown, Begins, k
<1>17. QED
  BY <1>1, <1>2, <1>4, <1>5, <1>8, <1>15, <1>16, CreatedInv DEF k

(* append, for the two kinds of external signature it is called with.         *)
LEMMA appendInv ==
  ASSUME TokenInv, NEW t \in DOMAIN tokens, NEW data \in Data, NEW external,
         append(t, data, external),
         external # NoExternal =>
           /\ external.key \in PartyKeys
           /\ Last(tokens[t].blocks).signature \in requests
           /\ verifyExternalSignature(data, Last(tokens[t].blocks).signature,
                                      external, 1)
  PROVE  TokenInv'
<1> DEFINE signature == Sign(tokens[t].proof.key,
             blockSignaturePayloadV1(data, keyCount + 1, external.signature,
               Last(tokens[t].blocks).signature))
<1>1. /\ CanCreate /\ Len(tokens[t].blocks) < MaxBlocks
      /\ tokens[t].proof.kind = "nextSecret" /\ keyCount' = keyCount + 1
      /\ tokens' = Append(tokens,
           [rootKeyID |-> "nil",
            blocks |-> Append(tokens[t].blocks,
              SignedBlock(data, keyCount + 1, external, 1, signature)),
            proof |-> NextSecret(keyCount + 1),
            root |-> tokens[t].root, parent |-> t])
      /\ requests' = requests /\ contents' = contents
  BY DEF append
<1>2. signature = Sign(tokens[t].proof.key,
        IF 1 = 0
        THEN blockSignaturePayloadV0(data, keyCount + 1)
        ELSE blockSignaturePayloadV1(data, keyCount + 1, external.signature,
               Last(tokens[t].blocks).signature))
  OBVIOUS
<1> HIDE DEF signature
<1>3. QED
  BY <1>1, <1>2, ExtendedInv, ZenonT(60)

LEMMA AppendThirdPartyBlockInv ==
  ASSUME TokenInv, NEW t \in DOMAIN tokens, NEW c \in contents,
         AppendThirdPartyBlock(t, c)
  PROVE  TokenInv'
<1>1. PICK key \in PartyKeys, sig \in requests, data \in Data :
        c = [data |-> data,
             external |-> [key |-> key,
               signature |-> Sign(key, externalSignaturePayloadV1(data, sig))]]
  BY DEF TokenInv, SoundContent
<1>2. /\ c.data = data /\ c.external.key = key
      /\ c.external.signature = Sign(key, externalSignaturePayloadV1(data, sig))
  BY <1>1
<1>3. /\ verifyExternalSignature(c.data, Last(tokens[t].blocks).signature,
                                 c.external, 1)
      /\ append(t, c.data, c.external)
  BY DEF AppendThirdPartyBlock
<1>4. Last(tokens[t].blocks).signature = sig
  BY <1>2, <1>3 DEF verifyExternalSignature, Verify, Sign, externalSignaturePayloadV1
<1>5. QED
  BY <1>2, <1>3, <1>4, appendInv

LEMMA AppendLegacyInv ==
  ASSUME TokenInv, NEW t \in DOMAIN tokens, NEW data \in Data,
         AppendLegacy(t, data)
  PROVE  TokenInv'
<1> DEFINE signature == Sign(tokens[t].proof.key,
                             blockSignaturePayloadV0(data, keyCount + 1))
<1>1. tokens[t].rootKeyID \in {"nil", RootKeyID[tokens[t].root]}
  BY ListedLen DEF TokenInv, Counted, SoundToken
<1>2. /\ CanCreate /\ Len(tokens[t].blocks) < MaxBlocks
      /\ tokens[t].proof.kind = "nextSecret" /\ keyCount' = keyCount + 1
      /\ tokens' = Append(tokens,
           [rootKeyID |-> tokens[t].rootKeyID,
            blocks |-> Append(tokens[t].blocks,
              SignedBlock(data, keyCount + 1, NoExternal, 0, signature)),
            proof |-> NextSecret(keyCount + 1),
            root |-> tokens[t].root, parent |-> t])
      /\ requests' = requests /\ contents' = contents
  BY DEF AppendLegacy
<1>3. signature = Sign(tokens[t].proof.key,
        IF 0 = 0
        THEN blockSignaturePayloadV0(data, keyCount + 1)
        ELSE blockSignaturePayloadV1(data, keyCount + 1, NoExternal.signature,
               Last(tokens[t].blocks).signature))
  OBVIOUS
<1> HIDE DEF signature
<1>4. QED
  BY <1>1, <1>2, <1>3, ExtendedInv

LEMMA ThirdPartyBlockRequestInv ==
  ASSUME TokenInv, NEW t \in DOMAIN tokens, ThirdPartyBlockRequest(t)
  PROVE  TokenInv'
<1>1. /\ tokens' = tokens /\ contents' = contents /\ keyCount' = keyCount
      /\ requests \subseteq requests'
  BY DEF ThirdPartyBlockRequest
<1>2. keyCount \in Nat
  BY TokenAssumption DEF TokenInv, Counted
<1>3. \A u \in 1..Len(tokens) : SoundToken(tokens[u], keyCount, requests')
  BY <1>1, <1>2, SoundStays DEF TokenInv, SoundToken
<1>4. \A c \in contents : SoundContent(c, requests')
  BY <1>1 DEF TokenInv, SoundContent
<1>5. Counted' /\ \A u \in 1..Len(tokens) : Derived(u)'
  BY <1>1 DEF TokenInv, Counted, Derived
<1>6. QED
  BY <1>1, <1>3, <1>4, <1>5 DEF TokenInv

LEMMA SignRequestInv ==
  ASSUME TokenInv, NEW key \in PartyKeys, NEW sig \in requests, NEW data \in Data,
         SignRequest(key, sig, data)
  PROVE  TokenInv'
<1>1. /\ tokens' = tokens /\ requests' = requests /\ keyCount' = keyCount
      /\ contents' = contents \cup
           {[data |-> data,
             external |-> [key |-> key,
               signature |-> Sign(key, externalSignaturePayloadV1(data, sig))]]}
  BY DEF SignRequest
<1>2. \A c \in contents' : SoundContent(c, requests)
  BY <1>1 DEF TokenInv, SoundContent
<1>3. Counted' /\ \A u \in 1..Len(tokens) : Derived(u)'
  BY <1>1 DEF TokenInv, Counted, Derived
<1>4. QED
  BY <1>1, <1>2, <1>3 DEF TokenInv

LEMMA SealInv ==
  ASSUME TokenInv, NEW t \in DOMAIN tokens, Seal(t)
  PROVE  TokenInv'
<1> DEFINE blocks == tokens[t].blocks
           proof == FinalSignature(Sign(tokens[t].proof.key,
                      sealedBlockSignaturePayload(Last(blocks))))
           new == [rootKeyID |-> "nil", blocks |-> blocks, proof |-> proof,
                   root |-> tokens[t].root, parent |-> t]
<1>1. /\ Len(tokens) < MaxTokens /\ tokens[t].proof.kind = "nextSecret"
      /\ tokens' = Append(tokens, new)
      /\ requests' = requests /\ contents' = contents /\ keyCount' = keyCount
  BY DEF Seal
<1>2. /\ new.root = tokens[t].root /\ new.rootKeyID = "nil"
      /\ new.blocks = blocks /\ new.proof = proof /\ new.parent = t
  OBVIOUS
<1>3. t \in 1..Len(tokens) /\ keyCount \in 0..MaxKeys
  BY ListedLen DEF TokenInv, Counted
<1>4. SoundToken(tokens[t], keyCount, requests)
  BY <1>3 DEF TokenInv
<1>5. tokens[t].proof.key = Last(blocks).nextKey
  BY <1>1, <1>4 DEF SoundToken, SoundProof, NextSecret, FinalSignature
<1>6. SoundProof(proof, Last(blocks))
  BY <1>5 DEF SoundProof
<1> HIDE DEF new, proof
<1>7. SoundToken(new, keyCount, requests)
  BY <1>2, <1>4, <1>6 DEF SoundToken
<1>8. Len(blocks) \in Nat
  BY <1>4, ListedLen DEF SoundToken, SoundBlocks
<1>9. Grown(blocks, new.blocks, keyCount)
  BY <1>2, <1>8 DEF Grown, Begins
<1>10. QED
  BY <1>1, <1>2, <1>3, <1>7, <1>8, <1>9, CreatedInv

----------------------------------------------------------------------------
(* The invariant holds in every state.                                        *)
LEMMA TokenInvInit == Init => TokenInv
<1> SUFFICES ASSUME Init PROVE TokenInv
  OBVIOUS
<1>1. tokens = <<>> /\ contents = {} /\ keyCount = 0
  BY DEF Init
<1>2. Listed(<<>>) /\ Len(<<>>) = 0
  BY EmptySeq DEF Listed
<1>3. QED
  BY <1>1, <1>2, TokenAssumption DEF TokenInv, Counted

LEMMA TokenInvNext == TokenInv /\ [Next]_vars => TokenInv'
<1> SUFFICES ASSUME TokenInv, [Next]_vars PROVE TokenInv'
  OBVIOUS
<1>1. ASSUME NEW root \in RootKeys, NEW data \in Data,
             NEW id \in {"nil", RootKeyID[root]}, newBiscuit(root, id, data)
      PROVE  TokenInv'
  BY <1>1, newBiscuitInv
<1>2. ASSUME NEW t \in DOMAIN tokens, NEW data \in Data, AppendBlock(t, data)
      PROVE  TokenInv'
  BY <1>2, appendInv DEF AppendBlock
<1>3. ASSUME NEW t \in DOMAIN tokens, NEW data \in Data, AppendLegacy(t, data)
      PROVE  TokenInv'
  BY <1>3, AppendLegacyInv
<1>4. ASSUME NEW t \in DOMAIN tokens, ThirdPartyBlockRequest(t)
      PROVE  TokenInv'
  BY <1>4, ThirdPartyBlockRequestInv
<1>5. ASSUME NEW t \in DOMAIN tokens, NEW c \in contents,
             AppendThirdPartyBlock(t, c)
      PROVE  TokenInv'
  BY <1>5, AppendThirdPartyBlockInv
<1>6. ASSUME NEW t \in DOMAIN tokens, Seal(t)
      PROVE  TokenInv'
  BY <1>6, SealInv
<1>7. ASSUME NEW key \in PartyKeys, NEW sig \in requests, NEW data \in Data,
             SignRequest(key, sig, data)
      PROVE  TokenInv'
  BY <1>7, SignRequestInv
<1>8. CASE UNCHANGED vars
  <2>1. /\ tokens' = tokens /\ requests' = requests
        /\ contents' = contents /\ keyCount' = keyCount
    BY <1>8 DEF vars
  <2>2. Counted' /\ \A u \in 1..Len(tokens) : Derived(u)'
    BY <2>1 DEF TokenInv, Counted, Derived
  <2>3. QED
    BY <2>1, <2>2 DEF TokenInv
<1>9. QED
  BY <1>1, <1>2, <1>3, <1>4, <1>5, <1>6, <1>7, <1>8 DEF Next

(* Every token in existence was signed as the verifier expects, and a next    *)
(* key belongs to one block with one history.                                 *)
THEOREM ChainsAreSound == Spec => []TokenInv
BY TokenInvInit, TokenInvNext, PTL DEF Spec

(* Types of tokens, their blocks and proofs.                                  *)
THEOREM TypeCorrect == Spec => []TypeOK
<1>1. TokenInv => TypeOK
  <2> SUFFICES ASSUME TokenInv PROVE TypeOK
    OBVIOUS
  <2>1. DOMAIN tokens = 1..Len(tokens) /\ Len(tokens) \in 0..MaxTokens
        /\ keyCount \in 0..MaxKeys
    BY ListedLen DEF TokenInv, Counted
  <2>2. ASSUME NEW t \in DOMAIN tokens
        PROVE  /\ tokens[t].root \in RootKeys
               /\ tokens[t].parent \in 0..(t - 1)
               /\ tokens[t].rootKeyID \in {"nil", RootKeyID[tokens[t].root]}
               /\ Len(tokens[t].blocks) \in 1..MaxBlocks
               /\ DOMAIN tokens[t].blocks = 1..Len(tokens[t].blocks)
               /\ tokens[t].proof.kind \in {"nextSecret", "finalSignature"}
    <3>1. SoundToken(tokens[t], keyCount, requests) /\ Derived(t)
      BY <2>1 DEF TokenInv
    <3>2. tokens[t].proof.kind \in {"nextSecret", "finalSignature"}
      BY <3>1 DEF SoundToken, SoundProof, NextSecret, FinalSignature
    <3>3. QED
      BY <3>1, <3>2, ListedLen DEF SoundToken, SoundBlocks, Derived
  <2>3. ASSUME NEW t \in DOMAIN tokens, NEW i \in DOMAIN tokens[t].blocks
        PROVE  /\ tokens[t].blocks[i].data \in Data
               /\ tokens[t].blocks[i].nextKey \in 1..keyCount
               /\ tokens[t].blocks[i].version \in {0, 1}
               /\ tokens[t].blocks[i].external.key \in PartyKeys \cup {0}
    <3>1. SoundBlocks(tokens[t].blocks, tokens[t].root, keyCount, requests)
      BY <2>1 DEF TokenInv, SoundToken
    <3>2. i \in 1..Len(tokens[t].blocks)
      BY <2>2
    <3>3. ExternallySigned(tokens[t].blocks, i, requests)
      BY <3>1, <3>2 DEF SoundBlocks
    <3>4. tokens[t].blocks[i].external.key \in PartyKeys \cup {0}
      BY <3>3 DEF ExternallySigned, NoExternal
    <3>5. QED
      BY <3>1, <3>2, <3>4 DEF SoundBlocks
  <2>4. QED
    BY <2>1, <2>2, <2>3 DEF TypeOK
<1>2. QED
  BY <1>1, ChainsAreSound, PTL

----------------------------------------------------------------------------
(* What the invariant says of one token.                                      *)
LEMMA TokenFacts ==
  ASSUME TokenInv, NEW t \in DOMAIN tokens
  PROVE  /\ t \in 1..Len(tokens)
         /\ tokens[t].root \in RootKeys
         /\ tokens[t].rootKeyID \in {"nil", RootKeyID[tokens[t].root]}
         /\ SoundBlocks(tokens[t].blocks, tokens[t].root, keyCount, requests)
         /\ SoundProof(tokens[t].proof, Last(tokens[t].blocks))
         /\ Listed(tokens[t].blocks)
         /\ Len(tokens[t].blocks) \in Nat /\ Len(tokens[t].blocks) >= 1
         /\ DOMAIN tokens[t].blocks = 1..Len(tokens[t].blocks)
<1>1. t \in 1..Len(tokens)
  BY ListedLen DEF TokenInv, Counted
<1>2. SoundToken(tokens[t], keyCount, requests)
  BY <1>1 DEF TokenInv
<1>3. QED
  BY <1>1, <1>2, ListedLen, TokenAssumption DEF SoundToken, SoundBlocks

LEMMA OwnKeyVerifies ==
  ASSUME TokenInv, NEW t \in DOMAIN tokens
  PROVE  authorizerFor(tokens[t].blocks, tokens[t].proof, tokens[t].root)
<1> DEFINE blocks == tokens[t].blocks
           root == tokens[t].root
<1>1. /\ SoundBlocks(blocks, root, keyCount, requests)
      /\ SoundProof(tokens[t].proof, Last(blocks))
      /\ Len(blocks) \in Nat /\ Len(blocks) >= 1
  BY TokenFacts
<1>2. \A i \in 1..Len(blocks) : /\ blocks[i].version \in {0, 1}
                                /\ BlockSigned(blocks, i, root)
                                /\ ExternallySigned(blocks, i, requests)
  BY <1>1 DEF SoundBlocks
<1>3. VerifyAuthority(blocks[1], root)
  BY <1>1, <1>2 DEF BlockSigned, VerifyAuthority, Verify, Sign
<1>4. ASSUME NEW i \in 2..Len(blocks)
      PROVE  VerifyBlock(blocks[i], blocks[i-1])
  <2>1. i \in 1..Len(blocks) /\ i # 1
    BY <1>1
  <2>2. blocks[i].signature = Sign(blocks[i-1].nextKey, BlockMessage(blocks, i))
    BY <1>2, <2>1 DEF BlockSigned
  <2>3. ExternallySigned(blocks, i, requests)
    BY <1>2, <2>1
  <2>4. blocks[i].external # NoExternal =>
          verifyExternalSignature(blocks[i].data, blocks[i-1].signature,
                                  blocks[i].external, blocks[i].version)
    BY <2>3 DEF ExternallySigned, verifyExternalSignature, Verify, Sign
  <2>5. QED
    BY <2>2, <2>4 DEF VerifyBlock, BlockMessage, Verify, Sign
<1>5. VerifyProof(tokens[t].proof, Last(blocks))
  <2>1. CASE tokens[t].proof = NextSecret(Last(blocks).nextKey)
    BY <2>1 DEF VerifyProof, NextSecret
  <2>2. CASE tokens[t].proof =
               FinalSignature(Sign(Last(blocks).nextKey,
                                   sealedBlockSignaturePayload(Last(blocks))))
    BY <2>2 DEF VerifyProof, FinalSignature, Verify, Sign
  <2>3. QED
    BY <1>1, <2>1, <2>2 DEF SoundProof
<1>6. QED
  BY <1>3, <1>4, <1>5 DEF authorizerFor

LEMMA OnlyOwnKeyVerifies ==
  ASSUME TokenInv, NEW t \in DOMAIN tokens, NEW root,
         authorizerFor(tokens[t].blocks, tokens[t].proof, root)
  PROVE  root = tokens[t].root
<1>1. tokens[t].blocks[1].signature[1] = root
  BY DEF authorizerFor, VerifyAuthority, Verify
<1>2. tokens[t].blocks[1].signature[1] = tokens[t].root
  BY TokenFacts, SignatureNames
<1>3. QED
  BY <1>1, <1>2

(* Whatever the operations that led to a token, the verifier accepts it under *)
(* the root key it was issued with and under no other, and selects that key   *)
(* by the embedded id.                                                        *)
THEOREM BuiltTokensVerify == Spec => []TokensVerify
<1>1. TokenInv => TokensVerify
  <2> SUFFICES ASSUME TokenInv, NEW t \in DOMAIN tokens
               PROVE  /\ \A root \in RootKeys :
                           authorizerFor(tokens[t].blocks, tokens[t].proof, root)
                             <=> root = tokens[t].root
                      /\ \A default \in RootKeys \cup {0} :
                           AuthorizerFor(t, default)
                             <=> (\/ tokens[t].rootKeyID # "nil"
                                  \/ default = tokens[t].root)
    BY DEF TokensVerify
  <2>1. \A root \in RootKeys \cup {0} :
          authorizerFor(tokens[t].blocks, tokens[t].proof, root)
            <=> root = tokens[t].root
    BY OwnKeyVerifies, OnlyOwnKeyVerifies
  <2>2. 0 \notin RootKeys
    BY TokenAssumption
  <2>3. /\ tokens[t].root \in RootKeys
        /\ tokens[t].rootKeyID \in {"nil", RootKeyID[tokens[t].root]}
    BY TokenFacts
  <2>4. ASSUME NEW default \in RootKeys \cup {0}
        PROVE  AuthorizerFor(t, default)
                 <=> (tokens[t].rootKeyID # "nil" \/ default = tokens[t].root)
    <3> DEFINE key == WithRootPublicKeys(tokens[t].rootKeyID, default)
    <3>1. CASE tokens[t].rootKeyID = "nil"
      <4>1. key = default
        BY <3>1 DEF WithRootPublicKeys
      <4>2. QED
        BY <2>1, <2>2, <2>3, <3>1, <4>1 DEF AuthorizerFor
    <3>2. CASE tokens[t].rootKeyID # "nil"
      <4>1. tokens[t].rootKeyID = RootKeyID[tokens[t].root]
        BY <2>3, <3>2
      <4>2. key = CHOOSE k \in RootKeys : RootKeyID[k] = tokens[t].rootKeyID
        BY <2>3, <3>2, <4>1 DEF WithRootPublicKeys
      <4>3. key \in RootKeys /\ RootKeyID[key] = tokens[t].rootKeyID
        BY <2>3, <4>1, <4>2
      <4>4. key = tokens[t].root
        BY <2>3, <4>1, <4>3, TokenAssumption
      <4>5. QED
        BY <2>1, <2>2, <2>3, <3>2, <4>4 DEF AuthorizerFor
    <3>3. QED
      BY <3>1, <3>2
  <2>5. QED
    BY <2>1, <2>4
<1>2. QED
  BY <1>1, ChainsAreSound, PTL

(* A third-party block follows the very block its contents were requested for *)
(* and signed with.                                                           *)
THEOREM ContentsNeverMove == Spec => []ThirdPartyBlocksBound
<1>1. TokenInv => ThirdPartyBlocksBound
  <2> SUFFICES ASSUME TokenInv, NEW t \in DOMAIN tokens,
                      NEW i \in DOMAIN tokens[t].blocks
               PROVE  ExternallySigned(tokens[t].blocks, i, requests)
    BY DEF ThirdPartyBlocksBound, ExternallySigned
  <2>1. QED
    BY TokenFacts DEF SoundBlocks
<1>2. QED
  BY <1>1, ChainsAreSound, PTL

(* Nothing is derived from a sealed token and its proof holds no secret.      *)
THEOREM SealingIsFinal == Spec => []SealedIsFinal
<1>1. TokenInv => SealedIsFinal
  <2> SUFFICES ASSUME TokenInv, NEW t \in DOMAIN tokens,
                      tokens[t].proof.kind = "finalSignature"
               PROVE  /\ \A u \in DOMAIN tokens : tokens[u].parent # t
                      /\ tokens[t].proof.key = 0
    BY DEF SealedIsFinal
  <2>1. t \in 1..Len(tokens) /\ SoundProof(tokens[t].proof, Last(tokens[t].blocks))
    BY TokenFacts
  <2>2. tokens[t].proof.key = 0
    BY <2>1 DEF SoundProof, NextSecret, FinalSignature
  <2>3. ASSUME NEW u \in DOMAIN tokens, tokens[u].parent = t
        PROVE  FALSE
    <3>1. Derived(u)
      BY TokenFacts DEF TokenInv
    <3>2. tokens[t].proof.kind = "nextSecret"
      BY <2>1, <2>3, <3>1 DEF Derived
    <3>3. QED
      BY <3>2
  <2>4. QED
    BY <2>2, <2>3
<1>2. QED
  BY <1>1, ChainsAreSound, PTL

----------------------------------------------------------------------------
LEMMA IdsListed ==
  ASSUME NEW b, Listed(b)
  PROVE  /\ Listed(RevocationIds(b)) /\ Len(RevocationIds(b)) = Len(b)
         /\ \A i \in 1..Len(b) : RevocationIds(b)[i] = b[i].signature
<1> DEFINE S == {b[i].signature : i \in 1..Len(b)}
           ids == [i \in 1..Len(b) |-> b[i].signature]
<1>1. Len(b) \in Nat /\ DOMAIN b = 1..Len(b)
  BY ListedLen
<1>2. RevocationIds(b) = ids
  BY <1>1 DEF RevocationIds
<1>3. ids \in [1..Len(b) -> S]
  OBVIOUS
<1>4. ids \in Seq(S) /\ Len(ids) = Len(b)
  BY <1>1, <1>3
<1>5. QED
  BY <1>2, <1>4 DEF Listed

(* An equal next key or signature means an equal history.                     *)
LEMMA SameKeySameHistory ==
  ASSUME TokenInv, NEW t \in DOMAIN tokens, NEW u \in DOMAIN tokens,
         NEW i \in 1..Len(tokens[t].blocks), NEW j \in 1..Len(tokens[u].blocks),
         tokens[t].blocks[i].nextKey = tokens[u].blocks[j].nextKey
  PROVE  /\ i = j
         /\ \A k \in 1..i : tokens[t].blocks[k] = tokens[u].blocks[k]
<1>1. Related(tokens[t].blocks, tokens[u].blocks)
  BY TokenFacts DEF TokenInv
<1>2. QED
  BY <1>1 DEF Related

(* A revocation id names one history, and derived tokens keep the ids they    *)
(* were derived with: revoking an id revokes just what followed its block.    *)
THEOREM IdsNameHistories == Spec => []RevocationNamesHistory
<1>1. TokenInv => RevocationNamesHistory
  <2> SUFFICES ASSUME TokenInv PROVE RevocationNamesHistory
    OBVIOUS
  <2>1. ASSUME NEW t \in DOMAIN tokens, NEW u \in DOMAIN tokens,
               NEW i \in DOMAIN tokens[t].blocks, NEW j \in DOMAIN tokens[u].blocks,
               RevocationIds(tokens[t].blocks)[i] = RevocationIds(tokens[u].blocks)[j]
        PROVE  /\ i = j
               /\ SubSeq(tokens[t].blocks, 1, i) = SubSeq(tokens[u].blocks, 1, j)
    <3> DEFINE a == tokens[t].blocks
               b == tokens[u].blocks
    <3>1. /\ Listed(a) /\ Listed(b)
          /\ Len(a) \in Nat /\ Len(b) \in Nat
          /\ i \in 1..Len(a) /\ j \in 1..Len(b)
          /\ SoundBlocks(a, tokens[t].root, keyCount, requests)
          /\ SoundBlocks(b, tokens[u].root, keyCount, requests)
      BY TokenFacts
    <3>2. a[i].signature = b[j].signature
      BY <2>1, <3>1, IdsListed
    <3>3. a[i].nextKey = b[j].nextKey
      BY <3>1, <3>2, SignatureNames, SMTT(60)
    <3>4. i = j /\ \A k \in 1..i : a[k] = b[k]
      BY <3>1, <3>3, SameKeySameHistory
    <3> HIDE DEF a, b
    <3>5. /\ Listed(SubSeq(a, 1, i)) /\ Len(SubSeq(a, 1, i)) = i
          /\ \A k \in 1..i : SubSeq(a, 1, i)[k] = a[k]
      BY <3>1, ListedPrefix
    <3>6. /\ Listed(SubSeq(b, 1, j)) /\ Len(SubSeq(b, 1, j)) = j
          /\ \A k \in 1..j : SubSeq(b, 1, j)[k] = b[k]
      BY <3>1, ListedPrefix
    <3>7. SubSeq(a, 1, i) = SubSeq(b, 1, j)
      BY <3>4, <3>5, <3>6, ListedEqual
    <3>8. QED
      BY <3>4, <3>7 DEF a, b
  <2>2. ASSUME NEW t \in DOMAIN tokens, tokens[t].parent # 0
        PROVE  IsPrefix(RevocationIds(tokens[tokens[t].parent].blocks),
                        RevocationIds(tokens[t].blocks))
    <3> DEFINE p == tokens[t].parent
               a == RevocationIds(tokens[p].blocks)
               b == RevocationIds(tokens[t].blocks)
               n == Len(tokens[p].blocks)
    <3>1. Derived(t) /\ t \in 1..Len(tokens) /\ Len(tokens) \in Nat
      BY TokenFacts, ListedLen DEF TokenInv, Counted
    <3>2. p \in 1..Len(tokens) /\ DOMAIN tokens = 1..Len(tokens)
      BY <2>2, <3>1, ListedLen DEF Derived, TokenInv, Counted
    <3>3. Begins(tokens[p].blocks, tokens[t].blocks)
      BY <2>2, <3>1 DEF Derived
    <3>4. /\ Listed(tokens[p].blocks) /\ Listed(tokens[t].blocks)
          /\ n \in Nat /\ Len(tokens[t].blocks) \in Nat
      BY <3>2, TokenFacts
    <3>5. /\ Listed(a) /\ Len(a) = n
          /\ \A i \in 1..n : a[i] = tokens[p].blocks[i].signature
          /\ Listed(b) /\ Len(b) = Len(tokens[t].blocks)
          /\ \A i \in 1..Len(b) : b[i] = tokens[t].blocks[i].signature
      BY <3>4, IdsListed
    <3>6. n <= Len(b) /\ \A i \in 1..n : a[i] = b[i]
      BY <3>3, <3>4, <3>5 DEF Begins
    <3> HIDE DEF a, b, n
    <3>7. /\ Listed(SubSeq(a, 1, n)) /\ Len(SubSeq(a, 1, n)) = n
          /\ \A i \in 1..n : SubSeq(a, 1, n)[i] = a[i]
      BY <3>4, <3>5, ListedPrefix
    <3>8. /\ Listed(SubSeq(b, 1, n)) /\ Len(SubSeq(b, 1, n)) = n
          /\ \A i \in 1..n : SubSeq(b, 1, n)[i] = b[i]
      BY <3>4, <3>5, <3>6, ListedPrefix
    <3>9. SubSeq(a, 1, n) = SubSeq(b, 1, n)
      BY <3>6, <3>7, <3>8, ListedEqual
    <3>10. QED
      BY <3>5, <3>6, <3>9 DEF IsPrefix, a, b
  <2>3. QED
    BY <2>1, <2>2 DEF RevocationNamesHistory
<1>2. QED
  BY <1>1, ChainsAreSound, PTL

----------------------------------------------------------------------------
LEMMA SpliceForm ==
  ASSUME NEW t, NEW u, NEW chain \in Splices(t, u)
  PROVE  \E s \in Beginnings(t), e \in Ends(u) : chain = s \o e
BY DEF Splices

(* The verifier follows the next keys, so what it accepts is the beginning of *)
(* a chain that was built.                                                    *)
LEMMA VerifiedSplice ==
  ASSUME TokenInv, NEW t \in DOMAIN tokens, NEW u \in DOMAIN tokens,
         NEW chain \in Splices(t, u), NEW proof, NEW root,
         authorizerFor(chain, proof, root)
  PROVE  \E v \in DOMAIN tokens :
           /\ Listed(chain) /\ Len(chain) \in 1..Len(tokens[v].blocks)
           /\ \A k \in 1..Len(chain) : chain[k] = tokens[v].blocks[k]
<1> DEFINE a == tokens[t].blocks
           b == tokens[u].blocks
<1>8. PICK s \in Beginnings(t), e \in Ends(u) : chain = s \o e
  BY SpliceForm
<1>1. PICK i \in 1..Len(a) : s = SubSeq(a, 1, i)
  BY DEF Beginnings
<1>10. PICK j \in 2..(Len(b) + 1) : e = SubSeq(b, j, Len(b))
  BY DEF Ends
<1>7. chain = SubSeq(a, 1, i) \o SubSeq(b, j, Len(b))
  BY <1>1, <1>8, <1>10
<1>2. /\ Listed(a) /\ Listed(b) /\ Len(a) \in Nat /\ Len(b) \in Nat
      /\ SoundBlocks(b, tokens[u].root, keyCount, requests)
  BY TokenFacts
<1> HIDE DEF a, b
<1>3. /\ Listed(chain) /\ Len(chain) = i + (Len(b) - j + 1)
      /\ \A k \in 1..i : chain[k] = a[k]
      /\ \A k \in 1..(Len(b) - j + 1) : chain[i + k] = b[j + k - 1]
  <2> DEFINE c == SubSeq(a, 1, i) \o SubSeq(b, j, Len(b))
  <2>1. /\ Listed(c) /\ Len(c) = i + (Len(b) - j + 1)
        /\ \A k \in 1..i : c[k] = a[k]
        /\ \A k \in 1..(Len(b) - j + 1) : c[i + k] = b[j + k - 1]
    BY <1>2, ListedSplice
  <2>2. chain = c
    BY <1>7
  <2> HIDE DEF c
  <2>3. QED
    BY <2>1, <2>2
<1>4. CASE j = Len(b) + 1
  <2>1. Len(chain) = i /\ Len(chain) \in 1..Len(a)
    BY <1>2, <1>3, <1>4
  <2>2. QED
    BY <1>3, <2>1 DEF a
<1>5. CASE j \in 2..Len(b)
  <2>1. /\ i + 1 \in 2..Len(chain) /\ (i + 1) - 1 = i
        /\ j \in 1..Len(b) /\ j # 1 /\ j - 1 \in 1..Len(b)
    BY <1>2, <1>3, <1>5
  <2>2. chain[i + 1] = b[j] /\ chain[i] = a[i]
    <3>1. 1 \in 1..(Len(b) - j + 1) /\ j + 1 - 1 = j
      BY <1>2, <1>5
    <3>2. QED
      BY <1>3, <3>1
  <2>3. VerifyBlock(chain[i + 1], chain[i])
    BY <2>1 DEF authorizerFor
  <2>4. b[j].signature[1] = a[i].nextKey
    BY <2>2, <2>3 DEF VerifyBlock, Verify
  <2>5. b[j].signature[1] = b[j-1].nextKey
    <3>1. j # 1 => b[j].signature[1] = b[j-1].nextKey
      BY <1>2, <2>1, SignatureNames
    <3>2. QED
      BY <2>1, <3>1
  <2>6. i = j - 1 /\ \A k \in 1..i : a[k] = b[k]
    <3>1. a[i].nextKey = b[j-1].nextKey
      BY <2>4, <2>5
    <3>2. i \in 1..Len(a)
      OBVIOUS
    <3>3. QED
      BY <2>1, <3>1, <3>2, SameKeySameHistory DEF a, b
  <2>7. Len(chain) = Len(b) /\ Len(b) \in 1..Len(b)
    BY <1>2, <1>3, <1>5, <2>6
  <2>8. ASSUME NEW k \in 1..Len(chain)
        PROVE  chain[k] = b[k]
    <3>1. CASE k \in 1..i
      BY <1>3, <2>6, <3>1
    <3>2. CASE k \notin 1..i
      <4>1. /\ k - i \in 1..(Len(b) - j + 1)
            /\ i + (k - i) = k /\ j + (k - i) - 1 = k
        BY <1>2, <1>3, <2>6, <2>7, <3>2
      <4>2. QED
        BY <1>3, <4>1
    <3>3. QED
      BY <3>1, <3>2
  <2>9. QED
    BY <1>3, <2>7, <2>8 DEF b
<1>6. QED
  BY <1>2, <1>4, <1>5

(* The proof belongs to the last block.                                       *)
LEMMA VerifiedProof ==
  ASSUME TokenInv, NEW p \in DOMAIN tokens, NEW last,
         VerifyProof(tokens[p].proof, last)
  PROVE  Last(tokens[p].blocks).nextKey = last.nextKey
<1>1. SoundProof(tokens[p].proof, Last(tokens[p].blocks))
  BY TokenFacts
<1>2. CASE tokens[p].proof = NextSecret(Last(tokens[p].blocks).nextKey)
  BY <1>2 DEF NextSecret, VerifyProof
<1>3. CASE tokens[p].proof = FinalSignature(Sign(Last(tokens[p].blocks).nextKey,
                               sealedBlockSignaturePayload(Last(tokens[p].blocks))))
  BY <1>3 DEF FinalSignature, VerifyProof, Verify, Sign
<1>4. QED
  BY <1>1, <1>2, <1>3 DEF SoundProof

(* Dropping, exchanging and re-joining blocks of existing tokens, or giving   *)
(* one the proof of another, never verifies unless the result is a token.     *)
THEOREM NoSpliceVerifies == Spec => []OnlyBuiltChainsVerify
<1>1. TokenInv => OnlyBuiltChainsVerify
  <2> SUFFICES ASSUME TokenInv,
                      NEW t \in DOMAIN tokens, NEW u \in DOMAIN tokens,
                      NEW p \in DOMAIN tokens,
                      NEW chain \in Splices(t, u), NEW root \in RootKeys,
                      authorizerFor(chain, tokens[p].proof, root)
               PROVE  tokens[p].blocks = chain
    BY DEF OnlyBuiltChainsVerify
  <2> DEFINE b == tokens[p].blocks
             n == Len(chain)
  <2>1. PICK v \in DOMAIN tokens :
          /\ Listed(chain) /\ n \in 1..Len(tokens[v].blocks)
          /\ \A k \in 1..n : chain[k] = tokens[v].blocks[k]
    BY VerifiedSplice
  <2>2. /\ Listed(b) /\ Len(b) \in Nat /\ Len(b) >= 1
        /\ Len(tokens[v].blocks) \in Nat
    BY TokenFacts
  <2>3. Last(b).nextKey = Last(chain).nextKey
    BY VerifiedProof DEF authorizerFor
  <2>4. b[Len(b)].nextKey = tokens[v].blocks[n].nextKey
    BY <2>1, <2>2, <2>3 DEF Last
  <2>5. Len(b) \in 1..Len(b)
    BY <2>2
  <2>6. Len(b) = n /\ \A k \in 1..Len(b) : b[k] = tokens[v].blocks[k]
    BY <2>1, <2>4, <2>5, SameKeySameHistory
  <2> HIDE DEF b, n
  <2>7. b = chain
    BY <2>1, <2>2, <2>6, ListedEqual DEF n
  <2>8. QED
    BY <2>7 DEF b
<1>2. QED
  BY <1>1, ChainsAreSound, PTL
=============================================================================
