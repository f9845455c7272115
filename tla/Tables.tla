------------------------------- MODULE Tables -------------------------------
(* The symbol and public-key tables of a token: how a block's strings and     *)
(* scope keys become indices when it is built, which table its reader         *)
(* resolves them in, and what a table shares with the token it was cloned     *)
(* from.  A symbol table is a Go slice: a header (backing array, length) over *)
(* an array other headers may point to, so it is modelled with a heap.  A     *)
(* public-key table is copied when cloned and is modelled as a sequence.      *)
EXTENDS Naturals, Sequences, SequencesExt

CONSTANTS
  Word,             \* strings
  Key,              \* public keys
  Default,          \* DEFAULT_SYMBOLS, a sequence of strings
  Offset,           \* OFFSET, the index of a table's first symbol
  Contents,         \* what blocks hold: the strings and the keys of their scopes
  Signers,          \* the keys of third parties
  NoSigner,         \* the absence of an external signature
  MaxTokens,        \* bound on the tokens made
  Forks,            \* TRUE: any token is derived from, FALSE: only the latest
  ReloadThirdParty  \* TRUE: tokens with third-party blocks are reloaded too

ASSUME BoundAssumption ==
  MaxTokens \in Nat \ {0} /\ Forks \in BOOLEAN /\ ReloadThirdParty \in BOOLEAN
ASSUME SymbolAssumption ==
  /\ Default \in Seq(Word)
  /\ Offset \in Nat /\ Len(Default) <= Offset
ASSUME SignerAssumption == Signers \subseteq Key /\ NoSigner \notin Key
ASSUME ContentAssumption == Contents \subseteq [words : Seq(Word), scopes : Seq(Key)]

VARIABLES
  heap,    \* the backing arrays of symbol tables, each a sequence of its cells
  tokens   \* the tokens made so far, in order

vars == <<heap, tokens>>

(* What lies in a cell no append has written yet, and what Str answers for an *)
(* index outside the table.                                                   *)
Blank == "<blank>"
Invalid == "<invalid>"

----------------------------------------------------------------------------
(* Slices of strings.                                                         *)

Nil == [arr |-> 0, len |-> 0]
Cap(h, s) == IF s.arr = 0 THEN 0 ELSE Len(h[s.arr])
Cells(h, s) == [i \in 1..s.len |-> h[s.arr][i]]

(* Go's append: in place while the array has room, and otherwise into a new   *)
(* array of twice the capacity.                                               *)
Push(m, w) ==
  IF m.slice.len < Cap(m.heap, m.slice)
  THEN [heap  |-> [m.heap EXCEPT ![m.slice.arr] = [@ EXCEPT ![m.slice.len + 1] = w]],
        slice |-> [arr |-> m.slice.arr, len |-> m.slice.len + 1]]
  ELSE LET size  == IF m.slice.len = 0 THEN 1 ELSE 2 * m.slice.len
           array == [i \in 1..size |->
                       IF i <= m.slice.len THEN Cells(m.heap, m.slice)[i]
                       ELSE IF i = m.slice.len + 1 THEN w ELSE Blank]
       IN [heap  |-> Append(m.heap, array),
           slice |-> [arr |-> Len(m.heap) + 1, len |-> m.slice.len + 1]]

Position(seq, x) == CHOOSE i \in DOMAIN seq : seq[i] = x /\ \A j \in 1..(i - 1) : seq[j] # x

(* Seeded fault: only the default symbols are looked for.                     *)
InsertAgain(m, w) == IF w \in Range(Default) THEN m ELSE Push(m, w)

Insert(m, w) ==
  IF w \in Range(Default) \cup Range(Cells(m.heap, m.slice)) THEN m ELSE Push(m, w)

Extend(m, words) ==
  LET upTo[n \in 0..Len(words)] == IF n = 0 THEN m ELSE Insert(upTo[n - 1], words[n])
  IN  upTo[Len(words)]

(* The index Insert returns.                                                  *)
Index(table, w) ==
  IF w \in Range(Default) THEN Position(Default, w) - 1
                          ELSE Offset + Position(table, w) - 1

Str(table, sym) ==
  IF sym < Offset
  THEN IF sym < Len(Default) THEN Default[sym + 1] ELSE Invalid
  ELSE IF sym - Offset < Len(table) THEN table[sym - Offset + 1] ELSE Invalid

----------------------------------------------------------------------------
(* Public-key tables and the signature registry.                              *)

InsertKey(keys, k) == IF k \in Range(keys) THEN keys ELSE Append(keys, k)
ExtendKeys(keys, more) ==
  LET upTo[n \in 0..Len(more)] == IF n = 0 THEN keys ELSE InsertKey(upTo[n - 1], more[n])
  IN  upTo[Len(more)]

(* Seeded fault: the index of the key added last.                             *)
LastKeyIndex(keys, k) == Len(keys) - 1

KeyIndex(keys, k) == Position(keys, k) - 1

(* registry[index] is the set of blocks signed with the key at that index.    *)
Register(registry, index, id) ==
  [i \in DOMAIN registry \cup {index} |->
     (IF i \in DOMAIN registry THEN registry[i] ELSE {})
       \cup (IF i = index THEN {id} ELSE {})]

IsThirdParty(block) == block.signer # NoSigner

(* Seeded fault: the signer is registered under the last index, as if Insert  *)
(* always appended.                                                           *)
UpdateLastIndex(tables, block, id) ==
  IF IsThirdParty(block)
  THEN LET keys == InsertKey(tables.keys, block.signer)
       IN [keys |-> keys, registry |-> Register(tables.registry, Len(keys) - 1, id)]
  ELSE [keys |-> ExtendKeys(tables.keys, block.keys), registry |-> tables.registry]

UpdatePublicKeys(tables, block, id) ==
  IF IsThirdParty(block)
  THEN LET keys == InsertKey(tables.keys, block.signer)
       IN [keys |-> keys,
           registry |-> Register(tables.registry, KeyIndex(keys, block.signer), id)]
  ELSE [keys |-> ExtendKeys(tables.keys, block.keys), registry |-> tables.registry]

NoKeys == [keys |-> <<>>, registry |-> <<>>]

----------------------------------------------------------------------------
(* Building a block.  block.words and block.wrote are what its author meant;  *)
(* everything else is what the block carries.  Build inserts through a copy   *)
(* of the slice header, so the caller's table keeps its length while the      *)
(* array it shares may be written.                                            *)

Built(m, keys, content, signer) ==
  LET after  == Extend(m, content.words)
      table  == Cells(after.heap, after.slice)
      known  == ExtendKeys(keys, content.scopes)
  IN [heap  |-> after.heap,
      block |-> [words  |-> content.words,
                 terms  |-> [i \in DOMAIN content.words |-> Index(table, content.words[i])],
                 table  |-> SubSeq(table, m.slice.len + 1, Len(table)),
                 wrote  |-> content.scopes,
                 scopes |-> [i \in DOMAIN content.scopes |-> KeyIndex(known, content.scopes[i])],
                 keys   |-> SubSeq(known, Len(keys) + 1, Len(known)),
                 signer |-> signer]]

(* A third party builds its block over empty tables, in a process of its own. *)
SignRequest(content, signer) ==
  Built([heap |-> <<>>, slice |-> Nil], <<>>, content, signer).block

----------------------------------------------------------------------------
(* Reading: what the authorizer makes of block i of token t.                  *)

Symbols(t) == Cells(heap, tokens[t].symbols)
IsDisjoint(table, block) == Range(table) \cap Range(block.table) = {}

(* Seeded fault: third-party blocks are read in the token's table.            *)
TokenTable(t, i) == Symbols(t)

TableOf(t, i) ==
  LET block == tokens[t].blocks[i]
  IN IF i > 1 /\ IsThirdParty(block) THEN block.table ELSE Symbols(t)

ReadWords(t, i) ==
  LET block == tokens[t].blocks[i]
  IN [j \in DOMAIN block.terms |-> Str(TableOf(t, i), block.terms[j])]

(* A scope index is looked up in the block's own keys; one beyond them makes  *)
(* the authorizer's Build fail (a block unmarshalled without keys has a nil   *)
(* table, and the lookup panics).                                             *)
ScopesHydrate(block) == \A j \in DOMAIN block.scopes : block.scopes[j] < Len(block.keys)
ReadScopes(block) == [j \in DOMAIN block.scopes |-> block.keys[block.scopes[j] + 1]]

(* What Unmarshal makes of the blocks of a serialized token.                  *)
UnmarshalKeys(blocks) ==
  LET upTo[n \in 0..Len(blocks)] ==
        IF n = 0 THEN NoKeys ELSE UpdatePublicKeys(upTo[n - 1], blocks[n], n - 1)
  IN  upTo[Len(blocks)]

UnmarshalSymbols(h, blocks) ==
  LET upTo[n \in 0..Len(blocks)] ==
        IF n = 0 THEN [heap |-> h, slice |-> Nil] ELSE Extend(upTo[n - 1], blocks[n].table)
  IN  upTo[Len(blocks)]

----------------------------------------------------------------------------
(* Operations.                                                                *)

Token(slice, tables, blocks, sealed) ==
  [symbols |-> slice, keys |-> tables.keys, registry |-> tables.registry,
   blocks |-> blocks, sealed |-> sealed]

Sources == IF Forks THEN DOMAIN tokens ELSE {Len(tokens)} \ {0}
Room == Len(tokens) < MaxTokens

Init == heap = <<>> /\ tokens = <<>>

(* biscuitBuilder.Build: the authority block is built over empty tables, and  *)
(* its symbols then fill the token's, which started empty too.                *)
newBiscuit ==
  /\ tokens = <<>>
  /\ \E content \in Contents :
       LET block == Built([heap |-> <<>>, slice |-> Nil], <<>>, content, NoSigner).block
           m     == Extend([heap |-> heap, slice |-> Nil], block.table)
       IN /\ heap' = m.heap
          /\ tokens' = <<Token(m.slice, UpdatePublicKeys(NoKeys, block, 0), <<block>>, FALSE)>>

(* Seeded fault: the appended block is numbered without counting the authority. *)
AppendMisnumbered(t, h, block) ==
  IF tokens[t].sealed \/ ~IsDisjoint(Symbols(t), block)
  THEN heap' = h /\ UNCHANGED tokens
  ELSE LET m == IF IsThirdParty(block) THEN [heap |-> h, slice |-> tokens[t].symbols]
                ELSE Extend([heap |-> h, slice |-> tokens[t].symbols], block.table)
           tables == [keys |-> tokens[t].keys, registry |-> tokens[t].registry]
       IN /\ heap' = m.heap
          /\ tokens' = Append(tokens,
               Token(m.slice, UpdatePublicKeys(tables, block, Len(tokens[t].blocks) - 1),
                     Append(tokens[t].blocks, block), FALSE))

(* append, from a heap h that building the block may already have written.    *)
(* The new token's table is a clone of the header of its parent's.            *)
append(t, h, block) ==
  IF tokens[t].sealed \/ ~IsDisjoint(Symbols(t), block)
  THEN heap' = h /\ UNCHANGED tokens
  ELSE LET m == IF IsThirdParty(block) THEN [heap |-> h, slice |-> tokens[t].symbols]
                ELSE Extend([heap |-> h, slice |-> tokens[t].symbols], block.table)
           tables == [keys |-> tokens[t].keys, registry |-> tokens[t].registry]
       IN /\ heap' = m.heap
          /\ tokens' = Append(tokens,
               Token(m.slice, UpdatePublicKeys(tables, block, Len(tokens[t].blocks)),
                     Append(tokens[t].blocks, block), FALSE))

(* The arrays Build allocated are garbage once SplitOff copied the block's    *)
(* table; what it wrote in the parent's array stays.                          *)
AppendBlock(t) ==
  \E content \in Contents :
    LET built == Built([heap |-> heap, slice |-> tokens[t].symbols], tokens[t].keys, content, NoSigner)
    IN append(t, SubSeq(built.heap, 1, Len(heap)), built.block)

AppendThirdPartyBlock(t) ==
  \E content \in Contents, signer \in Signers : append(t, heap, SignRequest(content, signer))

(* Seal clones both tables and the registry.                                  *)
Seal(t) ==
  /\ ~tokens[t].sealed
  /\ tokens' = Append(tokens, Token(tokens[t].symbols, tokens[t], tokens[t].blocks, TRUE))
  /\ UNCHANGED heap

(* Serialize and Unmarshal: only the blocks travel.                           *)
Reload(t) ==
  /\ ReloadThirdParty \/ \A i \in DOMAIN tokens[t].blocks : ~IsThirdParty(tokens[t].blocks[i])
  /\ LET m == UnmarshalSymbols(heap, tokens[t].blocks)
     IN /\ heap' = m.heap
        /\ tokens' = Append(tokens,
             Token(m.slice, UnmarshalKeys(tokens[t].blocks), tokens[t].blocks, tokens[t].sealed))

Next ==
  \/ newBiscuit
  \/ /\ Room
     /\ \E t \in Sources :
          AppendBlock(t) \/ AppendThirdPartyBlock(t) \/ Seal(t) \/ Reload(t)

Spec == Init /\ [][Next]_vars

----------------------------------------------------------------------------
(* The values the tables range over.                                          *)
TypeOK ==
  /\ \A a \in DOMAIN heap : Len(heap[a]) > 0
  /\ \A t \in DOMAIN tokens :
       /\ tokens[t].symbols.arr \in 0..Len(heap)
       /\ tokens[t].symbols.len \in 0..Cap(heap, tokens[t].symbols)
       /\ tokens[t].blocks # <<>>
       /\ DOMAIN tokens[t].registry \subseteq 0..(Len(tokens[t].keys) - 1)
       /\ tokens[t].sealed \in BOOLEAN

(* Whatever is done to a token's descendants, every block of every token made *)
(* so far, reloaded or not, reads as the strings its author wrote.            *)
SymbolsResolve ==
  \A t \in DOMAIN tokens : \A i \in DOMAIN tokens[t].blocks :
    ReadWords(t, i) = tokens[t].blocks[i].words

(* A block's scopes are never all read, but as other keys than it named:      *)
(* indices into the token's table looked up in the block's own keys are right *)
(* or refused, and no block comes to trust a key it did not name.             *)
KeysNeverConfused ==
  \A t \in DOMAIN tokens : \A i \in DOMAIN tokens[t].blocks :
    LET block == tokens[t].blocks[i]
    IN ScopesHydrate(block) => ReadScopes(block) = block.wrote

(* The registry lists, under a key's index in the token's table, exactly the  *)
(* blocks that key signed.                                                    *)
RegistryNamesSigners ==
  \A t \in DOMAIN tokens :
    LET token == tokens[t]
    IN \A k \in DOMAIN token.keys :
         (IF k - 1 \in DOMAIN token.registry THEN token.registry[k - 1] ELSE {})
           = {i - 1 : i \in {b \in DOMAIN token.blocks : token.blocks[b].signer = token.keys[k]}}

(* The keys and registry a token gathered while it was attenuated are those a *)
(* reader of its serialized blocks gathers: both sides give a key one index.  *)
TablesCanonical ==
  \A t \in DOMAIN tokens :
    UnmarshalKeys(tokens[t].blocks)
      = [keys |-> tokens[t].keys, registry |-> tokens[t].registry]

(* append refuses a block that shares a symbol with the token, but never one  *)
(* AppendBlock has just built over that token's tables, however often its     *)
(* strings recur in the token: what Build splits off is new.                  *)
OwnBlocksFit ==
  \A t \in Sources : \A content \in Contents :
    IsDisjoint(Symbols(t),
               Built([heap |-> heap, slice |-> tokens[t].symbols], tokens[t].keys, content,
                     NoSigner).block)
=============================================================================
