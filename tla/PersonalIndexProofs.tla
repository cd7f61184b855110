------------------------ MODULE PersonalIndexProofs ------------------------
(***************************************************************************)
(* Proofs about the search index (PersonalIndex.tla), for any pages, terms *)
(* and calls, any cap, and any number of crashes and failed writes.        *)
(***************************************************************************)
EXTENDS PersonalIndex, FiniteSetTheorems, WellFoundedInduction, TLAPS

Record == [terms : SUBSET Term, seq : Nat]
Page == [doc : Doc, terms : SUBSET Term]
Phase == Settled \cup {"look", "insert", "evict", "read", "bound",
                       "binding", "epoch", "revoke"}

\* A call has a page while it indexes it, and is at the head of the chain from
\* its first batch to its last: everything in between happens under one mutation.
ChainShape ==
    /\ chain \in Seq(Call)
    /\ pc \in [Call -> Phase] /\ DOMAIN arg = Call
    /\ \A c \in Call : pc[c] \in {"look", "insert", "evict"} =>
          c \in IndexCall /\ arg[c] \in Page
    /\ \A c \in Call : pc[c] \in {"insert", "evict"} => Running(c)

\* What is stored has its type, also after failed reads.
Stored ==
    /\ rec \in [Doc -> Record \cup {None}]
    /\ order \subseteq Nat \X Doc
    /\ seq \in Nat /\ count \in Nat /\ turns \in Nat

Postings(r) == UNION {r[d].terms \X {d} : d \in {x \in Doc : r[x] # None}}

\* Eviction finds every record by an order key, that of its number if it has
\* one; and of the keys this version gave none is left without its record.
Keyed ==
    /\ \A d \in Indexed : \E o \in order : o[2] = d /\ rec[d].seq \in {0, o[1]}
    /\ \A o \in order : o[1] > OldSeq => o[2] \in Indexed /\ rec[o[2]].seq = o[1]

\* Records, counter, postings and order keys agree.
Agreed ==
    /\ IsFiniteSet(Indexed) /\ count = Cardinality(Indexed)
    /\ posted = Postings(rec)
    /\ Keyed

\* No number is used twice, and the last one given is the highest.
Numbered ==
    /\ seq >= OldSeq
    /\ \A o \in order : 1 <= o[1] /\ o[1] <= seq
    /\ \A o, p \in order : o[1] = p[1] => o = p

\* Between its batches a call's page is out of the index; after them it has the
\* last number given, if it is still there.
Placed ==
    \A c \in Call :
        /\ pc[c] = "insert" => arg[c].doc \notin Indexed
        /\ pc[c] = "evict" => (arg[c].doc \in Indexed => rec[arg[c].doc].seq = seq)

Capped == (\A c \in Call : pc[c] \notin {"evict", "gaveup", "failed"}) => count <= MaxDocs

IInv ==
    /\ ChainShape
    /\ Stored
    /\ misread \in BOOLEAN
    /\ ~misread => Agreed /\ Numbered /\ Placed /\ Capped
-----------------------------------------------------------------------------
LEMMA Found ==
    ASSUME Stored, NEW d \in Indexed
    PROVE  d \in Doc /\ rec[d] \in Record /\ rec[d] # None
  BY DEF Indexed, Stored

LEMMA RecordsAreSome ==
    ASSUME NEW ts \in SUBSET Term, NEW n \in Nat
    PROVE  [terms |-> ts, seq |-> n] \in Record /\ [terms |-> ts, seq |-> n] # None
  BY IndexAssumption DEF Record

LEMMA OldestIsLeast ==
    ASSUME Stored, order # {}
    PROVE  Oldest \in order /\ \A p \in order : Oldest[1] <= p[1]
  <1> DEFINE used == {o[1] : o \in order}
  <1>1. used \subseteq Nat /\ used # {}
    BY DEF Stored
  <1>2. PICK x \in used : \A y \in used : <<y, x>> \notin OpToRel(<, Nat)
    BY <1>1, NatLessThanWellFounded, WFMin
  <1>3. \A y \in used : ~(y < x)
    BY <1>1, <1>2 DEF OpToRel
  <1>4. \E o \in order : \A p \in order : o[1] <= p[1]
    <2>1. PICK o \in order : x = o[1]
      OBVIOUS
    <2>2. \A p \in order : p[1] \in used /\ p[1] \in Nat /\ o[1] \in Nat
      BY DEF Stored
    <2>3. \A p \in order : ~(p[1] < o[1])
      BY <1>3, <2>1, <2>2
    <2>4. \A p \in order : o[1] <= p[1]
      BY <2>2, <2>3
    <2> QED  BY <2>4
  <1> QED  BY <1>4 DEF Oldest

(***************************************************************************)
(* The batch that removes a page                                           *)
(***************************************************************************)
LEMMA RemovalStored ==
    ASSUME Stored, NEW d \in Doc, rec[d] # None, NEW n \in Nat,
           RemoveByRecord(d, n), seq' = seq, turns' \in Nat
    PROVE  Stored'
  <1>1. rec' \in [Doc -> Record \cup {None}]
    BY DEF Stored, RemoveByRecord
  <1>2. order' \subseteq order /\ count' \in Nat
    BY DEF RemoveByRecord
  <1> QED  BY <1>1, <1>2 DEF Stored

LEMMA RemovalOut ==
    ASSUME Stored, NEW d \in Indexed, NEW n, RemoveByRecord(d, n)
    PROVE  /\ Indexed' = Indexed \ {d}
           /\ rec'[d] = None
           /\ \A x \in Doc : x # d => rec'[x] = rec[x]
  BY Found DEF Stored, RemoveByRecord, Indexed

\* Only the page's own key goes, and with it nothing that is still indexed.
LEMMA RemovalAgrees ==
    ASSUME Stored, Agreed, Numbered, NEW d \in Indexed,
           RemoveByRecord(d, count)
    PROVE  /\ Agreed'
           /\ order' \subseteq order
           /\ count' = count - 1
  <1>1. d \in Doc /\ rec[d] \in Record /\ rec[d] # None
    BY Found
  <1>2. /\ Indexed' = Indexed \ {d} /\ rec'[d] = None
        /\ \A x \in Doc : x # d => rec'[x] = rec[x]
    BY RemovalOut
  <1>3. order' = {o \in order : o[1] # rec[d].seq}
    BY DEF RemoveByRecord
  <1>4. \A o \in order : o[2] # d => o \in order'
    <2> SUFFICES ASSUME NEW o \in order, o[2] # d PROVE o[1] # rec[d].seq
      BY <1>3
    <2>1. PICK k \in order : k[2] = d /\ rec[d].seq \in {0, k[1]}
      BY DEF Agreed, Keyed
    <2>2. o[1] >= 1
      BY DEF Numbered
    <2>3. o # k => o[1] # k[1]
      BY DEF Numbered
    <2> QED  BY <2>1, <2>2, <2>3
  <1>5. \A o \in order' : o[1] > OldSeq => o[2] # d
    BY <1>3 DEF Agreed, Keyed
  <1>6. IsFiniteSet(Indexed') /\ count' = Cardinality(Indexed') /\ count' = count - 1
    <2>1. Cardinality(Indexed) \in Nat /\ Cardinality(Indexed) > 0
      BY FS_CardinalityType, FS_EmptySet DEF Agreed
    <2>2. IsFiniteSet(Indexed \ {d}) /\ Cardinality(Indexed \ {d}) = Cardinality(Indexed) - 1
      BY FS_RemoveElement DEF Agreed
    <2>3. count' = IF count > 0 THEN count - 1 ELSE 0
      BY DEF RemoveByRecord
    <2> QED  BY <1>2, <2>1, <2>2, <2>3 DEF Agreed
  <1>7. posted' = Postings(rec')
    <2>1. posted = Postings(rec)
      BY DEF Agreed
    <2>2. posted' = {p \in posted : ~(p[2] = d /\ p[1] \in rec[d].terms)}
      BY DEF RemoveByRecord
    <2>3. \A r, p : p \in Postings(r) <=>
             \E x \in Doc : r[x] # None /\ p \in r[x].terms \X {x}
      BY DEF Postings
    <2>4. \A p : p \in posted' <=> p \in Postings(rec')
      BY <1>1, <1>2, <2>1, <2>2, <2>3
    <2> QED  BY <2>2, <2>4 DEF Postings
  <1>8. Keyed'
    <2>1. ASSUME NEW x \in Indexed'
          PROVE  \E o \in order' : o[2] = x /\ rec'[x].seq \in {0, o[1]}
      <3>1. x \in Indexed /\ x # d /\ rec'[x] = rec[x]
        BY <1>2, <2>1 DEF Indexed
      <3>2. PICK o \in order : o[2] = x /\ rec[x].seq \in {0, o[1]}
        BY <3>1 DEF Agreed, Keyed
      <3> QED  BY <1>4, <3>1, <3>2
    <2>2. ASSUME NEW o \in order', o[1] > OldSeq
          PROVE  o[2] \in Indexed' /\ rec'[o[2]].seq = o[1]
      <3>1. o \in order /\ o[2] # d
        BY <1>3, <1>5, <2>2
      <3>2. o[2] \in Indexed /\ rec[o[2]].seq = o[1]
        BY <2>2, <3>1 DEF Agreed, Keyed
      <3> QED  BY <1>2, <3>1, <3>2 DEF Indexed
    <2> QED  BY <2>1, <2>2 DEF Keyed
  <1>9. order' \subseteq order
    BY <1>3
  <1> QED  BY <1>6, <1>7, <1>8, <1>9 DEF Agreed

LEMMA FewerNumbered ==
    ASSUME Numbered, order' \subseteq order, seq' = seq
    PROVE  Numbered'
  BY DEF Numbered

(***************************************************************************)
(* The batch that adds a page                                              *)
(***************************************************************************)
LEMMA WrittenStored ==
    ASSUME Stored, NEW c \in Call, arg[c] \in Page, NEW m \in Nat, NEW n \in Nat,
           Written(c, m + 1), count' = n + 1, turns' = turns
    PROVE  Stored'
  <1>1. arg[c].doc \in Doc /\ arg[c].terms \in SUBSET Term /\ m + 1 \in Nat
    BY DEF Page
  <1>2. rec' \in [Doc -> Record \cup {None}]
    BY <1>1, RecordsAreSome DEF Stored, Written
  <1>3. order' \subseteq Nat \X Doc
    BY <1>1 DEF Stored, Written
  <1> QED  BY <1>1, <1>2, <1>3 DEF Stored, Written

LEMMA WrittenAgrees ==
    ASSUME Stored, Agreed, Numbered, NEW c \in Call, arg[c] \in Page,
           arg[c].doc \notin Indexed, Written(c, seq + 1), count' = count + 1
    PROVE  /\ Agreed' /\ Numbered'
           /\ arg[c].doc \in Indexed' /\ rec'[arg[c].doc].seq = seq'
  <1> DEFINE d == arg[c].doc
             new == [terms |-> arg[c].terms, seq |-> seq + 1]
             key == <<seq + 1, d>>
  <1>1. d \in Doc /\ arg[c].terms \in SUBSET Term /\ seq + 1 \in Nat /\ seq \in Nat
    BY DEF Page, Stored
  <1>2. new \in Record /\ new # None /\ new.terms = arg[c].terms /\ new.seq = seq + 1
    BY <1>1, RecordsAreSome
  <1>3. rec[d] = None
    BY <1>1 DEF Indexed
  <1>4. rec'[d] = new /\ \A x \in Doc : x # d => rec'[x] = rec[x]
    BY <1>1 DEF Written, Stored
  <1>5. seq' = seq + 1 /\ posted' = posted \cup (arg[c].terms \X {d})
    BY DEF Written
  <1>6. order' = order \cup {key}
    <2>1. \A o \in order : o[1] # seq + 1
      BY <1>1 DEF Numbered, Stored
    <2> QED  BY <2>1 DEF Written
  <1> HIDE DEF d, new
  <1>7. Indexed' = Indexed \cup {d}
    BY <1>1, <1>2, <1>4 DEF Indexed
  <1>8. IsFiniteSet(Indexed') /\ count' = Cardinality(Indexed')
    <2>1. d \notin Indexed
      BY <1>3 DEF Indexed
    <2> QED  BY <1>7, <2>1, FS_AddElement DEF Agreed
  <1>9. posted' = Postings(rec')
    <2>1. \A r, p : p \in Postings(r) <=>
             \E x \in Doc : r[x] # None /\ p \in r[x].terms \X {x}
      BY DEF Postings
    <2>2. \A p : p \in posted' <=> p \in Postings(rec')
      BY <1>1, <1>2, <1>3, <1>4, <1>5, <2>1 DEF Agreed
    <2> QED  BY <1>5, <2>2 DEF Postings
  <1>10. Keyed'
    <2>1. key \in order' /\ key[1] = seq + 1 /\ key[2] = d /\ rec'[d].seq = seq + 1
      BY <1>2, <1>4, <1>6
    <2>2. ASSUME NEW x \in Indexed'
          PROVE  \E o \in order' : o[2] = x /\ rec'[x].seq \in {0, o[1]}
      <3>1. CASE x = d
        BY <2>1, <3>1
      <3>2. CASE x # d
        <4>1. x \in Indexed /\ rec'[x] = rec[x]
          BY <1>4, <1>7, <3>2 DEF Indexed
        <4>2. PICK o \in order : o[2] = x /\ rec[x].seq \in {0, o[1]}
          BY <4>1 DEF Agreed, Keyed
        <4> QED  BY <1>6, <4>1, <4>2
      <3> QED  BY <3>1, <3>2
    <2>3. ASSUME NEW o \in order', o[1] > OldSeq
          PROVE  o[2] \in Indexed' /\ rec'[o[2]].seq = o[1]
      <3>1. CASE o = key
        BY <1>7, <2>1, <3>1
      <3>2. CASE o # key
        <4>1. o \in order
          BY <1>6, <3>2
        <4>2. o[2] \in Indexed /\ rec[o[2]].seq = o[1] /\ o[2] \in Doc
          BY <2>3, <4>1 DEF Agreed, Keyed, Stored
        <4>3. o[2] # d
          BY <1>3, <4>2 DEF Indexed
        <4> QED  BY <1>4, <1>7, <4>2, <4>3
      <3> QED  BY <3>1, <3>2
    <2> QED  BY <2>2, <2>3 DEF Keyed
  <1>11. Numbered'
    <2>1. \A o \in order : 1 <= o[1] /\ o[1] <= seq /\ o[1] \in Nat
      BY DEF Numbered, Stored
    <2>2. seq' >= OldSeq /\ key[1] = seq + 1
      BY <1>1, <1>5, IndexAssumption DEF Numbered
    <2> QED  BY <1>1, <1>5, <1>6, <2>1, <2>2 DEF Numbered
  <1>12. d \in Indexed' /\ rec'[d].seq = seq'
    BY <1>2, <1>4, <1>5, <1>7
  <1> QED  BY <1>8, <1>9, <1>10, <1>11, <1>12 DEF Agreed, d

(***************************************************************************)
(* The chain                                                               *)
(***************************************************************************)
LEMMA Phases ==
    ASSUME ChainShape, NEW c \in Call
    PROVE  /\ pc[c] \in {"look", "insert", "evict"} => c \in IndexCall /\ arg[c] \in Page
           /\ pc[c] \in {"insert", "evict"} => Running(c)
           /\ pc[c] \in {"look", "insert", "evict"} =>
                 arg[c].doc \in Doc /\ arg[c].terms \in SUBSET Term
  BY DEF ChainShape, Page

LEMMA SettlesShape ==
    ASSUME ChainShape, NEW c \in Call, Running(c), NEW step,
           step \in {"done", "gaveup", "failed", "bound"}, Settles(c, step)
    PROVE  ChainShape'
  <1>1. chain # <<>> /\ Head(chain) = c /\ chain \in Seq(Call)
    BY DEF Running, ChainShape
  <1>2. chain' \in Seq(Call)
    BY <1>1 DEF Settles
  <1>3. \A x \in Call : pc'[x] = (IF x = c THEN step ELSE pc[x])
    BY DEF Settles, ChainShape
  <1>4. \A x \in Call : pc'[x] \notin {"insert", "evict"}
    <2>1. \A x \in Call : x # c => pc[x] \notin {"insert", "evict"}
      BY <1>1, Phases DEF Running
    <2> QED  BY <1>3, <2>1
  <1>5. \A x \in Call : x # c => arg'[x] = arg[x]
    BY DEF Settles, ChainShape
  <1>6. pc' \in [Call -> Phase] /\ DOMAIN arg' = Call
    BY DEF Settles, ChainShape, Phase, Settled
  <1> QED  BY <1>2, <1>3, <1>4, <1>5, <1>6 DEF ChainShape

\* The running call goes on to its next batch.
LEMMA GoesOnShape ==
    ASSUME ChainShape, NEW c \in Call, Running(c), NEW step,
           step \in {"insert", "evict"}, pc[c] \in {"look", "insert"}, GoesOn(c, step)
    PROVE  ChainShape'
  <1>1. \A x \in Call : pc'[x] = (IF x = c THEN step ELSE pc[x])
    BY DEF GoesOn, ChainShape
  <1>2. chain' = chain /\ arg' = arg /\ pc' \in [Call -> Phase]
    BY DEF GoesOn, ChainShape, Phase, Settled
  <1> QED  BY <1>1, <1>2 DEF ChainShape, Running

LEMMA EnqueueShape ==
    ASSUME ChainShape, NEW c \in Call, NEW step, Enqueue(c, step),
           step \in {"look", "binding", "epoch", "revoke"}, pc[c] \notin {"insert", "evict"},
           DOMAIN arg' = Call, \A x \in Call : x # c => arg'[x] = arg[x],
           step = "look" => c \in IndexCall /\ arg'[c] \in Page
    PROVE  ChainShape'
  <1>1. \A x \in Call : pc'[x] = (IF x = c THEN step ELSE pc[x])
    BY DEF Enqueue, ChainShape
  <1>2. chain' \in Seq(Call) /\ pc' \in [Call -> Phase]
    BY DEF Enqueue, ChainShape, Phase, Settled
  <1>3. ASSUME NEW x \in Call, Running(x) PROVE Running(x)'
    BY <1>3 DEF Enqueue, ChainShape, Running
  <1>4. \A x \in Call : pc'[x] \in {"insert", "evict"} => Running(x)'
    BY <1>1, <1>3 DEF ChainShape
  <1> QED  BY <1>1, <1>2, <1>4 DEF ChainShape

\* A step of a call that touches neither the chain nor a page.
LEMMA AsideShape ==
    ASSUME ChainShape, NEW c \in Call, pc[c] = "idle", NEW step,
           step \in {"read", "done"},
           pc' = [pc EXCEPT ![c] = step], UNCHANGED chain,
           DOMAIN arg' = Call, \A x \in Call : x # c => arg'[x] = arg[x]
    PROVE  ChainShape'
  <1>1. \A x \in Call : pc'[x] = (IF x = c THEN step ELSE pc[x])
    BY DEF ChainShape
  <1>2. pc' \in [Call -> Phase]
    BY DEF ChainShape, Phase, Settled
  <1> QED  BY <1>1, <1>2 DEF ChainShape, Running

\* A step that leaves the index alone and takes no batch further.
LEMMA IndexKept ==
    ASSUME IInv, ChainShape', UNCHANGED docVars, turns' \in Nat, misread' = misread,
           \A c \in Call : pc'[c] \in {"insert", "evict"} =>
               pc'[c] = pc[c] /\ arg'[c] = arg[c],
           (\A c \in Call : pc'[c] \notin {"evict", "gaveup", "failed"}) =>
               \/ misread \/ count <= MaxDocs
               \/ \A c \in Call : pc[c] \notin {"evict", "gaveup", "failed"}
    PROVE  IInv'
  <1>1. Stored' /\ (Agreed <=> Agreed') /\ (Numbered <=> Numbered') /\ Indexed' = Indexed
    BY DEF IInv, docVars, Stored, Agreed, Keyed, Numbered, Indexed
  <1>2. ASSUME ~misread PROVE Placed' /\ Capped'
    BY <1>1, <1>2 DEF IInv, docVars, Placed, Capped
  <1> QED  BY <1>1, <1>2 DEF IInv

\* After a failed read nothing but the types is claimed.
LEMMA Misread ==
    ASSUME ChainShape', Stored', misread' = TRUE
    PROVE  IInv'
  BY DEF IInv
-----------------------------------------------------------------------------
LEMMA ReadsAre ==
    ASSUME NEW value, NEW default, NEW x \in Reads(value, default)
    PROVE  x = value \/ x = default
  BY DEF Reads

LEMMA MisreadsAre ==
    ASSUME misread \in BOOLEAN, NEW wrong \in BOOLEAN, Misreads(wrong)
    PROVE  /\ misread' \in BOOLEAN
           /\ misread' = FALSE => misread = FALSE /\ ~wrong
  BY DEF Misreads

\* Nobody else is between its batches.
LEMMA OnlyRunning ==
    ASSUME ChainShape, NEW c \in Call, Running(c), NEW x \in Call, x # c
    PROVE  pc[x] \notin {"insert", "evict"}
  BY Phases DEF Running

LEMMA LookIInv ==
    ASSUME IInv, NEW c \in Call, Look(c)
    PROVE  IInv'
  <1> DEFINE d == arg[c].doc
  <1>0. ChainShape /\ Stored /\ misread \in BOOLEAN
    BY DEF IInv
  <1>1. Running(c) /\ pc[c] = "look" /\ d \in Doc
    BY <1>0, Phases DEF Look
  <1>2. CASE arg[c].terms = {}
    <2>1. Settles(c, "done") /\ UNCHANGED docVars /\ misread' = misread
      BY <1>2 DEF Look
    <2>2. ChainShape'
      BY <1>0, <1>1, <2>1, SettlesShape
    <2>3. \A x \in Call : pc'[x] = (IF x = c THEN "done" ELSE pc[x])
      BY <1>0, <2>1 DEF Settles, ChainShape
    <2>4. \A x \in Call : x # c => pc[x] \notin {"insert", "evict"}
      BY <1>0, <1>1, OnlyRunning
    <2>5. turns' \in Nat
      BY <2>1 DEF Settles
    <2> QED  BY <1>1, <2>1, <2>2, <2>3, <2>4, <2>5, IndexKept
  <1>3. CASE arg[c].terms # {}
    <2>1. PICK found \in Reads(rec[d], None), n \in Reads(count, 0) :
             /\ IF found = None
                THEN UNCHANGED docVars
                ELSE RemoveByRecord(d, n) /\ UNCHANGED seq
             /\ Misreads(found # rec[d] \/ n # count)
             /\ GoesOn(c, "insert")
      BY <1>3 DEF Look
    <2>2. ChainShape'
      BY <1>0, <1>1, <2>1, GoesOnShape
    <2>3. n \in Nat /\ (found # None => rec[d] # None) /\ turns' = turns
      BY <1>0, <2>1, ReadsAre DEF Stored, GoesOn
    <2>4. Stored'
      <3>1. CASE found = None
        BY <1>0, <2>1, <2>3, <3>1 DEF docVars, Stored
      <3>2. CASE found # None
        <4>1. turns' \in Nat
          BY <1>0, <2>3 DEF Stored
        <4> QED  BY <1>0, <1>1, <2>1, <2>3, <3>2, <4>1, RemovalStored
      <3> QED  BY <3>1, <3>2
    <2>5. misread' \in BOOLEAN /\ (misread' = FALSE => misread = FALSE /\ found = rec[d] /\ n = count)
      BY <1>0, <2>1, MisreadsAre
    <2>6. \A x \in Call : pc'[x] = (IF x = c THEN "insert" ELSE pc[x])
      BY <1>0, <2>1 DEF GoesOn, ChainShape
    <2>7. arg' = arg
      BY <2>1 DEF GoesOn
    <2>8. \A x \in Call : x # c => pc[x] \notin {"insert", "evict"}
      BY <1>0, <1>1, OnlyRunning
    <2>9. CASE misread' = FALSE
      <3>1. Agreed /\ Numbered /\ Capped /\ found = rec[d] /\ n = count
        BY <2>5, <2>9 DEF IInv
      <3>2. Agreed' /\ Numbered' /\ count' <= count /\ d \notin Indexed'
        <4>1. CASE found = None
          <5>1. UNCHANGED docVars /\ rec[d] = None
            BY <2>1, <3>1, <4>1
          <5> HIDE DEF d
          <5> QED  BY <1>0, <3>1, <5>1 DEF docVars, Agreed, Keyed, Numbered, Indexed, Stored
        <4>2. CASE found # None
          <5>1. d \in Indexed /\ RemoveByRecord(d, count) /\ seq' = seq
            BY <1>1, <2>1, <3>1, <4>2 DEF Indexed
          <5>2. Agreed' /\ count' = count - 1 /\ order' \subseteq order
            BY <1>0, <3>1, <5>1, RemovalAgrees
          <5>3. d \notin Indexed'
            BY <1>0, <5>1, RemovalOut
          <5> QED  BY <1>0, <3>1, <5>1, <5>2, <5>3, FewerNumbered DEF Stored
        <4> QED  BY <4>1, <4>2
      <3>3. Placed'
        BY <2>6, <2>7, <2>8, <3>2 DEF Placed
      <3>4. Capped'
        <4>1. ASSUME \A x \in Call : pc'[x] \notin {"evict", "gaveup", "failed"}
              PROVE  count' <= MaxDocs
          <5>1. \A x \in Call : pc[x] \notin {"evict", "gaveup", "failed"}
            BY <1>1, <2>6, <4>1
          <5> QED  BY <1>0, <2>4, <3>1, <3>2, <5>1, IndexAssumption DEF Capped, Stored
        <4> QED  BY <4>1 DEF Capped
      <3> QED  BY <2>2, <2>4, <2>5, <3>2, <3>3, <3>4 DEF IInv
    <2> QED  BY <2>2, <2>4, <2>5, <2>9, Misread
  <1> QED  BY <1>2, <1>3

LEMMA InsertIInv ==
    ASSUME IInv, NEW c \in Call, Insert(c)
    PROVE  IInv'
  <1> DEFINE d == arg[c].doc
  <1>0. ChainShape /\ Stored /\ misread \in BOOLEAN
    BY DEF IInv
  <1>1. Running(c) /\ pc[c] = "insert" /\ arg[c] \in Page
    BY <1>0, Phases DEF Insert
  <1>2. PICK m \in Reads(seq, 0), n \in Reads(count, 0) :
          /\ Written(c, m + 1)
          /\ count' = n + 1
          /\ Misreads(m # seq \/ n # count)
          /\ GoesOn(c, "evict")
    BY DEF Insert
  <1>3. ChainShape'
    BY <1>0, <1>1, <1>2, GoesOnShape
  <1>4. m \in Nat /\ n \in Nat /\ turns' = turns
    BY <1>0, <1>2, ReadsAre DEF Stored, GoesOn
  <1>5. Stored'
    BY <1>0, <1>1, <1>2, <1>4, WrittenStored
  <1>6. misread' \in BOOLEAN /\ (misread' = FALSE => misread = FALSE /\ m = seq /\ n = count)
    BY <1>0, <1>2, MisreadsAre
  <1>7. \A x \in Call : pc'[x] = (IF x = c THEN "evict" ELSE pc[x])
    BY <1>0, <1>2 DEF GoesOn, ChainShape
  <1>8. arg' = arg
    BY <1>2 DEF GoesOn
  <1>9. CASE misread' = FALSE
    <2>1. Agreed /\ Numbered /\ Placed /\ m = seq /\ n = count
      BY <1>6, <1>9 DEF IInv
    <2>2. d \notin Indexed
      BY <1>1, <2>1 DEF Placed
    <2>3. Agreed' /\ Numbered' /\ d \in Indexed' /\ rec'[d].seq = seq'
      BY <1>0, <1>1, <1>2, <2>1, <2>2, WrittenAgrees
    <2>4. \A x \in Call : x # c => pc[x] \notin {"insert", "evict"}
      BY <1>0, <1>1, OnlyRunning
    <2>5. Placed'
      BY <1>7, <1>8, <2>3, <2>4 DEF Placed
    <2>6. Capped'
      BY <1>7 DEF Capped
    <2> QED  BY <1>3, <1>5, <1>6, <2>3, <2>5, <2>6 DEF IInv
  <1> QED  BY <1>3, <1>5, <1>6, <1>9, Misread

\* Eviction takes a page with its key, or a key without a page.
LEMMA EvictOneIInv ==
    ASSUME IInv, NEW c \in Call, EvictOne(c)
    PROVE  IInv'
  <1> DEFINE d == Oldest[2]
  <1>0. ChainShape /\ Stored /\ misread \in BOOLEAN
    BY DEF IInv
  <1>1. /\ Running(c) /\ pc[c] = "evict" /\ count > MaxDocs /\ order # {}
        /\ UNCHANGED <<seq, chain, pc, arg>>
    BY DEF EvictOne, bindVars
  <1>t. turns' \in Nat
    BY <1>0 DEF EvictOne, Stored
  <1>2. PICK found \in Reads(rec[d], None), n \in Reads(count, 0) :
             /\ IF found = None
                THEN order' = order \ {Oldest} /\ UNCHANGED <<rec, posted, count>>
                ELSE RemoveByRecord(d, n)
             /\ Misreads(found # rec[d] \/ n # count)
    BY DEF EvictOne
  <1>3. Oldest \in order /\ \A p \in order : Oldest[1] <= p[1]
    BY <1>0, <1>1, OldestIsLeast
  <1>4. Oldest \in Nat \X Doc /\ d \in Doc
    BY <1>0, <1>3 DEF Stored
  <1> HIDE DEF d
  <1>5. ChainShape'
    BY <1>0, <1>1 DEF ChainShape, Running
  <1>6. n \in Nat /\ (found # None => rec[d] # None /\ found = rec[d])
    BY <1>0, <1>2, ReadsAre DEF Stored
  <1>7. Stored'
    <2>1. CASE found = None
      BY <1>0, <1>1, <1>t, <1>2, <2>1 DEF Stored
    <2>2. CASE found # None
      BY <1>0, <1>1, <1>t, <1>2, <1>4, <1>6, <2>2, RemovalStored
    <2> QED  BY <2>1, <2>2
  <1>8. misread' \in BOOLEAN /\ (misread' = FALSE => misread = FALSE /\ found = rec[d] /\ n = count)
    BY <1>0, <1>2, MisreadsAre
  <1>9. CASE misread' = FALSE
    <2>1. Agreed /\ Numbered /\ Placed /\ found = rec[d] /\ n = count
      BY <1>8, <1>9 DEF IInv
    <2>2. Capped'
      BY <1>1 DEF Capped
    <2>3. CASE found = None
      <3>1. d \notin Indexed
        BY <2>1, <2>3 DEF Indexed
      <3>2. order' = order \ {Oldest} /\ UNCHANGED <<rec, posted, count, seq>>
        BY <1>1, <1>2, <2>3
      <3>3. Keyed'
        <4>1. \A o \in order : o[2] \in Indexed => o \in order'
          BY <3>1, <3>2 DEF d
        <4>2. Indexed' = Indexed /\ order' \subseteq order
          BY <3>2 DEF Indexed
        <4> QED  BY <2>1, <3>2, <4>1, <4>2 DEF Agreed, Keyed
      <3>4. Agreed'
        BY <2>1, <3>2, <3>3 DEF Agreed, Indexed
      <3>5. Numbered'
        BY <2>1, <3>2, FewerNumbered
      <3>6. Placed'
        BY <1>1, <2>1, <3>2 DEF Placed, Indexed
      <3> QED  BY <1>5, <1>7, <1>8, <2>2, <3>4, <3>5, <3>6 DEF IInv
    <2>4. CASE found # None
      <3>1. d \in Indexed /\ RemoveByRecord(d, count) /\ seq' = seq
        BY <1>1, <1>2, <1>4, <1>6, <2>1, <2>4 DEF Indexed
      <3>2. Agreed' /\ order' \subseteq order
        BY <1>0, <2>1, <3>1, RemovalAgrees
      <3>3. Numbered'
        BY <2>1, <3>1, <3>2, FewerNumbered
      <3>4. /\ Indexed' = Indexed \ {d}
            /\ \A x \in Doc : x # d => rec'[x] = rec[x]
        BY <1>0, <3>1, RemovalOut
      <3>5. \A x \in Indexed' : x \in Indexed /\ rec'[x] = rec[x]
        BY <3>4 DEF Indexed
      <3>6. Placed'
        BY <1>1, <2>1, <3>1, <3>4, <3>5 DEF Placed
      <3> QED  BY <1>5, <1>7, <1>8, <2>2, <3>2, <3>3, <3>6 DEF IInv
    <2> QED  BY <2>3, <2>4
  <1> QED  BY <1>5, <1>7, <1>8, <1>9, Misread

LEMMA EvictEndsIInv ==
    ASSUME IInv, NEW c \in Call, EvictEnds(c)
    PROVE  IInv'
  <1>0. ChainShape /\ Stored /\ misread \in BOOLEAN
    BY DEF IInv
  <1>1. Running(c) /\ pc[c] = "evict" /\ UNCHANGED docVars
    BY DEF EvictEnds, disk
  <1>2. PICK n \in Reads(count, 0), step \in {"done", "gaveup"} :
          /\ step = (IF n <= MaxDocs \/ order = {} THEN "done" ELSE "gaveup")
          /\ Settles(c, step) /\ Misreads(n # count)
    BY DEF EvictEnds
  <1>3. ChainShape'
    BY <1>0, <1>1, <1>2, SettlesShape
  <1>t. turns' \in Nat
    BY <1>2 DEF Settles
  <1>4. Stored'
    BY <1>0, <1>1, <1>t DEF Stored, docVars
  <1>5. misread' \in BOOLEAN /\ (misread' = FALSE => misread = FALSE /\ n = count)
    BY <1>0, <1>2, MisreadsAre
  <1>6. CASE misread' = FALSE
    <2>1. Agreed /\ n = count /\ misread' = misread
      BY <1>5, <1>6 DEF IInv
    <2>2. count <= MaxDocs \/ step = "gaveup"
      <3>1. CASE order = {}
        <4>1. Indexed = {}
          BY <2>1, <3>1 DEF Agreed, Keyed
        <4> QED  BY <2>1, <4>1, FS_EmptySet, IndexAssumption DEF Agreed
      <3> QED  BY <1>2, <2>1, <3>1
    <2>3. \A x \in Call : x # c => pc[x] \notin {"insert", "evict"}
      BY <1>0, <1>1, OnlyRunning
    <2>4. \A x \in Call : pc'[x] = (IF x = c THEN step ELSE pc[x])
      BY <1>0, <1>2 DEF Settles, ChainShape
    <2>5. \A x \in Call : pc'[x] \notin {"insert", "evict"}
      BY <1>2, <2>3, <2>4
    <2>6. (\A x \in Call : pc'[x] \notin {"evict", "gaveup", "failed"}) => count <= MaxDocs
      BY <2>2, <2>4
    <2> QED  BY <1>1, <1>3, <1>t, <2>1, <2>5, <2>6, IndexKept
  <1> QED  BY <1>3, <1>4, <1>5, <1>6, Misread
-----------------------------------------------------------------------------
(* The steps that leave the index alone.                                   *)

LEMMA FailsIInv ==
    ASSUME IInv, NEW c \in Call, Fails(c)
    PROVE  IInv'
  <1>0. ChainShape
    BY DEF IInv
  <1>1. /\ Running(c) /\ Settles(c, "failed") /\ UNCHANGED docVars /\ misread' = misread
        /\ turns' \in Nat
    BY DEF Fails, disk, Settles
  <1>2. ChainShape'
    BY <1>0, <1>1, SettlesShape
  <1>3. \A x \in Call : pc'[x] = (IF x = c THEN "failed" ELSE pc[x])
    BY <1>0, <1>1 DEF Settles, ChainShape
  <1>4. \A x \in Call : x # c => pc[x] \notin {"insert", "evict"}
    BY <1>0, <1>1, OnlyRunning
  <1>5. \A x \in Call : pc'[x] \notin {"insert", "evict"}
    BY <1>3, <1>4
  <1> QED  BY <1>1, <1>2, <1>3, <1>5, IndexKept

LEMMA IndexDocIInv ==
    ASSUME IInv, NEW c \in Call, NEW d \in Doc, NEW ts \in Content, IndexDoc(c, d, ts)
    PROVE  IInv'
  <1>0. ChainShape /\ turns \in Nat
    BY DEF IInv, Stored
  <1>1. /\ c \in IndexCall /\ pc[c] = "idle" /\ Enqueue(c, "look")
        /\ arg' = [arg EXCEPT ![c] = [doc |-> d, terms |-> ts]]
        /\ UNCHANGED docVars /\ misread' = misread /\ turns' = turns
    BY DEF IndexDoc, disk, Enqueue
  <1>2. [doc |-> d, terms |-> ts] \in Page
    BY IndexAssumption DEF Page
  <1>3. DOMAIN arg' = Call /\ arg'[c] \in Page /\ \A x \in Call : x # c => arg'[x] = arg[x]
    BY <1>0, <1>1, <1>2 DEF ChainShape
  <1>4. ChainShape'
    BY <1>0, <1>1, <1>3, EnqueueShape
  <1>5. \A x \in Call : pc'[x] = (IF x = c THEN "look" ELSE pc[x])
    BY <1>0, <1>1 DEF Enqueue, ChainShape
  <1> QED  BY <1>0, <1>1, <1>3, <1>4, <1>5, IndexKept

LEMMA BindReadsIInv ==
    ASSUME IInv, NEW c \in Call, BindReads(c) \/ RevokeReads(c)
    PROVE  IInv'
  <1>0. ChainShape /\ Stored /\ misread \in BOOLEAN
    BY DEF IInv
  <1>1. PICK step \in {"read", "done"} :
           /\ pc[c] = "idle" /\ pc' = [pc EXCEPT ![c] = step]
           /\ \E v : arg' = [arg EXCEPT ![c] = v]
           /\ UNCHANGED chain /\ UNCHANGED docVars /\ turns' = turns
    BY DEF BindReads, RevokeReads, disk
  <1>2. \E wrong \in BOOLEAN : Misreads(wrong)
    BY DEF BindReads, RevokeReads
  <1>3. misread' \in BOOLEAN /\ (misread' = FALSE => misread = FALSE)
    BY <1>0, <1>2, MisreadsAre
  <1>4. DOMAIN arg' = Call /\ \A x \in Call : x # c => arg'[x] = arg[x]
    BY <1>0, <1>1 DEF ChainShape
  <1>5. ChainShape'
    BY <1>0, <1>1, <1>4, AsideShape
  <1>6. \A x \in Call : pc'[x] = (IF x = c THEN step ELSE pc[x])
    BY <1>0, <1>1 DEF ChainShape
  <1>7. CASE misread' = FALSE
    <2>1. misread' = misread /\ turns' \in Nat
      BY <1>0, <1>1, <1>3, <1>7 DEF Stored
    <2> QED  BY <1>1, <1>4, <1>5, <1>6, <2>1, IndexKept
  <1>8. Stored'
    BY <1>0, <1>1 DEF Stored, docVars
  <1> QED  BY <1>3, <1>5, <1>7, <1>8, Misread

LEMMA QueuesIInv ==
    ASSUME IInv, NEW c \in Call, Queues(c)
    PROVE  IInv'
  <1>0. ChainShape /\ turns \in Nat
    BY DEF IInv, Stored
  <1>1. PICK step \in {"binding", "epoch", "revoke"} :
           pc[c] \in {"read", "bound"} /\ Enqueue(c, step)
    BY DEF Queues
  <1>2. UNCHANGED docVars /\ arg' = arg /\ misread' = misread /\ turns' = turns
    BY <1>1 DEF Queues, disk, Enqueue
  <1>3. ChainShape'
    <2>1. DOMAIN arg' = Call
      BY <1>0, <1>2 DEF ChainShape
    <2> QED  BY <1>0, <1>1, <1>2, <2>1, EnqueueShape
  <1>4. \A x \in Call : pc'[x] = (IF x = c THEN step ELSE pc[x])
    BY <1>0, <1>1 DEF Enqueue, ChainShape
  <1> QED  BY <1>0, <1>1, <1>2, <1>3, <1>4, IndexKept

LEMMA PutsIInv ==
    ASSUME IInv, NEW c \in Call, Puts(c)
    PROVE  IInv'
  <1>0. ChainShape
    BY DEF IInv
  <1>1. PICK step \in {"bound", "done"} :
           pc[c] \in {"binding", "epoch", "revoke"} /\ Settles(c, step)
    BY DEF Puts
  <1>2. Running(c) /\ UNCHANGED docVars /\ misread' = misread /\ turns' \in Nat
    BY <1>1 DEF Puts, Settles
  <1>3. ChainShape'
    BY <1>0, <1>1, <1>2, SettlesShape
  <1>4. \A x \in Call : pc'[x] = (IF x = c THEN step ELSE pc[x])
    BY <1>0, <1>1 DEF Settles, ChainShape
  <1>5. \A x \in Call : x # c => pc[x] \notin {"insert", "evict"}
    BY <1>0, <1>2, OnlyRunning
  <1>6. \A x \in Call : pc'[x] \notin {"insert", "evict"}
    BY <1>4, <1>5
  <1> QED  BY <1>1, <1>2, <1>3, <1>4, <1>6, IndexKept

LEMMA CrashIInv ==
    ASSUME IInv, Crash
    PROVE  IInv'
  <1>0. ChainShape
    BY DEF IInv
  <1>1. /\ chain' = <<>> /\ UNCHANGED docVars /\ misread' = misread /\ turns' \in Nat
        /\ pc' = [x \in Call |-> IF pc[x] \in Settled THEN pc[x] ELSE "failed"]
        /\ arg' = [x \in Call |-> IF x \in IndexCall THEN None ELSE arg[x]]
    BY DEF Crash, disk
  <1>2. \A x \in Call : pc'[x] \in Settled /\ (pc'[x] # "failed" => pc'[x] = pc[x])
    BY <1>1 DEF Settled
  <1>3. ChainShape'
    <2>1. pc' \in [Call -> Phase] /\ DOMAIN arg' = Call /\ chain' \in Seq(Call)
      BY <1>0, <1>1 DEF ChainShape, Phase, Settled
    <2> QED  BY <1>2, <2>1 DEF ChainShape, Settled
  <1> QED  BY <1>1, <1>2, <1>3, IndexKept DEF Settled
-----------------------------------------------------------------------------
LEMMA InitIInv ==
    ASSUME Init
    PROVE  IInv
  <1>1. PICK kept \in SUBSET Doc, key \in [1 .. OldSeq -> Doc \cup {None}] :
          \E num \in [kept -> 0 .. OldSeq] :
             /\ IsFiniteSet(kept) /\ Cardinality(kept) <= MaxDocs
             /\ \A d \in kept : \E n \in 1 .. OldSeq :
                   /\ key[n] = d /\ num[d] \in {0, n}
                   /\ \A m \in 1 .. OldSeq : key[m] = d => m <= n
             /\ rec = [d \in Doc |-> IF d \in kept
                                     THEN [terms |-> Term, seq |-> num[d]] ELSE None]
             /\ posted = Term \X kept
             /\ order = {o \in (1 .. OldSeq) \X Doc : key[o[1]] = o[2]}
             /\ seq = OldSeq /\ count = Cardinality(kept)
    BY DEF Init
  <1>2. PICK num \in [kept -> 0 .. OldSeq] :
             /\ IsFiniteSet(kept) /\ Cardinality(kept) <= MaxDocs
             /\ \A d \in kept : \E n \in 1 .. OldSeq : key[n] = d /\ num[d] \in {0, n}
             /\ rec = [d \in Doc |-> IF d \in kept
                                     THEN [terms |-> Term, seq |-> num[d]] ELSE None]
             /\ posted = Term \X kept
             /\ order = {o \in (1 .. OldSeq) \X Doc : key[o[1]] = o[2]}
             /\ seq = OldSeq /\ count = Cardinality(kept)
    BY <1>1
  <1>3. Cardinality(kept) \in Nat /\ OldSeq \in Nat
    BY <1>2, FS_CardinalityType, IndexAssumption
  <1>4. \A d \in kept : num[d] \in Nat
    BY <1>3
  <1>5. /\ \A d \in kept : /\ rec[d] = [terms |-> Term, seq |-> num[d]]
                           /\ rec[d] \in Record /\ rec[d] # None
                           /\ rec[d].terms = Term /\ rec[d].seq = num[d]
        /\ \A d \in Doc : d \notin kept => rec[d] = None
    <2>1. \A d \in kept : d \in Doc /\ rec[d] = [terms |-> Term, seq |-> num[d]]
      BY <1>2
    <2> QED  BY <1>2, <1>4, <2>1, RecordsAreSome
  <1>6. Indexed = kept
    BY <1>5 DEF Indexed
  <1>o. \A o \in order : o \in (1 .. OldSeq) \X Doc /\ key[o[1]] = o[2]
    BY <1>2
  <1>7. Stored
    <2>1. rec \in [Doc -> Record \cup {None}]
      BY <1>2, <1>5
    <2>2. order \subseteq Nat \X Doc
      BY <1>3, <1>o
    <2>3. turns \in Nat
      BY DEF Init
    <2> QED  BY <1>2, <1>3, <2>1, <2>2, <2>3 DEF Stored
  <1>8. Agreed
    <2>1. posted = Postings(rec)
      <3>1. \A p : p \in Postings(rec) <=>
               \E x \in Doc : rec[x] # None /\ p \in rec[x].terms \X {x}
        BY DEF Postings
      <3>2. \A p : p \in Postings(rec) <=> \E x \in kept : p \in Term \X {x}
        BY <1>5, <3>1
      <3>3. \A p : p \in posted <=> \E x \in kept : p \in Term \X {x}
        BY <1>2
      <3> QED  BY <1>2, <3>2, <3>3 DEF Postings
    <2>2. Keyed
      <3>1. ASSUME NEW d \in Indexed
            PROVE  \E o \in order : o[2] = d /\ rec[d].seq \in {0, o[1]}
        <4>1. PICK n \in 1 .. OldSeq : key[n] = d /\ num[d] \in {0, n}
          BY <1>2, <1>6
        <4>2. <<n, d>> \in order
          BY <1>2, <1>6, <4>1
        <4>3. rec[d].seq = num[d]
          BY <1>5, <1>6
        <4> QED  BY <4>1, <4>2, <4>3
      <3>2. \A o \in order : ~(o[1] > OldSeq)
        BY <1>3, <1>o
      <3> QED  BY <3>1, <3>2 DEF Keyed
    <2> QED  BY <1>2, <1>6, <2>1, <2>2 DEF Agreed
  <1>9. Numbered
    <2>1. \A o, p \in order : o[1] = p[1] => o = p
      BY <1>o
    <2> QED  BY <1>2, <1>3, <1>o, <2>1 DEF Numbered
  <1>10. ChainShape /\ Placed /\ misread = FALSE
    <2>1. /\ chain = <<>> /\ pc = [c \in Call |-> "idle"]
          /\ arg = [c \in Call |-> None] /\ misread = FALSE
      BY DEF Init
    <2>2. chain \in Seq(Call) /\ \A c \in Call : pc[c] = "idle"
      BY <2>1
    <2> QED  BY <2>1, <2>2 DEF ChainShape, Placed, Phase, Settled
  <1>11. Capped
    BY <1>2 DEF Capped
  <1> QED  BY <1>7, <1>8, <1>9, <1>10, <1>11 DEF IInv

LEMMA NextIInv ==
    ASSUME IInv, [Next]_vars
    PROVE  IInv'
  <1>1. CASE UNCHANGED vars
    BY <1>1 DEF vars, disk, docVars, IInv, ChainShape, Stored, Agreed, Keyed, Numbered,
               Placed, Capped, Indexed, Running
  <1>2. CASE Next
    BY <1>2, LookIInv, InsertIInv, EvictOneIInv, EvictEndsIInv, FailsIInv,
       IndexDocIInv, BindReadsIInv, QueuesIInv, PutsIInv, CrashIInv DEF Next, CallStep
  <1> QED  BY <1>1, <1>2

LEMMA IndexAlways == Spec => []IInv
  BY InitIInv, NextIInv, PTL DEF Spec

\* The index is whole whatever write fails and wherever the process dies, for
\* any cap and any number of pages, calls and keys of an older version: the
\* counter and the postings are those of the records, eviction finds every
\* record by a key, every key of this version has its record, and the cap is
\* exceeded only where an eviction is due, was cut short, or gave up
\* (personal-index.cjs:64-122).
THEOREM IndexCorrect == Spec => []IndexWhole
  <1>1. ASSUME IInv PROVE IndexWhole
    <2>1. CASE misread = FALSE
      <3>1. Agreed /\ Capped
        BY <1>1, <2>1 DEF IInv
      <3> QED  BY <3>1 DEF IndexWhole, Agreed, Keyed, Capped, Postings, Indexed
    <2> QED  BY <1>1, <2>1 DEF IInv, IndexWhole
  <1> QED  BY <1>1, IndexAlways, PTL

\* Only the running call's own eviction takes a page out behind its second batch.
LEMMA OnlyEviction ==
    ASSUME IInv, [Next]_vars, NEW c \in Call, Running(c), pc[c] = "evict",
           rec' # rec
    PROVE  EvictOne(c)
  <1>0. ChainShape
    BY DEF IInv
  <1>1. \A x \in Call : Running(x) => x = c
    BY DEF Running
  <1>2. CASE UNCHANGED vars
    BY <1>2 DEF vars, disk, docVars
  <1>3. ASSUME NEW x \in Call, CallStep(x) PROVE EvictOne(c)
    <2>1. CASE Look(x) \/ Insert(x)
      BY <1>1, <2>1 DEF Look, Insert
    <2>2. CASE EvictOne(x)
      BY <1>1, <2>2 DEF EvictOne
    <2>3. CASE EvictEnds(x) \/ Queues(x) \/ Puts(x)
      BY <2>3 DEF EvictEnds, Queues, Puts, disk, docVars
    <2> QED  BY <1>3, <2>1, <2>2, <2>3 DEF CallStep
  <1>4. ASSUME NEW x \in Call, Fails(x) \/ BindReads(x) \/ RevokeReads(x)
        PROVE  FALSE
    BY <1>4 DEF Fails, BindReads, RevokeReads, disk, docVars
  <1>5. ASSUME NEW x \in Call, NEW d \in Doc, NEW ts \in Content, IndexDoc(x, d, ts)
        PROVE  FALSE
    BY <1>5 DEF IndexDoc, disk, docVars
  <1>6. CASE Crash
    BY <1>6 DEF Crash, disk, docVars
  <1> QED  BY <1>2, <1>3, <1>4, <1>5, <1>6 DEF Next

\* With room for a page at all, the page whose indexing runs is taken only by an
\* older key of the same page.
LEMMA FreshStep ==
    ASSUME IInv, [Next]_vars, NEW c \in IndexCall, Running(c), pc[c] = "evict",
           arg[c].doc \in Indexed, arg[c].doc \notin Indexed', ~misread'
    PROVE  MaxDocs = 0 \/ \E o \in order : o[2] = arg[c].doc /\ o[1] < rec[arg[c].doc].seq
  <1> DEFINE d == arg[c].doc
             old == Oldest
  <1>0. ChainShape /\ Stored /\ misread \in BOOLEAN /\ c \in Call
    BY DEF IInv, Call
  <1>1. EvictOne(c)
    <2>1. rec' # rec
      BY DEF Indexed
    <2> QED  BY <1>0, <2>1, OnlyEviction
  <1>2. PICK found \in Reads(rec[old[2]], None), n \in Reads(count, 0) :
             /\ IF found = None
                THEN order' = order \ {old} /\ UNCHANGED <<rec, posted, count>>
                ELSE RemoveByRecord(old[2], n)
             /\ Misreads(found # rec[old[2]] \/ n # count)
    BY <1>1 DEF EvictOne
  <1>3. count > MaxDocs /\ old \in order /\ \A p \in order : old[1] <= p[1]
    BY <1>0, <1>1, OldestIsLeast DEF EvictOne
  <1>4. misread = FALSE /\ Agreed /\ Numbered /\ Placed
    BY <1>0, <1>2, MisreadsAre DEF IInv, Misreads
  <1>5. old \in Nat \X Doc /\ d \in Doc /\ rec[d].seq = seq /\ seq \in Nat /\ count \in Nat
    BY <1>0, <1>3, <1>4, Phases DEF Stored, Placed
  <1> HIDE DEF old
  <1>6. old[2] = d
    <2>1. SUFFICES ASSUME old[2] # d PROVE rec'[d] = rec[d]
      BY DEF Indexed
    <2>2. CASE found = None
      BY <1>2, <2>2
    <2>3. CASE found # None
      BY <1>0, <1>2, <1>5, <2>1, <2>3 DEF RemoveByRecord, Stored
    <2> QED  BY <2>2, <2>3
  <1>7. CASE old[1] < seq
    BY <1>3, <1>5, <1>6, <1>7
  <1>8. CASE old[1] = seq
    <2>1. \A p \in order : p = old
      BY <1>0, <1>3, <1>4, <1>5, <1>8 DEF Numbered, Stored
    <2>2. Indexed = {d}
      BY <1>4, <1>6, <2>1 DEF Agreed, Keyed
    <2>3. count = 1
      BY <1>4, <2>2, FS_Singleton DEF Agreed
    <2> QED  BY <1>3, <2>3, IndexAssumption
  <1>9. old[1] <= seq /\ old[1] \in Nat
    BY <1>3, <1>4, <1>5 DEF Numbered
  <1> QED  BY <1>5, <1>7, <1>8, <1>9

\* As long as no read has failed and the cap is not 0, the indexing of a page
\* ends in its own eviction only when an order key of an older version names the
\* page as well (personal-index.cjs:111-119).
THEOREM FreshCorrect == Spec => FreshPageStays
  <1> DEFINE Stays ==
        \A c \in IndexCall :
          LET d == arg[c].doc
          IN  Running(c) /\ pc[c] = "evict" /\ d \in Indexed \ Indexed' /\ ~misread' =>
                 MaxDocs = 0 \/ \E o \in order : o[2] = d /\ o[1] < rec[d].seq
  <1>1. IInv /\ [Next]_vars => [Stays]_vars
    BY FreshStep
  <1>2. [][Stays]_vars => FreshPageStays
    BY PTL DEF FreshPageStays
  <1> QED  BY <1>1, <1>2, IndexAlways, PTL DEF Spec
=============================================================================
