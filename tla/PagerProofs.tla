------------------------------ MODULE PagerProofs -----------------------------
(***************************************************************************)
(* For any number of processes, pages, transactions and sectors of the     *)
(* journal: the locks exclude each other, whatever a crash or a loss of    *)
(* power leaves recovers to the last commit, and a reader sees that commit *)
(* and nothing else.                                                       *)
(***************************************************************************)
EXTENDS Pager, NaturalsInduction, WellFoundedInduction, TLAPS

-------------------------------------------------------------------------------
(* Types *)

Sector == {s \in [pg : Page \cup {0, None}, v : Content, n : Nat, nonce : Nat \X Nat] :
             s.pg \in Page => s.v \in Nat}
Slots  == [1..MaxSlot -> Sector]
Undo   == UNION {[S -> Nat] : S \in SUBSET Page}

Journals == [here : BOOLEAN, durable : BOOLEAN, slot : Slots]
Ghosts   == [slot : Slots, disk : Slots, com : [Page -> Nat]]
Writers  == [proc : Proc \cup {None}, off : Nat, hdr : Nat, inJournal : SUBSET Page,
             needSync : SUBSET Page, dirty : SUBSET Page, todo : Undo, fin : BOOLEAN]

FileTypes ==
  /\ db \in [Page -> Nat] /\ dbLoss \in [Page -> SUBSET Nat]
  /\ jrnl \in Journals /\ jDisk \in Slots /\ ghosts \in SUBSET Ghosts
  /\ w \in Writers /\ txn \in Nat /\ com \in [Page -> Nat]

ProcTypes ==
  /\ lock \in [Proc -> LockLevel] /\ st \in [Proc -> States]
  /\ cache \in [Proc -> [Page -> Content]]
  /\ vers \in [Proc -> Nat] /\ counted \in [Proc -> BOOLEAN]

(* The states that go with SHARED and with EXCLUSIVE, those of a transaction  *)
(* that has changed a page, and those in which page 1 is in the cache.        *)
Sharing   == {"SHARED", "EXISTS", "UNRESERVED", "HOT", "CHECKED", "READER"}
Syncing   == {"JOURNAL_HDR", "JOURNAL_SYNC"}
Building  == {"WRITER_CACHEMOD", "WRITER_DBMOD"} \cup Syncing
Closing   == {"COMMIT", "WRITER_FINISHED"}
Live      == Building \cup Closing
Exclusive == {"HOT_EXCLUSIVE", "WRITER_DBMOD", "PLAYBACK", "UNDO", "ERROR"} \cup Syncing \cup Closing
Loaded    == {"READER", "WRITER_LOCKED", "UNDO"} \cup Live

Locked(p) ==
  /\ st[p] = "OPEN" <=> lock[p] = NO_LOCK
  /\ st[p] \in Sharing <=> lock[p] = SHARED_LOCK
  /\ st[p] \in Exclusive => lock[p] = EXCLUSIVE_LOCK
  /\ w.proc = p <=> lock[p] >= RESERVED_LOCK /\ st[p] # "HOT_EXCLUSIVE"

Alone(p, q) ==
  /\ lock[p] >= RESERVED_LOCK => lock[q] <= SHARED_LOCK
  /\ lock[p] = EXCLUSIVE_LOCK => lock[q] = NO_LOCK

(* What is needed for the pages that are journalled and written to be there.  *)
Present(p) ==
  /\ st[p] \in Loaded => cache[p][1] \in Nat
  /\ st[p] = "WRITER_LOCKED" => w.inJournal = {} /\ w.needSync = {} /\ w.dirty = {}
  /\ st[p] \in Live =>
       /\ w.hdr \in 1..MaxSlot /\ w.off \in (w.hdr + 1)..(MaxSlot + 1)
       /\ w.dirty \subseteq w.inJournal /\ w.needSync \subseteq w.inJournal
       /\ \A pg \in w.inJournal : cache[p][pg] \in Nat

LockInv ==
  /\ \A p \in Proc : Locked(p)
  /\ \A p, q \in Proc : p # q => Alone(p, q)
  /\ w.proc = None => w = NoWriter

TypeInv ==
  /\ FileTypes /\ ProcTypes /\ LockInv
  /\ \A p \in Proc : Present(p)

-------------------------------------------------------------------------------
(* The journal. *)

(* What a loss of power may make of a journal with sectors s, of which d were *)
(* synced.                                                                    *)
Mixes(s, d) == {[i \in 1..MaxSlot |-> IF i \in lost THEN d[i] ELSE s[i]] :
                 lost \in SUBSET {i \in 1..MaxSlot : s[i] # d[i]}}

Honest(u, c) == \A pg \in DOMAIN u : u[pg] = c[pg]

(* Any of them, played back on whatever the loss of power leaves of the       *)
(* database (loss), gives c.                                                  *)
Safe(s, d, loss, c) ==
  \A m \in Mixes(s, d) :
    /\ Honest(Playback(m, 0), c)
    /\ \A pg \in Page \ DOMAIN Playback(m, 0) : loss[pg] = {c[pg]}

(* The database is on disk as the commit c left it. *)
Settled(loss, c) == \A pg \in Page : loss[pg] = {c[pg]}

Older(s, t) == \A i \in 1..MaxSlot : s[i].nonce[1] <= t

(* Without PERSIST no header of an earlier journal is left behind.  *)
NoStale(s, d) ==
  "PERSIST" \notin Modes /\ ~(HasMagic(s[1]) /\ HasMagic(d[1])) =>
    \A i \in 2..MaxSlot : ~HasMagic(s[i]) /\ ~HasMagic(d[i])

Sound(s, d, t) ==
  /\ HasMagic(d[1]) => HasMagic(s[1])
  /\ Older(s, t) /\ Older(d, t) /\ NoStale(s, d)

FilesInv ==
  /\ \A pg \in Page : db[pg] \in dbLoss[pg]
  /\ jrnl.here => Safe(jrnl.slot, jDisk, dbLoss, com)
  /\ ~jrnl.here => jrnl = NoJournal /\ jDisk = Empty
  /\ ~jrnl.here \/ ~jrnl.durable \/ ghosts # {} => Settled(dbLoss, com)
  /\ Sound(jrnl.slot, jDisk, txn)
  /\ \A g \in ghosts : Safe(g.slot, g.disk, dbLoss, g.com) /\ Sound(g.slot, g.disk, txn)

(* Read up to the header h, a journal gives the pages done. *)
Before(s, h, c, done) ==
  LET r == Reads(s, 0)[h - 1] IN
  r.on /\ r.left = 0 /\ DOMAIN r.undo = done /\ Honest(r.undo, c)

(* The records of header h end before sector o, are those of the pages need,  *)
(* and have its nonce, which is of transaction t.                             *)
Segment(s, h, o, t, c, need) ==
  /\ h \in 1..MaxSlot /\ o \in (h + 1)..(MaxSlot + 1)
  /\ s[h].pg = 0 /\ s[h].nonce[1] = t
  /\ \A i \in (h + 1)..(o - 1) : /\ s[i].pg \in need /\ s[i].v = c[s[i].pg]
                                 /\ s[i].nonce = s[h].nonce
  /\ \A pg \in need : \E i \in (h + 1)..(o - 1) : s[i].pg = pg
  /\ \A i \in o..MaxSlot : s[i].nonce[1] < t

(* All before header h is synced, and of what comes after it what is synced   *)
(* is as it was written or of an older transaction.                           *)
OnDisk(s, d, h, t) ==
  /\ \A i \in 1..(h - 1) : d[i] = s[i]
  /\ ~HasMagic(d[h])
  /\ \A i \in (h + 1)..MaxSlot : d[i] = s[i] \/ d[i].nonce[1] < t

(* No header behind the records. *)
Ended(s, d, o) == o <= MaxSlot => ~HasMagic(s[o]) /\ ~HasMagic(d[o])

Synced == w.inJournal \ w.needSync

LiveInv(p) ==
  st[p] \in Live =>
    /\ jrnl.here
    /\ w.hdr > 1 => ghosts = {} /\ jrnl.durable
    /\ \A pg \in Page \ Synced : dbLoss[pg] = {com[pg]}
    /\ \A pg \in w.inJournal \ w.dirty : db[pg] = cache[p][pg]
    /\ \A pg \in Page \ w.inJournal : cache[p][pg] \in {None, com[pg]}
    /\ counted[p] <=> 1 \in w.inJournal
    /\ 1 \notin w.inJournal => vers[p] = com[1]
    /\ 1 \in w.inJournal => /\ cache[p][1] = com[1] + 1
                            /\ vers[p] = IF 1 \in w.dirty THEN com[1] ELSE com[1] + 1

BuildInv(p) ==
  st[p] \in Building =>
    /\ Before(jrnl.slot, w.hdr, com, Synced)
    /\ Segment(jrnl.slot, w.hdr, w.off, txn, com, w.needSync)
    /\ OnDisk(jrnl.slot, jDisk, w.hdr, txn)
    /\ jrnl.slot[w.hdr].n = IF st[p] = "JOURNAL_SYNC" THEN w.off - w.hdr - 1 ELSE 0
    /\ st[p] = "WRITER_CACHEMOD" => w.hdr = 1 /\ w.needSync # {}
    /\ st[p] = "WRITER_DBMOD" => w.hdr > 1
    /\ st[p] \in Syncing => /\ Ended(jrnl.slot, jDisk, w.off)
                            /\ IF w.fin THEN counted[p] ELSE w.needSync # {}
    /\ "PERSIST" \notin Modes =>
         \A i \in (w.hdr + 1)..MaxSlot : ~HasMagic(jrnl.slot[i]) /\ ~HasMagic(jDisk[i])

CloseInv(p) ==
  st[p] \in Closing =>
    /\ jDisk = jrnl.slot /\ jrnl.durable /\ ghosts = {} /\ counted[p] /\ w.needSync = {}
    /\ \A l \in {0, w.hdr} : LET u == Playback(jrnl.slot, l) IN
         DOMAIN u = w.inJournal /\ Honest(u, com)
    /\ st[p] = "WRITER_FINISHED" => w.dirty = {} /\ \A pg \in Page : dbLoss[pg] = {db[pg]}

OtherInv(p) ==
  /\ st[p] = "WRITER_LOCKED" =>
       w = [NoWriter EXCEPT !.proc = p] /\ Older(jrnl.slot, txn - 1) /\ Older(jDisk, txn - 1)
  /\ st[p] \in {"UNDO", "PLAYBACK"} =>
       /\ jrnl.here /\ Honest(w.todo, com)
       /\ \A pg \in Page \ DOMAIN w.todo : db[pg] = com[pg]
  /\ st[p] = "UNDO" => w.off > 0
  /\ st[p] = "PLAYBACK" => jDisk = jrnl.slot /\ (w.off = 0 <=> ~HasMagic(jrnl.slot[1]))

CacheInv(p) ==
  /\ st[p] \in {"CHECKED", "READER", "WRITER_LOCKED", "WRITER_CACHEMOD"} => ~HasMagic(jrnl.slot[1])
  /\ st[p] \notin Live \cup {"ERROR"} /\ cache[p][1] # None =>
       /\ vers[p] <= com[1]
       /\ vers[p] = com[1] => \A pg \in Page : cache[p][pg] \in {None, com[pg]}
  /\ st[p] \in {"READER", "WRITER_LOCKED", "UNDO"} => vers[p] = com[1]
  /\ st[p] \notin Live \cup {"UNDO", "ERROR"} => ~counted[p]

ProcInv(p) == LiveInv(p) /\ BuildInv(p) /\ CloseInv(p) /\ OtherInv(p) /\ CacheInv(p)

PagerInv == FilesInv /\ \A p \in Proc : ProcInv(p)

-------------------------------------------------------------------------------
(* Induction over the sectors, in a first-order form. *)

LEMMA NatMin ==
  ASSUME NEW T \in SUBSET Nat, T # {}
  PROVE  \E x \in T : \A y \in T : x <= y
<1> DEFINE R == {ss \in Nat \X Nat : ss[1] < ss[2]}
<1>1. IsWellFoundedOn(R, Nat)
  BY NatLessThanWellFounded DEF OpToRel
<1>2. \A x, y \in Nat : y < x => <<y, x>> \in R
  OBVIOUS
<1> HIDE DEF R
<1>3. PICK x \in T : \A y \in T : ~(<<y, x>> \in R)
  BY <1>1, WFMin
<1>4. \A y \in T : x \in Nat /\ y \in Nat /\ ~(y < x)
  BY <1>2, <1>3
<1>5. \A y \in T : x <= y
  BY <1>4
<1> QED BY <1>5

LEMMA UpTo ==
  ASSUME NEW a \in Nat, NEW b \in Nat, NEW T,
         a \in T, \A i \in a..b : i \in T /\ i + 1 \in a..b => i + 1 \in T
  PROVE  \A i \in a..b : i \in T
<1>1. SUFFICES ASSUME NEW k \in a..b, k \notin T
               PROVE  FALSE
  OBVIOUS
<1> DEFINE U == {i \in a..b : i \notin T}
<1>2. U \in SUBSET Nat /\ U # {}
  BY <1>1
<1>3. PICK x \in U : \A y \in U : x <= y
  BY <1>2, NatMin
<1>4. x \in a..b /\ x \notin T /\ x # a
  BY <1>3
<1>5. x - 1 \in a..b /\ ~(x <= x - 1)
  BY <1>4
<1>6. x - 1 \notin U
  BY <1>3, <1>5
<1>7. x - 1 \in T
  BY <1>5, <1>6
<1>8. (x - 1) + 1 = x
  BY <1>4
<1> QED BY <1>4, <1>5, <1>7, <1>8

-------------------------------------------------------------------------------
(* Reading a journal. *)

IsRead(f, slot, live) ==
  f = [i \in 0..MaxSlot |->
        IF i = 0 THEN ReadStart ELSE ReadSector(f[i - 1], slot[i], i = live)]

LEMMA ReadsExist ==
  ASSUME NEW slot, NEW live
  PROVE  \E f : IsRead(f, slot, live)
<1> DEFINE Fits(f, n) == f = [i \in 0..n |->
                               IF i = 0 THEN ReadStart ELSE ReadSector(f[i - 1], slot[i], i = live)]
           T == {n \in 0..MaxSlot : \E f : Fits(f, n)}
<1>1. 0 \in T
  <2> DEFINE f == [i \in 0..0 |-> ReadStart]
  <2>1. f = [i \in 0..0 |-> IF i = 0 THEN ReadStart ELSE ReadSector(f[i - 1], slot[i], i = live)]
    OBVIOUS
  <2>2. Fits(f, 0)
    BY <2>1
  <2>3. 0 \in 0..MaxSlot
    BY PagerAssumption
  <2> HIDE DEF f, Fits
  <2> QED BY <2>2, <2>3
<1>2. ASSUME NEW n \in 0..MaxSlot, n \in T, n + 1 \in 0..MaxSlot
      PROVE  n + 1 \in T
  <2>1. PICK f : Fits(f, n)
    BY <1>2
  <2> DEFINE g == [i \in 0..(n + 1) |-> IF i <= n THEN f[i] ELSE ReadSector(f[n], slot[n + 1], n + 1 = live)]
  <2>2. ASSUME NEW i \in 0..(n + 1)
        PROVE  g[i] = IF i = 0 THEN ReadStart ELSE ReadSector(g[i - 1], slot[i], i = live)
    <3>1. CASE i = 0
      <4>1. 0 \in 0..n /\ g[0] = f[0]
        BY <1>2
      <4>2. f[0] = ReadStart
        BY <4>1, <2>1
      <4> QED BY <3>1, <4>1, <4>2
    <3>2. CASE i \in 1..n
      <4>1. i \in 0..n /\ i - 1 \in 0..(n + 1) /\ i <= n /\ i - 1 <= n /\ i # 0
        BY <3>2, <1>2
      <4>2. g[i] = f[i] /\ g[i - 1] = f[i - 1]
        BY <4>1
      <4>3. f[i] = ReadSector(f[i - 1], slot[i], i = live)
        BY <4>1, <2>1
      <4> QED BY <4>1, <4>2, <4>3
    <3>3. CASE i = n + 1
      <4>1. n \in 0..(n + 1) /\ n + 1 # 0 /\ ~(n + 1 <= n) /\ n <= n /\ (n + 1) - 1 = n
        BY <1>2
      <4>2. g[n] = f[n] /\ g[n + 1] = ReadSector(f[n], slot[n + 1], n + 1 = live)
        BY <4>1, <1>2
      <4> QED BY <3>3, <4>1, <4>2
    <3> QED BY <1>2, <3>1, <3>2, <3>3
  <2>3. g = [i \in 0..(n + 1) |-> g[i]]
    OBVIOUS
  <2>4. g = [i \in 0..(n + 1) |-> IF i = 0 THEN ReadStart ELSE ReadSector(g[i - 1], slot[i], i = live)]
    <3> HIDE DEF g
    <3> QED BY <2>2, <2>3
  <2>5. Fits(g, n + 1)
    BY <2>4
  <2> QED BY <2>5, <1>2
<1>3. \A n \in 0..MaxSlot : n \in T
  <2> HIDE DEF T
  <2> QED BY <1>1, <1>2, UpTo, PagerAssumption
<1>4. MaxSlot \in T
  BY <1>3, PagerAssumption
<1>5. PICK f : Fits(f, MaxSlot)
  BY <1>4
<1>6. IsRead(f, slot, live)
  BY <1>5 DEF IsRead
<1> QED BY <1>6

LEMMA ReadsDef ==
  ASSUME NEW slot, NEW live
  PROVE  /\ Reads(slot, live)[0] = ReadStart
         /\ \A i \in 1..MaxSlot :
              Reads(slot, live)[i] = ReadSector(Reads(slot, live)[i - 1], slot[i], i = live)
<1> DEFINE R == Reads(slot, live)
<1>a. \E f : IsRead(f, slot, live)
  BY ReadsExist
<1>b. R = CHOOSE f : IsRead(f, slot, live)
  BY DEF Reads, IsRead
<1>c. IsRead(R, slot, live)
  BY <1>a, <1>b
<1>1. R = [i \in 0..MaxSlot |-> IF i = 0 THEN ReadStart ELSE ReadSector(R[i - 1], slot[i], i = live)]
  BY <1>c DEF IsRead
<1>2. R[0] = ReadStart
  BY <1>1, PagerAssumption
<1>3. ASSUME NEW i \in 1..MaxSlot
      PROVE  R[i] = ReadSector(R[i - 1], slot[i], i = live)
  <2>1. i \in 0..MaxSlot /\ i # 0
    BY PagerAssumption
  <2> HIDE DEF R
  <2> QED BY <2>1, <1>1
<1> QED BY <1>2, <1>3

ReadState == [left : Nat, nonce : Nat \X Nat, on : BOOLEAN, undo : Undo]

LEMMA UndoType ==
  ASSUME NEW u \in Undo
  PROVE  DOMAIN u \subseteq Page /\ \A pg \in DOMAIN u : u[pg] \in Nat
<1>1. PICK S \in SUBSET Page : u \in [S -> Nat]
  BY DEF Undo
<1> QED BY <1>1

LEMMA UndoIs ==
  ASSUME NEW S \in SUBSET Page, NEW f \in [S -> Nat]
  PROVE  f \in Undo
BY DEF Undo

LEMMA NoPagesType == NoPages \in Undo /\ DOMAIN NoPages = {}
<1>1. NoPages \in [{} -> Nat] /\ DOMAIN NoPages = {}
  BY DEF NoPages
<1>2. {} \in SUBSET Page
  OBVIOUS
<1> QED BY <1>1, <1>2, UndoIs

LEMMA UndoAdd ==
  ASSUME NEW u \in Undo, NEW pg \in Page, NEW v \in Nat
  PROVE  /\ Over(Only(pg, v), u) \in Undo
         /\ DOMAIN Over(Only(pg, v), u) = {pg} \cup DOMAIN u
         /\ Over(Only(pg, v), u)[pg] = v
         /\ \A q \in DOMAIN u : q # pg => Over(Only(pg, v), u)[q] = u[q]
<1> DEFINE S == {pg} \cup DOMAIN u
           f == [x \in S |-> IF x = pg THEN v ELSE u[x]]
<1>1. Over(Only(pg, v), u) = f
  BY DEF Over, Only
<1>2. S \in SUBSET Page /\ f \in [S -> Nat]
  BY UndoType
<1>3. f \in Undo
  BY <1>2, UndoIs
<1> QED BY <1>1, <1>3

LEMMA SectorType ==
  ASSUME NEW s \in Sector
  PROVE  /\ s.pg \in Page \cup {0, None} /\ s.v \in Content /\ s.n \in Nat /\ s.nonce \in Nat \X Nat
         /\ s.pg \in Page => s.v \in Nat
BY DEF Sector

(* One sector, case by case. *)
LEMMA ReadStopped ==
  ASSUME NEW r \in ReadState, NEW s, NEW live, ~r.on
  PROVE  ReadSector(r, s, live) = r
BY DEF ReadSector

LEMMA ReadHeader ==
  ASSUME NEW r \in ReadState, NEW s \in Sector, NEW live, r.on, r.left = 0, HasMagic(s)
  PROVE  ReadSector(r, s, live) = [left |-> s.n, nonce |-> s.nonce, on |-> TRUE, undo |-> r.undo]
BY DEF ReadSector, ReadState

LEMMA ReadLive ==
  ASSUME NEW r \in ReadState, NEW s \in Sector, NEW live, r.on, r.left = 0, ~HasMagic(s), live
  PROVE  ReadSector(r, s, live) = [left |-> MaxSlot, nonce |-> s.nonce, on |-> TRUE, undo |-> r.undo]
BY DEF ReadSector, ReadState

LEMMA ReadNoHeader ==
  ASSUME NEW r \in ReadState, NEW s \in Sector, NEW live, r.on, r.left = 0, ~HasMagic(s), ~live
  PROVE  ReadSector(r, s, live) = [left |-> 0, nonce |-> r.nonce, on |-> FALSE, undo |-> r.undo]
BY DEF ReadSector, ReadState

LEMMA ReadRecord ==
  ASSUME NEW r \in ReadState, NEW s \in Sector, NEW live, r.on, r.left # 0,
         s.pg \in Page, s.nonce = r.nonce
  PROVE  ReadSector(r, s, live) = [left |-> r.left - 1, nonce |-> r.nonce, on |-> TRUE,
                                   undo |-> Over(Only(s.pg, s.v), r.undo)]
BY DEF ReadSector, ReadState

LEMMA ReadNoRecord ==
  ASSUME NEW r \in ReadState, NEW s \in Sector, NEW live, r.on, r.left # 0,
         ~(s.pg \in Page /\ s.nonce = r.nonce)
  PROVE  ReadSector(r, s, live) = [left |-> r.left, nonce |-> r.nonce, on |-> FALSE, undo |-> r.undo]
BY DEF ReadSector, ReadState

LEMMA ReadSectorType ==
  ASSUME NEW r \in ReadState, NEW s \in Sector, NEW live \in BOOLEAN
  PROVE  ReadSector(r, s, live) \in ReadState
<1>1. /\ r.left \in Nat /\ r.nonce \in Nat \X Nat /\ r.on \in BOOLEAN /\ r.undo \in Undo
      /\ s.n \in Nat /\ s.nonce \in Nat \X Nat /\ MaxSlot \in Nat
  BY SectorType, PagerAssumption DEF ReadState
<1>2. \A a \in Nat, b \in Nat \X Nat, c \in BOOLEAN, d \in Undo :
         [left |-> a, nonce |-> b, on |-> c, undo |-> d] \in ReadState
  BY DEF ReadState
<1>3. CASE ~r.on
  BY <1>3, ReadStopped
<1>4. CASE r.on /\ r.left = 0
  <2>1. CASE HasMagic(s)
    <3>1. ReadSector(r, s, live) = [left |-> s.n, nonce |-> s.nonce, on |-> TRUE, undo |-> r.undo]
      BY <2>1, <1>4, ReadHeader
    <3> QED BY <3>1, <1>1, <1>2
  <2>2. CASE ~HasMagic(s) /\ live
    <3>1. ReadSector(r, s, live) = [left |-> MaxSlot, nonce |-> s.nonce, on |-> TRUE, undo |-> r.undo]
      BY <2>2, <1>4, ReadLive
    <3> QED BY <3>1, <1>1, <1>2
  <2>3. CASE ~HasMagic(s) /\ ~live
    <3>1. ReadSector(r, s, live) = [left |-> 0, nonce |-> r.nonce, on |-> FALSE, undo |-> r.undo]
      BY <2>3, <1>4, ReadNoHeader
    <3> QED BY <3>1, <1>1, <1>2
  <2> QED BY <2>1, <2>2, <2>3
<1>5. CASE r.on /\ r.left # 0
  <2>1. CASE s.pg \in Page /\ s.nonce = r.nonce
    <3>1. Over(Only(s.pg, s.v), r.undo) \in Undo
      <4>1. s.v \in Nat
        BY <2>1, SectorType
      <4> QED BY <2>1, <1>1, <4>1, UndoAdd
    <3>2. r.left - 1 \in Nat
      BY <1>1, <1>5
    <3>3. ReadSector(r, s, live) = [left |-> r.left - 1, nonce |-> r.nonce, on |-> TRUE,
                                    undo |-> Over(Only(s.pg, s.v), r.undo)]
      BY <2>1, <1>5, ReadRecord
    <3> QED BY <3>1, <3>2, <3>3, <1>1, <1>2
  <2>2. CASE ~(s.pg \in Page /\ s.nonce = r.nonce)
    <3>1. ReadSector(r, s, live) = [left |-> r.left, nonce |-> r.nonce, on |-> FALSE, undo |-> r.undo]
      BY <2>2, <1>5, ReadNoRecord
    <3> QED BY <3>1, <1>1, <1>2
  <2> QED BY <2>1, <2>2
<1> QED BY <1>1, <1>3, <1>4, <1>5

LEMMA ReadsType ==
  ASSUME NEW slot \in Slots, NEW live
  PROVE  \A i \in 0..MaxSlot : Reads(slot, live)[i] \in ReadState
<1> DEFINE R == Reads(slot, live)
           T == {i \in 0..MaxSlot : R[i] \in ReadState}
<1>1. ReadStart \in ReadState
  <2>1. <<0, 0>> \in Nat \X Nat
    OBVIOUS
  <2> QED BY <2>1, NoPagesType DEF ReadStart, ReadState
<1>2. 0 \in T
  BY <1>1, ReadsDef, PagerAssumption
<1>3. ASSUME NEW i \in 0..MaxSlot, i \in T, i + 1 \in 0..MaxSlot
      PROVE  i + 1 \in T
  <2>1. i + 1 \in 1..MaxSlot /\ (i + 1) - 1 = i
    BY <1>3
  <2>2. R[i + 1] = ReadSector(R[i], slot[i + 1], i + 1 = live)
    BY <2>1, ReadsDef
  <2>3. slot[i + 1] \in Sector /\ (i + 1 = live) \in BOOLEAN
    BY <2>1 DEF Slots
  <2> QED BY <2>2, <2>3, <1>3, ReadSectorType
<1>4. \A i \in 0..MaxSlot : i \in T
  <2> HIDE DEF T
  <2> QED BY <1>2, <1>3, UpTo, PagerAssumption
<1> QED BY <1>4

LEMMA PlaybackType ==
  ASSUME NEW slot \in Slots, NEW live
  PROVE  Playback(slot, live) \in Undo
<1>1. Reads(slot, live)[MaxSlot] \in ReadState
  BY ReadsType, PagerAssumption
<1> QED BY <1>1 DEF ReadState, Playback

(* Journals that agree up to sector k read the same up to it. *)
LEMMA ReadsPrefix ==
  ASSUME NEW slot, NEW slot2, NEW live, NEW live2, NEW k \in 0..MaxSlot,
         \A i \in 1..k : slot[i] = slot2[i] /\ (i = live <=> i = live2)
  PROVE  \A i \in 0..k : Reads(slot, live)[i] = Reads(slot2, live2)[i]
<1> DEFINE R == Reads(slot, live)
           Q == Reads(slot2, live2)
           T == {i \in 0..k : R[i] = Q[i]}
<1>1. 0 \in T
  BY ReadsDef, PagerAssumption
<1>2. ASSUME NEW i \in 0..k, i \in T, i + 1 \in 0..k
      PROVE  i + 1 \in T
  <2>1. i + 1 \in 1..MaxSlot /\ i + 1 \in 1..k /\ (i + 1) - 1 = i
    BY <1>2, PagerAssumption
  <2>2. R[i + 1] = ReadSector(R[i], slot[i + 1], i + 1 = live)
    BY <2>1, ReadsDef
  <2>3. Q[i + 1] = ReadSector(Q[i], slot2[i + 1], i + 1 = live2)
    BY <2>1, ReadsDef
  <2>4. slot[i + 1] = slot2[i + 1] /\ (i + 1 = live) = (i + 1 = live2)
    BY <2>1
  <2>5. R[i] = Q[i]
    BY <1>2
  <2>6. R[i + 1] = Q[i + 1]
    BY <2>2, <2>3, <2>4, <2>5
  <2> QED BY <2>6, <1>2
<1>3. \A i \in 0..k : i \in T
  <2> HIDE DEF T
  <2>1. 0 \in Nat /\ k \in Nat
    BY PagerAssumption
  <2> QED BY <1>1, <1>2, <2>1, UpTo
<1> QED BY <1>3

(* What stopped stays as it is. *)
LEMMA ReadsStop ==
  ASSUME NEW slot \in Slots, NEW live, NEW k \in 0..MaxSlot, ~Reads(slot, live)[k].on
  PROVE  Playback(slot, live) = Reads(slot, live)[k].undo
<1> DEFINE R == Reads(slot, live)
           T == {i \in k..MaxSlot : R[i] = R[k]}
<1>0. k \in Nat /\ MaxSlot \in Nat /\ k <= MaxSlot
  BY PagerAssumption
<1>1. k \in T
  BY <1>0
<1>2. ASSUME NEW i \in k..MaxSlot, i \in T, i + 1 \in k..MaxSlot
      PROVE  i + 1 \in T
  <2>1. i + 1 \in 1..MaxSlot /\ i \in 0..MaxSlot /\ (i + 1) - 1 = i
    BY <1>2, <1>0
  <2>2. R[i + 1] = ReadSector(R[i], slot[i + 1], i + 1 = live)
    BY <2>1, ReadsDef
  <2>3. R[i] \in ReadState /\ ~R[i].on
    BY <2>1, <1>2, ReadsType
  <2>4. R[i + 1] = R[i]
    BY <2>2, <2>3, ReadStopped
  <2> QED BY <2>4, <1>2
<1>3. \A i \in k..MaxSlot : i \in T
  <2> HIDE DEF T
  <2> QED BY <1>0, <1>1, <1>2, UpTo
<1>4. R[MaxSlot] = R[k]
  BY <1>0, <1>3
<1> QED BY <1>4 DEF Playback

(* How far the records of the header h, N of them with nonce x, have been     *)
(* read at sector i, when done was read before.                               *)
SegGood(m, r, i, h, c, done, N, x) ==
  /\ done \subseteq DOMAIN r.undo /\ Honest(r.undo, c)
  /\ DOMAIN r.undo \subseteq done \cup {m[j].pg : j \in (h + 1)..i}
  /\ r.on => /\ r.left = N - (i - h) /\ r.nonce = x
             /\ \A j \in (h + 1)..i : m[j].pg \in DOMAIN r.undo
  /\ (\A j \in (h + 1)..i : m[j].nonce = x) => r.on

(* The records of the header h, before sector o, each of them good or of      *)
(* another nonce.                                                             *)
LEMMA SegRead ==
  ASSUME NEW m \in Slots, NEW l, NEW c \in [Page -> Nat], NEW done, NEW x, NEW N \in Nat,
         NEW h \in 1..MaxSlot, NEW o \in (h + 1)..(MaxSlot + 1), N >= o - 1 - h,
         Reads(m, l)[h].on, Reads(m, l)[h].left = N, Reads(m, l)[h].nonce = x,
         DOMAIN Reads(m, l)[h].undo = done, Honest(Reads(m, l)[h].undo, c),
         \A i \in (h + 1)..(o - 1) : m[i].nonce = x => m[i].pg \in Page /\ m[i].v = c[m[i].pg]
  PROVE  \A i \in h..(o - 1) : SegGood(m, Reads(m, l)[i], i, h, c, done, N, x)
<1> DEFINE R == Reads(m, l)
           Good(i) ==
             /\ done \subseteq DOMAIN R[i].undo /\ Honest(R[i].undo, c)
             /\ DOMAIN R[i].undo \subseteq done \cup {m[j].pg : j \in (h + 1)..i}
             /\ R[i].on => /\ R[i].left = N - (i - h) /\ R[i].nonce = x
                           /\ \A j \in (h + 1)..i : m[j].pg \in DOMAIN R[i].undo
             /\ (\A j \in (h + 1)..i : m[j].nonce = x) => R[i].on
           T == {i \in h..(o - 1) : Good(i)}
<1>0. /\ h \in Nat /\ o \in Nat /\ MaxSlot \in Nat /\ h >= 1 /\ h < o /\ o <= MaxSlot + 1
      /\ o - 1 \in Nat
  BY PagerAssumption
<1>1. h \in T
  <2>1. (h + 1)..h = {} /\ h - h = 0 /\ N - 0 = N
    BY <1>0
  <2> QED BY <2>1, <1>0
<1>2. ASSUME NEW i \in h..(o - 1), i \in T, i + 1 \in h..(o - 1)
      PROVE  i + 1 \in T
  <2> DEFINE r == R[i]
             q == R[i + 1]
             s == m[i + 1]
  <2>1. /\ i + 1 \in 1..MaxSlot /\ i \in 0..MaxSlot /\ (i + 1) - 1 = i /\ i + 1 \in (h + 1)..(o - 1)
        /\ i \in Nat /\ i + 1 <= o - 1 /\ i >= h
    BY <1>0, <1>2
  <2>2. q = ReadSector(r, s, i + 1 = l)
    BY <2>1, ReadsDef
  <2>3. r \in ReadState /\ q \in ReadState /\ s \in Sector
    BY <2>1, ReadsType DEF Slots
  <2>4. (h + 1)..(i + 1) = ((h + 1)..i) \cup {i + 1}
    BY <2>1, <1>0
  <2>5. Good(i)
    BY <1>2
  <2>6. s.nonce = x => s.pg \in Page /\ s.v = c[s.pg]
    BY <2>1
  <2>7. CASE ~r.on
    <3>1. q = r
      BY <2>2, <2>3, <2>7, ReadStopped
    <3>2. /\ done \subseteq DOMAIN q.undo /\ Honest(q.undo, c)
          /\ DOMAIN q.undo \subseteq done \cup {m[j].pg : j \in (h + 1)..(i + 1)}
      BY <2>4, <2>5, <3>1
    <3>3. ~(\A j \in (h + 1)..i : m[j].nonce = x)
      BY <2>5, <2>7
    <3>4. ~(\A j \in (h + 1)..(i + 1) : m[j].nonce = x)
      BY <2>4, <3>3
    <3>5. ~q.on
      BY <3>1, <2>7
    <3>6. Good(i + 1)
      BY <3>2, <3>4, <3>5
    <3> QED BY <3>6, <1>2
  <2>8. CASE r.on
    <3>0. r.left = N - (i - h) /\ r.nonce = x /\ \A j \in (h + 1)..i : m[j].pg \in DOMAIN r.undo
      BY <2>5, <2>8
    <3>1. r.left # 0 /\ r.left - 1 = N - ((i + 1) - h)
      BY <3>0, <2>1, <1>0
    <3>2. CASE s.nonce = x
      <4>0. s.pg \in Page
        BY <3>2, <2>6
      <4>1. s.pg \in Page /\ s.v = c[s.pg]
        BY <3>2, <2>6
      <4>2. q = [left |-> r.left - 1, nonce |-> r.nonce, on |-> TRUE,
                 undo |-> Over(Only(s.pg, s.v), r.undo)]
        BY <2>2, <2>3, <2>8, <3>0, <3>1, <3>2, <4>1, ReadRecord
      <4>3. r.undo \in Undo /\ s.v \in Nat
        BY <2>3, <4>1, SectorType DEF ReadState
      <4>4. /\ DOMAIN q.undo = {s.pg} \cup DOMAIN r.undo
            /\ q.undo[s.pg] = s.v
            /\ \A pg \in DOMAIN r.undo : pg # s.pg => q.undo[pg] = r.undo[pg]
        <5>1. q.undo = Over(Only(s.pg, s.v), r.undo)
          BY <4>2
        <5> HIDE DEF q, r, s, R, Good, T
        <5>2. /\ DOMAIN Over(Only(s.pg, s.v), r.undo) = {s.pg} \cup DOMAIN r.undo
              /\ Over(Only(s.pg, s.v), r.undo)[s.pg] = s.v
              /\ \A pg \in DOMAIN r.undo : pg # s.pg => Over(Only(s.pg, s.v), r.undo)[pg] = r.undo[pg]
          BY DEF Over, Only
        <5> QED BY <5>1, <5>2
      <4>5. q.on /\ q.left = N - ((i + 1) - h) /\ q.nonce = x
        BY <4>2, <3>0, <3>1
      <4>6. Honest(q.undo, c)
        <5>1. \A pg \in DOMAIN r.undo : r.undo[pg] = c[pg]
          BY <2>5 DEF Honest
        <5> HIDE DEF q, r, s, R, Good, T
        <5>2. \A pg \in DOMAIN q.undo : q.undo[pg] = c[pg]
          BY <4>1, <4>4, <5>1
        <5> QED BY <5>2 DEF Honest
      <4>7. done \subseteq DOMAIN q.undo
        BY <4>4, <2>5
      <4>8. DOMAIN q.undo \subseteq done \cup {m[j].pg : j \in (h + 1)..(i + 1)}
        <5>1. DOMAIN r.undo \subseteq done \cup {m[j].pg : j \in (h + 1)..i}
          BY <2>5
        <5>2. s.pg \in {m[j].pg : j \in (h + 1)..(i + 1)}
          BY <2>4
        <5> QED BY <5>1, <5>2, <4>4, <2>4
      <4>9. \A j \in (h + 1)..(i + 1) : m[j].pg \in DOMAIN q.undo
        BY <2>4, <3>0, <4>4
      <4>10. Good(i + 1)
        BY <4>5, <4>6, <4>7, <4>8, <4>9
      <4> QED BY <4>10, <1>2
    <3>3. CASE s.nonce # x
      <4>1. q = [left |-> r.left, nonce |-> r.nonce, on |-> FALSE, undo |-> r.undo]
        BY <2>2, <2>3, <2>8, <3>0, <3>1, <3>3, ReadNoRecord
      <4>2. ~q.on /\ q.undo = r.undo
        BY <4>1
      <4>3. ~(\A j \in (h + 1)..(i + 1) : m[j].nonce = x)
        BY <2>4, <3>3
      <4>4. /\ done \subseteq DOMAIN q.undo /\ Honest(q.undo, c)
            /\ DOMAIN q.undo \subseteq done \cup {m[j].pg : j \in (h + 1)..(i + 1)}
        BY <2>4, <2>5, <4>2
      <4>5. Good(i + 1)
        BY <4>2, <4>3, <4>4
      <4> QED BY <4>5, <1>2
    <3> QED BY <3>2, <3>3
  <2> QED BY <2>7, <2>8
<1>3. \A i \in h..(o - 1) : i \in T
  <2> HIDE DEF T
  <2> QED BY <1>0, <1>1, <1>2, UpTo
<1> QED BY <1>3 DEF SegGood

(* What comes behind the records ends the reading. *)
LEMMA SegEnd ==
  ASSUME NEW m \in Slots, NEW l, NEW o \in 2..(MaxSlot + 1),
         Reads(m, l)[o - 1].on /\ o <= MaxSlot =>
           IF Reads(m, l)[o - 1].left = 0
           THEN ~HasMagic(m[o]) /\ o # l
           ELSE m[o].nonce # Reads(m, l)[o - 1].nonce
  PROVE  Playback(m, l) = Reads(m, l)[o - 1].undo
<1> DEFINE r == Reads(m, l)[o - 1]
<1>0. MaxSlot \in Nat /\ o - 1 \in 0..MaxSlot /\ r \in ReadState
  BY PagerAssumption, ReadsType
<1>1. CASE ~r.on
  BY <1>0, <1>1, ReadsStop
<1>2. CASE o = MaxSlot + 1
  <2>1. o - 1 = MaxSlot
    BY <1>0, <1>2
  <2> QED BY <2>1 DEF Playback
<1>3. CASE r.on /\ o <= MaxSlot
  <2> DEFINE q == Reads(m, l)[o]
  <2>1. o \in 1..MaxSlot /\ o \in 0..MaxSlot /\ m[o] \in Sector
    BY <1>0, <1>3 DEF Slots
  <2>2. q = ReadSector(r, m[o], o = l)
    BY <2>1, ReadsDef
  <2>3. CASE r.left = 0
    <3>1. q = [left |-> 0, nonce |-> r.nonce, on |-> FALSE, undo |-> r.undo]
      BY <1>0, <1>3, <2>1, <2>2, <2>3, ReadNoHeader
    <3>2. ~q.on /\ q.undo = r.undo
      BY <3>1
    <3> QED BY <3>2, <2>1, ReadsStop
  <2>4. CASE r.left # 0
    <3>1. q = [left |-> r.left, nonce |-> r.nonce, on |-> FALSE, undo |-> r.undo]
      BY <1>0, <1>3, <2>1, <2>2, <2>4, ReadNoRecord
    <3>2. ~q.on /\ q.undo = r.undo
      BY <3>1
    <3> QED BY <3>2, <2>1, ReadsStop
  <2> QED BY <2>3, <2>4
<1> QED BY <1>0, <1>1, <1>2, <1>3

LEMMA MixSectors ==
  ASSUME NEW s \in Slots, NEW d \in Slots, NEW m \in Mixes(s, d)
  PROVE  m \in Slots /\ \A i \in 1..MaxSlot : m[i] = s[i] \/ m[i] = d[i]
<1>1. PICK lost \in SUBSET {i \in 1..MaxSlot : s[i] # d[i]} :
        m = [i \in 1..MaxSlot |-> IF i \in lost THEN d[i] ELSE s[i]]
  BY DEF Mixes
<1> QED BY <1>1 DEF Slots

LEMMA MixSelf ==
  ASSUME NEW s \in Slots, NEW d \in Slots
  PROVE  s \in Mixes(s, d)
<1>1. s = [i \in 1..MaxSlot |-> IF i \in {} THEN d[i] ELSE s[i]]
  BY DEF Slots
<1>2. {} \in SUBSET {i \in 1..MaxSlot : s[i] # d[i]}
  OBVIOUS
<1> QED BY <1>1, <1>2 DEF Mixes

LEMMA MixSame ==
  ASSUME NEW s \in Slots, NEW m \in Mixes(s, s)
  PROVE  m = s
<1>1. m \in Slots /\ \A i \in 1..MaxSlot : m[i] = s[i]
  BY MixSectors
<1>2. m = [i \in 1..MaxSlot |-> m[i]] /\ s = [i \in 1..MaxSlot |-> s[i]]
  BY <1>1 DEF Slots
<1> QED BY <1>1, <1>2

(* The journal of a live transaction. *)
LEMMA BeforePrefix ==
  ASSUME NEW s, NEW m, NEW l, NEW h \in 1..MaxSlot, NEW c, NEW done,
         Before(s, h, c, done), l \notin 1..(h - 1), \A i \in 1..(h - 1) : s[i] = m[i]
  PROVE  /\ Reads(m, l)[h - 1].on /\ Reads(m, l)[h - 1].left = 0
         /\ DOMAIN Reads(m, l)[h - 1].undo = done /\ Honest(Reads(m, l)[h - 1].undo, c)
<1>1. h - 1 \in 0..MaxSlot /\ h - 1 \in 0..(h - 1)
  BY PagerAssumption
<1>2. \A i \in 1..(h - 1) : s[i] = m[i] /\ (i = 0 <=> i = l)
  BY PagerAssumption
<1>3. Reads(s, 0)[h - 1] = Reads(m, l)[h - 1]
  BY <1>1, <1>2, ReadsPrefix
<1> QED BY <1>3 DEF Before

LEMMA MixRead ==
  ASSUME NEW s \in Slots, NEW d \in Slots, NEW m \in Mixes(s, d),
         NEW h, NEW o, NEW t \in Nat, NEW c \in [Page -> Nat], NEW done, NEW need \in SUBSET Page,
         Before(s, h, c, done), Segment(s, h, o, t, c, need), OnDisk(s, d, h, t),
         s[h].n = 0 \/ (s[h].n = o - h - 1 /\ Ended(s, d, o))
  PROVE  Honest(Playback(m, 0), c) /\ done \subseteq DOMAIN Playback(m, 0)
<1> DEFINE R == Reads(m, 0)
<1>0. /\ h \in 1..MaxSlot /\ o \in (h + 1)..(MaxSlot + 1) /\ MaxSlot \in Nat
      /\ h \in Nat /\ o \in Nat /\ h - 1 \in 0..MaxSlot /\ h \in 0..MaxSlot
  BY PagerAssumption DEF Segment
<1>1. m \in Slots /\ \A i \in 1..MaxSlot : m[i] = s[i] \/ m[i] = d[i]
  BY MixSectors
<1>2. \A i \in 1..(h - 1) : s[i] = m[i]
  BY <1>0, <1>1 DEF OnDisk
<1>3. R[h - 1].on /\ R[h - 1].left = 0 /\ DOMAIN R[h - 1].undo = done /\ Honest(R[h - 1].undo, c)
  BY <1>0, <1>2, BeforePrefix
<1>4. R[h - 1] \in ReadState /\ m[h] \in Sector
  BY <1>0, <1>1, ReadsType DEF Slots
<1>5. R[h] = ReadSector(R[h - 1], m[h], FALSE)
  <2>1. (h = 0) = FALSE
    BY <1>0
  <2>2. R[h] = ReadSector(R[h - 1], m[h], h = 0)
    BY <1>0, ReadsDef
  <2> QED BY <2>1, <2>2
<1>6. CASE ~HasMagic(m[h])
  <2>1. R[h] = [left |-> 0, nonce |-> R[h - 1].nonce, on |-> FALSE, undo |-> R[h - 1].undo]
    BY <1>0, <1>3, <1>4, <1>5, <1>6, ReadNoHeader
  <2>2. ~R[h].on /\ R[h].undo = R[h - 1].undo
    BY <2>1
  <2>3. Playback(m, 0) = R[h - 1].undo
    BY <2>2, <1>0, <1>1, ReadsStop
  <2> QED BY <2>3, <1>3
<1>7. CASE HasMagic(m[h])
  <2>1. m[h] = s[h] /\ m[h].n = o - h - 1 /\ Ended(s, d, o)
    BY <1>0, <1>1, <1>7 DEF OnDisk, HasMagic
  <2> DEFINE x == s[h].nonce
             N == o - h - 1
  <2>2. R[h] = [left |-> N, nonce |-> x, on |-> TRUE, undo |-> R[h - 1].undo]
    <3>1. R[h] = [left |-> m[h].n, nonce |-> m[h].nonce, on |-> TRUE, undo |-> R[h - 1].undo]
      BY <1>3, <1>4, <1>5, <1>7, ReadHeader
    <3> QED BY <3>1, <2>1
  <2>3. /\ R[h].on /\ R[h].left = N /\ R[h].nonce = x
        /\ DOMAIN R[h].undo = done /\ Honest(R[h].undo, c)
    BY <2>2, <1>3
  <2>4. ASSUME NEW i \in (h + 1)..(o - 1), m[i].nonce = x
        PROVE  m[i].pg \in Page /\ m[i].v = c[m[i].pg]
    <3>1. i \in 1..MaxSlot /\ i \in (h + 1)..MaxSlot
      BY <1>0
    <3>2. x[1] = t
      BY DEF Segment
    <3>3. m[i] = s[i]
      BY <3>1, <3>2, <1>1, <2>4 DEF OnDisk
    <3> QED BY <3>3 DEF Segment
  <2>5. N \in Nat /\ N >= o - 1 - h
    BY <1>0
  <2>6. \A i \in h..(o - 1) : SegGood(m, R[i], i, h, c, done, N, x)
    <3> HIDE DEF R, x, N
    <3> QED BY <1>0, <1>1, <2>3, <2>4, <2>5, SegRead DEF R
  <2>7. o - 1 \in h..(o - 1) /\ N - ((o - 1) - h) = 0 /\ o \in 2..(MaxSlot + 1) /\ o # 0
    BY <1>0
  <2>8. o <= MaxSlot => ~HasMagic(m[o])
    <3>1. o <= MaxSlot => o \in 1..MaxSlot
      BY <1>0
    <3> QED BY <3>1, <2>1, <1>1 DEF Ended
  <2>9. Playback(m, 0) = R[o - 1].undo
    <3>1. R[o - 1].on => R[o - 1].left = 0
      BY <2>6, <2>7 DEF SegGood
    <3> QED BY <3>1, <2>7, <2>8, <1>1, SegEnd
  <2> QED BY <2>6, <2>7, <2>9 DEF SegGood
<1> QED BY <1>6, <1>7

(* The header has its count and no other follows, or the reading is told of   *)
(* the header.                                                                *)
Countable(s, d, h, o, l) ==
  /\ l \in {0, h}
  /\ s[h].n = 0 \/ (s[h].n = o - h - 1 /\ Ended(s, d, o))
  /\ l = 0 => s[h].n = o - h - 1

(* Played back, the journal gives those pages, with the contents c. *)
Plays(s, l, c, pages) == Honest(Playback(s, l), c) /\ DOMAIN Playback(s, l) = pages

LEMMA WholeRead ==
  ASSUME NEW s \in Slots, NEW d,
         NEW h, NEW o, NEW t \in Nat, NEW c \in [Page -> Nat], NEW done, NEW need \in SUBSET Page, NEW l,
         Before(s, h, c, done), Segment(s, h, o, t, c, need), Countable(s, d, h, o, l)
  PROVE  Plays(s, l, c, done \cup need)
<1> DEFINE R == Reads(s, l)
           x == s[h].nonce
           b == R[h - 1]
<1>0. /\ h \in 1..MaxSlot /\ o \in (h + 1)..(MaxSlot + 1) /\ MaxSlot \in Nat
      /\ h \in Nat /\ o \in Nat /\ h - 1 \in 0..MaxSlot /\ h \in 0..MaxSlot
  BY PagerAssumption DEF Segment
<1>1. l \in {0, h} /\ l \notin 1..(h - 1)
  BY <1>0 DEF Countable
<1>2. b.on /\ b.left = 0 /\ DOMAIN b.undo = done /\ Honest(b.undo, c)
  <2>1. \A i \in 1..(h - 1) : i = 0 <=> i = l
    BY <1>0, <1>1
  <2>2. h - 1 \in 0..(h - 1)
    BY <1>0
  <2>3. Reads(s, 0)[h - 1] = Reads(s, l)[h - 1]
    BY <1>0, <2>1, <2>2, ReadsPrefix
  <2> QED BY <2>3 DEF Before
<1>3. b \in ReadState /\ s[h] \in Sector
  BY <1>0, ReadsType DEF Slots
<1>4. R[h] = ReadSector(b, s[h], h = l)
  BY <1>0, ReadsDef
<1>5. /\ s[h].pg = 0 /\ x[1] = t
      /\ \A i \in (h + 1)..(o - 1) : s[i].pg \in need /\ s[i].v = c[s[i].pg] /\ s[i].nonce = x
      /\ \A pg \in need : \E i \in (h + 1)..(o - 1) : s[i].pg = pg
      /\ \A i \in o..MaxSlot : s[i].nonce[1] < t
  BY DEF Segment
<1>6. CASE HasMagic(s[h]) \/ l = h
  <2> DEFINE N == IF HasMagic(s[h]) THEN s[h].n ELSE MaxSlot
  <2>1. R[h] = [left |-> N, nonce |-> x, on |-> TRUE, undo |-> b.undo]
    <3>1. CASE HasMagic(s[h])
      BY <3>1, <1>2, <1>3, <1>4, ReadHeader
    <3>2. CASE ~HasMagic(s[h])
      BY <3>2, <1>6, <1>2, <1>3, <1>4, ReadLive
    <3> QED BY <3>1, <3>2
  <2>2. /\ R[h].on /\ R[h].left = N /\ R[h].nonce = x
        /\ DOMAIN R[h].undo = done /\ Honest(R[h].undo, c)
    BY <2>1, <1>2
  <2>3. IF HasMagic(s[h]) THEN N = o - h - 1 /\ Ended(s, d, o) ELSE N = MaxSlot
    BY DEF HasMagic, Countable
  <2>4. N \in Nat /\ N >= o - 1 - h
    BY <1>0, <2>3
  <2>5. \A i \in (h + 1)..(o - 1) : s[i].nonce = x => s[i].pg \in Page /\ s[i].v = c[s[i].pg]
    BY <1>5
  <2>6. \A i \in h..(o - 1) : SegGood(s, R[i], i, h, c, done, N, x)
    <3> HIDE DEF R, x, N
    <3> QED BY <1>0, <2>2, <2>4, <2>5, SegRead DEF R
  <2>7. o - 1 \in h..(o - 1) /\ o \in 2..(MaxSlot + 1) /\ o # 0 /\ o # h /\ o # l
    BY <1>0, <1>1
  <2> DEFINE r == R[o - 1]
  <2>8. /\ Honest(r.undo, c) /\ done \subseteq DOMAIN r.undo /\ r.on
        /\ DOMAIN r.undo \subseteq done \cup {s[j].pg : j \in (h + 1)..(o - 1)}
        /\ \A j \in (h + 1)..(o - 1) : s[j].pg \in DOMAIN r.undo
        /\ r.left = N - ((o - 1) - h) /\ r.nonce = x
    <3> HIDE DEF R, x, N
    <3>1. SegGood(s, r, o - 1, h, c, done, N, x)
      BY <2>6, <2>7
    <3>2. \A j \in (h + 1)..(o - 1) : s[j].nonce = x
      BY <1>5
    <3> QED BY <3>1, <3>2 DEF SegGood
  <2>9. DOMAIN r.undo = done \cup need
    <3> HIDE DEF r
    <3>1. need = {s[j].pg : j \in (h + 1)..(o - 1)}
      BY <1>5
    <3> QED BY <3>1, <2>8
  <2>10. o <= MaxSlot => IF r.left = 0 THEN ~HasMagic(s[o]) /\ o # l ELSE s[o].nonce # r.nonce
    <3>1. CASE HasMagic(s[h])
      <4>1. r.left = 0
        BY <3>1, <2>3, <2>8, <1>0
      <4> QED BY <4>1, <3>1, <2>3, <2>7 DEF Ended
    <3>2. CASE ~HasMagic(s[h])
      <4>1. r.left # 0
        BY <3>2, <2>3, <2>8, <1>0
      <4>2. o <= MaxSlot => s[o].nonce[1] < t
        BY <1>5, <1>0
      <4>3. o <= MaxSlot => s[o].nonce # x
        BY <4>2, <1>5
      <4> QED BY <4>1, <4>3, <2>8
    <3> QED BY <3>1, <3>2
  <2>11. Playback(s, l) = r.undo
    BY <2>7, <2>10, SegEnd
  <2> QED BY <2>8, <2>9, <2>11 DEF Plays
<1>7. CASE ~HasMagic(s[h]) /\ l # h
  <2>1. l = 0 /\ s[h].n = 0 /\ o = h + 1
    BY <1>0, <1>3, <1>5, <1>7, SectorType, <1>1 DEF HasMagic, Countable
  <2>2. need = {}
    BY <2>1, <1>0, <1>5
  <2>3. R[h] = [left |-> 0, nonce |-> b.nonce, on |-> FALSE, undo |-> b.undo]
    BY <1>2, <1>3, <1>4, <1>7, ReadNoHeader
  <2>4. ~R[h].on /\ R[h].undo = b.undo
    BY <2>3
  <2>5. Playback(s, l) = b.undo
    BY <2>4, <1>0, ReadsStop
  <2> QED BY <2>2, <2>5, <1>2 DEF Plays
<1> QED BY <1>6, <1>7

(* A journal without magic at its start is not played back. *)
LEMMA ColdRead ==
  ASSUME NEW s \in Slots, ~HasMagic(s[1])
  PROVE  DOMAIN Playback(s, 0) = {}
<1> DEFINE R == Reads(s, 0)
<1>1. 1 \in 1..MaxSlot /\ 1 \in 0..MaxSlot /\ 0 \in 0..MaxSlot /\ 1 - 1 = 0
  BY PagerAssumption
<1>2. R[0] = ReadStart /\ R[0] \in ReadState /\ s[1] \in Sector
  BY <1>1, ReadsDef, ReadsType DEF Slots
<1>3. R[0].on /\ R[0].left = 0 /\ R[0].undo = NoPages
  BY <1>2 DEF ReadStart
<1>4. R[1] = ReadSector(R[0], s[1], FALSE)
  <2>1. (1 = 0) = FALSE
    OBVIOUS
  <2>2. R[1] = ReadSector(R[0], s[1], 1 = 0)
    BY <1>1, ReadsDef
  <2> QED BY <2>1, <2>2
<1>5. R[1] = [left |-> 0, nonce |-> R[0].nonce, on |-> FALSE, undo |-> R[0].undo]
  <2>1. R[0] \in ReadState /\ s[1] \in Sector /\ R[0].on /\ R[0].left = 0
    BY <1>2, <1>3
  <2> HIDE DEF R
  <2> QED BY <2>1, <1>4, ReadNoHeader
<1>6. ~R[1].on /\ R[1].undo = NoPages
  BY <1>3, <1>5
<1> QED BY <1>1, <1>6, ReadsStop, NoPagesType

LEMMA FirstHeader ==
  ASSUME NEW s, NEW c
  PROVE  Before(s, 1, c, {})
<1>1. Reads(s, 0)[0] = ReadStart /\ 1 - 1 = 0
  BY ReadsDef
<1> QED BY <1>1, NoPagesType DEF Before, ReadStart, Honest

-------------------------------------------------------------------------------
(* Types and locks.  Most steps are of one process p, which goes to state S   *)
(* with the lock L.                                                           *)

LockedAs(S, L, mine) ==
  /\ S = "OPEN" <=> L = NO_LOCK
  /\ S \in Sharing <=> L = SHARED_LOCK
  /\ S \in Exclusive => L = EXCLUSIVE_LOCK
  /\ mine <=> L >= RESERVED_LOCK /\ S # "HOT_EXCLUSIVE"

Granted(p, L) ==
  \A q \in Proc \ {p} :
    /\ L >= RESERVED_LOCK => lock[q] <= SHARED_LOCK
    /\ L = EXCLUSIVE_LOCK => lock[q] = NO_LOCK
    /\ lock[q] >= RESERVED_LOCK => L <= SHARED_LOCK
    /\ lock[q] = EXCLUSIVE_LOCK => L = NO_LOCK

Moves(p, S, L) == lock' = [lock EXCEPT ![p] = L] /\ st' = [st EXCEPT ![p] = S]

(* w belongs to p or to nobody, before and after. *)
Takes(p) ==
  \/ w' = w
  \/ w.proc \in {p, None} /\ (w'.proc = p \/ w' = NoWriter)

LEMMA Levels ==
  /\ NO_LOCK = 0 /\ SHARED_LOCK = 1 /\ RESERVED_LOCK = 2 /\ PENDING_LOCK = 3 /\ EXCLUSIVE_LOCK = 4
  /\ LockLevel = 0..4
BY DEF NO_LOCK, SHARED_LOCK, RESERVED_LOCK, PENDING_LOCK, EXCLUSIVE_LOCK, LockLevel

LEMMA NoneFact == None \notin Proc /\ None \notin Nat /\ NoWriter.proc = None
BY PagerAssumption DEF None, NoWriter

LEMMA NoWriterType == NoWriter \in Writers
BY NoPagesType DEF NoWriter, Writers

LEMMA GrantedDown ==
  ASSUME ProcTypes, LockInv, NEW p \in Proc, NEW L \in LockLevel, L <= lock[p]
  PROVE  Granted(p, L)
<1>1. SUFFICES ASSUME NEW q \in Proc \ {p}
               PROVE  /\ L >= RESERVED_LOCK => lock[q] <= SHARED_LOCK
                      /\ L = EXCLUSIVE_LOCK => lock[q] = NO_LOCK
                      /\ lock[q] >= RESERVED_LOCK => L <= SHARED_LOCK
                      /\ lock[q] = EXCLUSIVE_LOCK => L = NO_LOCK
  BY DEF Granted
<1>2. Alone(p, q) /\ Alone(q, p)
  BY DEF LockInv
<1>3. lock[p] \in 0..4 /\ lock[q] \in 0..4 /\ L \in 0..4
  BY Levels DEF ProcTypes
<1> QED BY <1>2, <1>3, Levels DEF Alone

LEMMA LockFrame ==
  ASSUME ProcTypes, LockInv, NEW p \in Proc, NEW L \in LockLevel, NEW S \in States,
         Moves(p, S, L), Takes(p), LockedAs(S, L, w'.proc = p), Granted(p, L)
  PROVE  LockInv'
<1>1. /\ lock'[p] = L /\ st'[p] = S
      /\ \A q \in Proc \ {p} : lock'[q] = lock[q] /\ st'[q] = st[q]
  BY DEF Moves, ProcTypes
<1>2. \A q \in Proc \ {p} : w'.proc = q <=> w.proc = q
  BY NoneFact DEF Takes
<1>3. w'.proc = None => w' = NoWriter
  BY NoneFact DEF Takes, LockInv
<1>4. ASSUME NEW q \in Proc
      PROVE  Locked(q)'
  <2>1. CASE q = p
    BY <2>1, <1>1 DEF LockedAs, Locked
  <2>2. CASE q # p
    <3>1. Locked(q)
      BY DEF LockInv
    <3> QED BY <2>2, <3>1, <1>1, <1>2 DEF Locked
  <2> QED BY <2>1, <2>2
<1>5. ASSUME NEW q \in Proc, NEW r \in Proc, q # r
      PROVE  Alone(q, r)'
  <2>1. CASE q = p
    BY <2>1, <1>1, <1>5 DEF Granted, Alone
  <2>2. CASE r = p
    BY <2>2, <1>1, <1>5 DEF Granted, Alone
  <2>3. CASE q # p /\ r # p
    <3>1. Alone(q, r)
      BY <1>5 DEF LockInv
    <3> QED BY <2>3, <3>1, <1>1 DEF Alone
  <2> QED BY <2>1, <2>2, <2>3
<1> QED BY <1>3, <1>4, <1>5 DEF LockInv

(* Who is in a state of the writer is the one that w describes. *)
LEMMA Owner ==
  ASSUME ProcTypes, LockInv, NEW p \in Proc
  PROVE  /\ st[p] \in Live \cup {"WRITER_LOCKED", "PLAYBACK", "UNDO", "ERROR"} <=> w.proc = p
         /\ lock[p] \in 0..4 /\ st[p] \in States
<1>1. Locked(p) /\ lock[p] \in 0..4 /\ st[p] \in States
  BY Levels DEF LockInv, ProcTypes
<1> QED BY <1>1, Levels DEF Locked, States, Writing, Live, Building, Syncing, Closing, Sharing, Exclusive

LEMMA TypeFrame ==
  ASSUME TypeInv, NEW p \in Proc, NEW L \in LockLevel, NEW S \in States,
         Moves(p, S, L), Takes(p), LockedAs(S, L, w'.proc = p), Granted(p, L),
         FileTypes', cache' \in [Proc -> [Page -> Content]], vers' \in [Proc -> Nat],
         counted' \in [Proc -> BOOLEAN], \A q \in Proc \ {p} : cache'[q] = cache[q],
         Present(p)'
  PROVE  TypeInv'
<1>1. ProcTypes /\ LockInv
  BY DEF TypeInv
<1>2. LockInv'
  BY <1>1, LockFrame
<1>3. ProcTypes'
  BY <1>1 DEF ProcTypes, Moves
<1>4. ASSUME NEW q \in Proc \ {p}
      PROVE  Present(q)'
  <2>1. st'[q] = st[q] /\ cache'[q] = cache[q] /\ Present(q)
    BY <1>1 DEF Moves, ProcTypes, TypeInv
  <2>2. st[q] \in Live \cup {"WRITER_LOCKED"} => w.proc = q
    BY <1>1, Owner
  <2>3. st[q] \in Live \cup {"WRITER_LOCKED"} => w' = w
    BY <2>2, NoneFact DEF Takes
  <2> QED BY <2>1, <2>3 DEF Present
<1> QED BY <1>2, <1>3, <1>4 DEF TypeInv

(* The steps that change no file, no cache and nothing of w. *)
LEMMA LightTypes ==
  ASSUME TypeInv, NEW p \in Proc, NEW L \in LockLevel, NEW S \in States,
         Moves(p, S, L), LockedAs(S, L, w.proc = p), Granted(p, L),
         UNCHANGED <<files, cache, vers, w, txn, com>>, counted' \in [Proc -> BOOLEAN],
         S \in Loaded => st[p] \in Loaded, S \in Live => st[p] \in Live,
         S = "WRITER_LOCKED" => st[p] = "WRITER_LOCKED"
  PROVE  TypeInv'
<1>1. ProcTypes /\ LockInv /\ FileTypes /\ Present(p)
  BY DEF TypeInv
<1>2. FileTypes' /\ w' = w /\ cache' = cache /\ vers' = vers
  BY <1>1 DEF FileTypes, files
<1>3. st'[p] = S
  BY <1>1 DEF Moves, ProcTypes
<1>4. Present(p)'
  BY <1>1, <1>2, <1>3 DEF Present
<1> QED BY <1>1, <1>2, <1>4, TypeFrame DEF Takes, ProcTypes

LEMMA LockStays ==
  ASSUME ProcTypes, NEW p \in Proc, NEW S, lock' = lock, st' = [st EXCEPT ![p] = S]
  PROVE  Moves(p, S, lock[p])
<1>1. [lock EXCEPT ![p] = lock[p]] = lock
  BY DEF ProcTypes
<1> QED BY <1>1 DEF Moves

LEMMA StepFacts ==
  ASSUME TypeInv, NEW p \in Proc
  PROVE  /\ ProcTypes /\ LockInv /\ FileTypes /\ Present(p) /\ Locked(p)
         /\ lock[p] \in 0..4 /\ lock[p] \in LockLevel /\ st[p] \in States /\ DOMAIN lock = Proc
         /\ counted \in [Proc -> BOOLEAN]
         /\ LockedAs(st[p], lock[p], w.proc = p) /\ Granted(p, lock[p]) /\ Granted(p, NO_LOCK)
         /\ lock[p] >= SHARED_LOCK => Granted(p, SHARED_LOCK)
<1>1. /\ ProcTypes /\ LockInv /\ FileTypes /\ Present(p) /\ Locked(p) /\ lock[p] \in 0..4
      /\ lock[p] \in LockLevel /\ st[p] \in States /\ counted \in [Proc -> BOOLEAN]
      /\ DOMAIN lock = Proc
  BY Levels DEF TypeInv, LockInv, ProcTypes
<1>2. LockedAs(st[p], lock[p], w.proc = p)
  BY <1>1 DEF Locked, LockedAs
<1>3. lock[p] <= lock[p] /\ NO_LOCK <= lock[p] /\ NO_LOCK \in LockLevel /\ SHARED_LOCK \in LockLevel
  BY <1>1, Levels
<1>4. Granted(p, lock[p]) /\ Granted(p, NO_LOCK) /\ (lock[p] >= SHARED_LOCK => Granted(p, SHARED_LOCK))
  BY <1>1, <1>3, GrantedDown
<1> QED BY <1>1, <1>2, <1>4

(* The states by what they go with. *)
LEMMA StateFacts ==
  /\ "OPEN" \in States /\ Sharing \subseteq States /\ Exclusive \subseteq States
  /\ Live \subseteq States /\ Writing \subseteq States
  /\ Sharing \cap Loaded = {"READER"} /\ Sharing \cap Live = {} /\ "OPEN" \notin Loaded \cup Live
  /\ \A m \in BOOLEAN : LockedAs("OPEN", NO_LOCK, m) <=> ~m
  /\ \A S \in Sharing, m \in BOOLEAN : LockedAs(S, SHARED_LOCK, m) <=> ~m
  /\ \A S \in Exclusive \ {"HOT_EXCLUSIVE"}, m \in BOOLEAN : LockedAs(S, EXCLUSIVE_LOCK, m) <=> m
  /\ \A S \in Writing \cup {"ERROR"} : S \notin Sharing \cup {"OPEN", "HOT_EXCLUSIVE"}
BY Levels DEF States, Sharing, Exclusive, Live, Writing, Loaded, Building, Syncing, Closing, LockedAs

LEMMA SharedLockTypes ==
  ASSUME TypeInv, NEW p \in Proc, SharedLock(p)
  PROVE  TypeInv'
<1>1. Moves(p, "SHARED", SHARED_LOCK) /\ st[p] = "OPEN" /\ GetsShared(lock, p)
  BY DEF SharedLock, Goto, Moves
<1>2. UNCHANGED <<files, cache, vers, w, txn, com>> /\ counted' = counted
  BY DEF SharedLock
<1>3. w.proc # p
  BY StepFacts, <1>1 DEF Locked, NO_LOCK, RESERVED_LOCK
<1>4. Granted(p, SHARED_LOCK)
  <2>1. \A q \in Proc \ {p} : lock[q] < 3 /\ lock[q] \in 0..4
    BY StepFacts, <1>1, Levels DEF GetsShared, Below
  <2> QED BY <2>1, Levels DEF Granted
<1>5. LockedAs("SHARED", SHARED_LOCK, w.proc = p)
  BY <1>3, Levels DEF LockedAs, Sharing, Exclusive, Syncing, Closing
<1>6. "SHARED" \in States /\ "SHARED" \notin Loaded /\ "SHARED" \notin Live /\ SHARED_LOCK \in LockLevel
  BY Levels DEF States, Loaded, Live, Building, Syncing, Closing
<1> QED BY <1>1, <1>2, <1>4, <1>5, <1>6, StepFacts, LightTypes

(* A reader goes from one state with SHARED to another. *)
LEMMA SharingTypes ==
  ASSUME TypeInv, NEW p \in Proc, NEW S \in Sharing, st[p] \in Sharing, S # "READER",
         lock' = lock, st' = [st EXCEPT ![p] = S],
         UNCHANGED <<files, cache, vers, counted, w, txn, com>>
  PROVE  TypeInv'
<1>1. lock[p] = SHARED_LOCK /\ w.proc # p
  BY StepFacts, Levels DEF Locked
<1>2. Moves(p, S, SHARED_LOCK)
  BY <1>1, StepFacts, LockStays
<1>3. Granted(p, SHARED_LOCK) /\ SHARED_LOCK \in LockLevel
  BY <1>1, StepFacts, Levels
<1>4. LockedAs(S, SHARED_LOCK, w.proc = p) /\ S \in States /\ S \notin Loaded /\ S \notin Live
  BY <1>1, StateFacts
<1>5. S # "WRITER_LOCKED"
  BY DEF Sharing
<1> QED BY <1>1, <1>2, <1>3, <1>4, <1>5, StepFacts, LightTypes

LEMMA ReaderTypes ==
  ASSUME TypeInv, NEW p \in Proc, JournalExists(p) \/ CheckReserved(p) \/ FirstByte(p)
  PROVE  TypeInv'
<1>1. /\ st[p] \in Sharing /\ lock' = lock /\ UNCHANGED <<files, cache, vers, counted, w, txn, com>>
      /\ \E S \in {"EXISTS", "CHECKED", "UNRESERVED", "HOT"} : st' = [st EXCEPT ![p] = S]
  BY DEF JournalExists, CheckReserved, FirstByte, Goto, Sharing
<1>2. PICK S \in {"EXISTS", "CHECKED", "UNRESERVED", "HOT"} : st' = [st EXCEPT ![p] = S]
  BY <1>1
<1>3. S \in Sharing /\ S # "READER"
  BY DEF Sharing
<1> QED BY <1>1, <1>2, <1>3, SharingTypes

LEMMA HotLockTypes ==
  ASSUME TypeInv, NEW p \in Proc, HotLock(p)
  PROVE  TypeInv'
<1>1. st[p] = "HOT" /\ UNCHANGED <<files, cache, vers, w, txn, com>> /\ counted' = counted
  BY DEF HotLock
<1>2. w.proc # p
  BY <1>1, StepFacts, Levels DEF Locked, Sharing
<1>3. CASE GetsExclusive(lock, p)
  <2>1. Moves(p, "HOT_EXCLUSIVE", EXCLUSIVE_LOCK)
    BY <1>3 DEF HotLock, Goto, Moves
  <2>2. \A q \in Proc \ {p} : lock[q] < 1 /\ lock[q] \in 0..4
    BY StepFacts, <1>3, Levels DEF GetsExclusive, Below
  <2>3. Granted(p, EXCLUSIVE_LOCK)
    BY <2>2, Levels DEF Granted
  <2>4. /\ LockedAs("HOT_EXCLUSIVE", EXCLUSIVE_LOCK, w.proc = p) /\ "HOT_EXCLUSIVE" \in States
        /\ "HOT_EXCLUSIVE" \notin Loaded /\ "HOT_EXCLUSIVE" \notin Live /\ EXCLUSIVE_LOCK \in LockLevel
    BY <1>2, Levels DEF LockedAs, Sharing, Exclusive, States, Loaded, Live, Building, Syncing, Closing
  <2> QED BY <1>1, <2>1, <2>3, <2>4, StepFacts, LightTypes
<1>4. CASE ~GetsExclusive(lock, p)
  <2>1. Moves(p, "OPEN", NO_LOCK)
    BY <1>4 DEF HotLock, Goto, Moves
  <2>2. LockedAs("OPEN", NO_LOCK, w.proc = p) /\ NO_LOCK \in LockLevel
    BY <1>2, Levels DEF LockedAs, Sharing, Exclusive, Syncing, Closing
  <2> QED BY <1>1, <2>1, <2>2, StepFacts, StateFacts, LightTypes
<1> QED BY <1>3, <1>4

LEMMA UnlockTypes ==
  ASSUME TypeInv, NEW p \in Proc, Unlock(p)
  PROVE  TypeInv'
<1>1. /\ st[p] = "READER" /\ UNCHANGED <<files, cache, vers, w, txn, com>>
      /\ counted' \in [Proc -> BOOLEAN] /\ Moves(p, "OPEN", NO_LOCK)
  BY StepFacts DEF Unlock, Goto, Moves
<1>2. w.proc # p
  BY <1>1, StepFacts, Levels DEF Locked, Sharing
<1>3. LockedAs("OPEN", NO_LOCK, w.proc = p) /\ NO_LOCK \in LockLevel
  BY <1>2, Levels DEF LockedAs, Sharing, Exclusive, Syncing, Closing
<1> QED BY <1>1, <1>3, StepFacts, StateFacts, LightTypes

LEMMA ExclusiveLockTypes ==
  ASSUME TypeInv, NEW p \in Proc, ExclusiveLock(p)
  PROVE  TypeInv'
<1> DEFINE L == IF GetsExclusive(lock, p) THEN EXCLUSIVE_LOCK ELSE PENDING_LOCK
<1>1. /\ st[p] \in Writing /\ UNCHANGED <<files, cache, vers, w, txn, com>> /\ counted' = counted
      /\ lock' = [lock EXCEPT ![p] = L] /\ st' = st /\ lock[p] < 4
  BY Levels DEF ExclusiveLock
<1>2. Moves(p, st[p], L)
  <2>1. [st EXCEPT ![p] = st[p]] = st
    BY StepFacts DEF ProcTypes
  <2> QED BY <2>1, <1>1 DEF Moves
<1>3. lock[p] \in {2, 3} /\ w.proc = p /\ st[p] \notin Exclusive
  <2>1. st[p] \notin Sharing \cup {"OPEN", "HOT_EXCLUSIVE"}
    BY <1>1, StateFacts
  <2> QED BY <1>1, <2>1, StepFacts, Levels DEF Locked
<1>4. \A q \in Proc \ {p} : lock[q] <= 1 /\ lock[q] \in 0..4
  BY <1>3, StepFacts, Levels DEF Granted
<1>5. Granted(p, L)
  <2>1. CASE GetsExclusive(lock, p)
    <3>1. \A q \in Proc \ {p} : lock[q] < 1 /\ lock[q] \in 0..4
      BY StepFacts, <2>1, Levels DEF GetsExclusive, Below
    <3> QED BY <2>1, <3>1, Levels DEF Granted
  <2>2. CASE ~GetsExclusive(lock, p)
    BY <2>2, <1>4, Levels DEF Granted
  <2> QED BY <2>1, <2>2
<1>6. LockedAs(st[p], L, w.proc = p) /\ L \in LockLevel
  <2>1. st[p] \notin Sharing \cup {"OPEN", "HOT_EXCLUSIVE"}
    BY <1>1, StateFacts
  <2> QED BY <2>1, <1>3, Levels DEF LockedAs
<1> HIDE DEF L
<1> QED BY <1>1, <1>2, <1>5, <1>6, StepFacts, LightTypes

LEMMA IoErrorTypes ==
  ASSUME TypeInv, NEW p \in Proc, IoError(p)
  PROVE  TypeInv'
<1>1. /\ st[p] \in {"WRITER_DBMOD", "UNDO", "PLAYBACK", "WRITER_FINISHED"}
      /\ UNCHANGED <<files, cache, vers, w, txn, com>> /\ counted' = counted
      /\ lock' = lock /\ st' = [st EXCEPT ![p] = "ERROR"]
  BY DEF IoError, Goto
<1>2. lock[p] = EXCLUSIVE_LOCK /\ w.proc = p
  BY <1>1, StepFacts, Levels DEF Locked, Exclusive, Closing
<1>3. Moves(p, "ERROR", EXCLUSIVE_LOCK) /\ Granted(p, EXCLUSIVE_LOCK) /\ EXCLUSIVE_LOCK \in LockLevel
  BY <1>1, <1>2, StepFacts, LockStays
<1>4. /\ LockedAs("ERROR", EXCLUSIVE_LOCK, w.proc = p) /\ "ERROR" \in States
      /\ "ERROR" \notin Loaded /\ "ERROR" \notin Live
  BY <1>2, Levels DEF LockedAs, Sharing, Exclusive, States, Loaded, Live, Building, Syncing, Closing
<1> QED BY <1>1, <1>3, <1>4, StepFacts, LightTypes

(* The values that are written. *)
LEMMA SectorTypes ==
  /\ Gap \in Sector /\ Empty \in Slots /\ NoJournal \in Journals
  /\ \A n \in Nat, c \in Nat \X Nat : Header(n, c) \in Sector
  /\ \A pg \in Page, v \in Nat, c \in Nat \X Nat : Record(pg, v, c) \in Sector
  /\ 0 \notin Page /\ None \notin Page /\ 1 \in Page
<1>1. 0 \notin Page /\ None \notin Page /\ 1 \in Page
  BY PagerAssumption DEF Page, None
<1>2. None \in Content /\ None \in Page \cup {0, None} /\ <<0, 0>> \in Nat \X Nat /\ 0 \in Nat
  BY DEF Content
<1>3. Gap \in Sector
  BY <1>1, <1>2 DEF Gap, Sector
<1>4. Empty \in Slots
  BY <1>3 DEF Empty, Slots
<1>5. NoJournal \in Journals
  BY <1>4 DEF NoJournal, Journals
<1>6. \A n \in Nat, c \in Nat \X Nat : Header(n, c) \in Sector
  BY <1>1, <1>2 DEF Header, Sector
<1>7. \A pg \in Page, v \in Nat, c \in Nat \X Nat : Record(pg, v, c) \in Sector
  BY DEF Record, Sector, Content
<1> QED BY <1>1, <1>3, <1>4, <1>5, <1>6, <1>7

LEMMA JournalFields ==
  ASSUME FileTypes
  PROVE  /\ jrnl.here \in BOOLEAN /\ jrnl.durable \in BOOLEAN /\ jrnl.slot \in Slots
         /\ jrnl = [here |-> jrnl.here, durable |-> jrnl.durable, slot |-> jrnl.slot]
         /\ \A i \in 1..MaxSlot : jrnl.slot[i] \in Sector /\ jrnl.slot[i].nonce \in Nat \X Nat
         /\ w.proc \in Proc \cup {None} /\ w.off \in Nat /\ w.hdr \in Nat
         /\ w.inJournal \in SUBSET Page /\ w.needSync \in SUBSET Page /\ w.dirty \in SUBSET Page
         /\ w.todo \in Undo /\ w.fin \in BOOLEAN
<1>1. /\ jrnl.here \in BOOLEAN /\ jrnl.durable \in BOOLEAN /\ jrnl.slot \in Slots
      /\ jrnl = [here |-> jrnl.here, durable |-> jrnl.durable, slot |-> jrnl.slot]
  BY DEF FileTypes, Journals
<1>2. \A i \in 1..MaxSlot : jrnl.slot[i] \in Sector
  BY <1>1 DEF Slots
<1>3. \A i \in 1..MaxSlot : jrnl.slot[i].nonce \in Nat \X Nat
  BY <1>2, SectorType
<1>4. /\ w.proc \in Proc \cup {None} /\ w.off \in Nat /\ w.hdr \in Nat
      /\ w.inJournal \in SUBSET Page /\ w.needSync \in SUBSET Page /\ w.dirty \in SUBSET Page
      /\ w.todo \in Undo /\ w.fin \in BOOLEAN
  BY DEF FileTypes, Writers
<1> QED BY <1>1, <1>2, <1>3, <1>4

LEMMA SlotExcept ==
  ASSUME NEW s \in Slots, NEW i, NEW e \in Sector
  PROVE  [s EXCEPT ![i] = e] \in Slots
BY DEF Slots

LEMMA OverType ==
  ASSUME NEW u \in Undo, NEW T, Nat \subseteq T, NEW f \in [Page -> T]
  PROVE  /\ Over(u, f) \in [Page -> T]
         /\ \A pg \in Page : Over(u, f)[pg] = IF pg \in DOMAIN u THEN u[pg] ELSE f[pg]
<1>1. DOMAIN u \subseteq Page /\ \A pg \in DOMAIN u : u[pg] \in Nat
  BY UndoType
<1>2. DOMAIN u \cup DOMAIN f = Page
  BY <1>1
<1>3. Over(u, f) = [pg \in Page |-> IF pg \in DOMAIN u THEN u[pg] ELSE f[pg]]
  BY <1>2 DEF Over
<1> QED BY <1>1, <1>3

LEMMA FinalizeTypes ==
  ASSUME FileTypes, NEW m, NEW hot \in BOOLEAN, Finalize(m, hot)
  PROVE  jrnl' \in Journals /\ jDisk' \in Slots /\ ghosts' \in SUBSET Ghosts
<1>1. CASE m # "DELETE" /\ w.off = 0 /\ UNCHANGED <<jrnl, jDisk, ghosts>>
  BY <1>1 DEF FileTypes
<1>2. CASE /\ m = "DELETE" \/ (m = "TRUNCATE" /\ w.off > 0)
           /\ jrnl' = IF m = "DELETE" THEN NoJournal ELSE [jrnl EXCEPT !.slot = Empty]
           /\ SyncJrnl
           /\ ghosts' = ghosts \cup {[slot |-> jrnl.slot, disk |-> jDisk, com |-> com]}
  <2>1. jrnl' \in Journals
    BY <1>2, SectorTypes, JournalFields DEF Journals
  <2>2. jDisk' \in Slots
    BY <1>2, <2>1 DEF SyncJrnl, Journals
  <2>3. [slot |-> jrnl.slot, disk |-> jDisk, com |-> com] \in Ghosts
    BY JournalFields DEF FileTypes, Ghosts
  <2>4. ghosts' \in SUBSET Ghosts
    BY <1>2, <2>3 DEF FileTypes
  <2> QED BY <2>1, <2>2, <2>4
<1>3. CASE /\ m = "PERSIST" /\ w.off > 0
           /\ LET z == [jrnl.slot EXCEPT ![1] = Header(0, <<0, 0>>)] IN
                jrnl' = [jrnl EXCEPT !.slot = z, !.durable = ~hot \/ @]
           /\ SyncJrnl
           /\ ghosts' = IF hot THEN ghosts ELSE {}
  <2> DEFINE z == [jrnl.slot EXCEPT ![1] = Header(0, <<0, 0>>)]
  <2>1. Header(0, <<0, 0>>) \in Sector
    BY SectorTypes
  <2>2. z \in Slots
    BY <2>1, JournalFields, SlotExcept
  <2>3. jrnl' = [jrnl EXCEPT !.slot = z, !.durable = ~hot \/ @]
    BY <1>3
  <2> HIDE DEF z
  <2>4. (~hot \/ jrnl.durable) \in BOOLEAN
    OBVIOUS
  <2>5. jrnl' = [here |-> jrnl.here, durable |-> (~hot \/ jrnl.durable), slot |-> z]
    BY <2>3, JournalFields
  <2>6. jrnl' \in Journals /\ jrnl'.slot = z
    BY <2>2, <2>4, <2>5, JournalFields DEF Journals
  <2>7. jDisk' \in Slots
    BY <1>3, <2>2, <2>6 DEF SyncJrnl
  <2>8. ghosts' \in SUBSET Ghosts
    BY <1>3 DEF FileTypes
  <2> QED BY <2>6, <2>7, <2>8
<1> QED BY <1>1, <1>2, <1>3 DEF Finalize

LEMMA HotRecheckTypes ==
  ASSUME TypeInv, NEW p \in Proc, HotRecheck(p)
  PROVE  TypeInv'
<1>1. st[p] = "HOT_EXCLUSIVE" /\ UNCHANGED <<vers, counted, txn, com>>
  BY DEF HotRecheck
<1>2. lock[p] = EXCLUSIVE_LOCK /\ w.proc # p
  BY <1>1, StepFacts, Levels DEF Locked, Exclusive
<1>3. w.proc = None
  <2>1. \A q \in Proc \ {p} : lock[q] = 0
    BY <1>2, StepFacts, Levels DEF Granted
  <2>2. \A q \in Proc \ {p} : Locked(q)
    BY StepFacts DEF LockInv
  <2>3. \A q \in Proc : w.proc # q
    BY <1>2, <2>1, <2>2, Levels DEF Locked
  <2> QED BY <2>3, StepFacts, JournalFields
<1>4. CASE /\ ~jrnl.here
           /\ lock' = [lock EXCEPT ![p] = SHARED_LOCK] /\ Goto(p, "CHECKED")
           /\ UNCHANGED <<files, cache, w>>
  <2>1. Moves(p, "CHECKED", SHARED_LOCK) /\ Granted(p, SHARED_LOCK)
    BY <1>2, <1>4, StepFacts, Levels DEF Moves, Goto
  <2>2. /\ LockedAs("CHECKED", SHARED_LOCK, w.proc = p) /\ SHARED_LOCK \in LockLevel
        /\ "CHECKED" \in States /\ "CHECKED" \notin Loaded /\ "CHECKED" \notin Live
    BY <1>2, Levels DEF LockedAs, Sharing, Exclusive, States, Loaded, Live, Building, Syncing, Closing
  <2> QED BY <1>1, <1>4, <2>1, <2>2, StepFacts, LightTypes
<1>5. CASE /\ jrnl.here
           /\ jDisk' = jrnl.slot
           /\ w' = [NoWriter EXCEPT !.proc = p, !.todo = Playback(jrnl.slot, 0),
                                    !.off = IF HasMagic(jrnl.slot[1]) THEN 1 ELSE 0]
           /\ cache' = IF w'.todo = NoPages THEN cache ELSE NoCache(p)
           /\ Goto(p, "PLAYBACK")
           /\ UNCHANGED <<lock, db, dbLoss, jrnl, ghosts>>
  <2>1. Moves(p, "PLAYBACK", EXCLUSIVE_LOCK) /\ Granted(p, EXCLUSIVE_LOCK)
    BY <1>2, <1>5, StepFacts, LockStays DEF Goto
  <2>2. Playback(jrnl.slot, 0) \in Undo
    BY StepFacts, JournalFields, PlaybackType
  <2>3. w' \in Writers /\ w'.proc = p
    BY <1>5, <2>2, NoWriterType DEF Writers
  <2>4. /\ LockedAs("PLAYBACK", EXCLUSIVE_LOCK, w'.proc = p) /\ EXCLUSIVE_LOCK \in LockLevel
        /\ "PLAYBACK" \in States /\ "PLAYBACK" \notin Loaded /\ "PLAYBACK" \notin Live
    BY <2>3, Levels DEF LockedAs, Sharing, Exclusive, States, Loaded, Live, Building, Syncing, Closing
  <2>5. FileTypes'
    BY <1>1, <1>5, <2>3, StepFacts, JournalFields DEF FileTypes
  <2>6. cache' \in [Proc -> [Page -> Content]] /\ \A q \in Proc \ {p} : cache'[q] = cache[q]
    BY <1>5, StepFacts DEF NoCache, ProcTypes, Content
  <2>7. Present(p)'
    <3>1. st'[p] = "PLAYBACK"
      BY <1>5, StepFacts DEF Goto, ProcTypes
    <3> QED BY <3>1, <2>4 DEF Present
  <2> QED BY <1>1, <1>3, <2>1, <2>3, <2>4, <2>5, <2>6, <2>7, StepFacts, TypeFrame DEF Takes, ProcTypes
<1> QED BY <1>4, <1>5 DEF HotRecheck

LEMMA ValidateTypes ==
  ASSUME TypeInv, NEW p \in Proc, Validate(p)
  PROVE  TypeInv'
<1>1. /\ st[p] = "CHECKED" /\ UNCHANGED <<files, lock, counted, w, txn, com>>
      /\ st' = [st EXCEPT ![p] = "READER"] /\ vers' = [vers EXCEPT ![p] = db[1]]
  BY DEF Validate, Goto
<1>2. lock[p] = SHARED_LOCK /\ w.proc # p
  BY <1>1, StepFacts, Levels DEF Locked, Sharing
<1>3. Moves(p, "READER", SHARED_LOCK) /\ Granted(p, SHARED_LOCK)
  BY <1>1, <1>2, StepFacts, LockStays, Levels
<1>4. /\ LockedAs("READER", SHARED_LOCK, w.proc = p) /\ SHARED_LOCK \in LockLevel
      /\ "READER" \in States /\ "READER" \notin Live
  BY <1>2, Levels DEF LockedAs, Sharing, Exclusive, States, Live, Building, Syncing, Closing
<1>5. FileTypes' /\ w' = w
  BY <1>1, StepFacts DEF FileTypes, files
<1>6. db[1] \in Nat /\ 1 \in Page /\ vers' \in [Proc -> Nat]
  BY <1>1, StepFacts, SectorTypes DEF FileTypes, ProcTypes
<1> DEFINE fresh == [pg \in Page |-> IF pg = 1 THEN db[1] ELSE None]
           c == IF cache[p][1] # None /\ vers[p] = db[1] THEN cache[p] ELSE fresh
<1>7. cache' = [cache EXCEPT ![p] = c]
  BY DEF Validate
<1>8. c \in [Page -> Content] /\ c[1] # None
  <2>1. fresh \in [Page -> Content] /\ fresh[1] = db[1]
    BY <1>6 DEF Content
  <2> HIDE DEF fresh
  <2> QED BY <2>1, <1>6, StepFacts, NoneFact DEF ProcTypes
<1> HIDE DEF c
<1>9. cache' \in [Proc -> [Page -> Content]] /\ cache'[p] = c /\ \A q \in Proc \ {p} : cache'[q] = cache[q]
  BY <1>7, <1>8, StepFacts DEF ProcTypes
<1>10. Present(p)'
  <2>1. st'[p] = "READER"
    BY <1>1, StepFacts DEF ProcTypes
  <2>2. cache'[p][1] \in Nat
    BY <1>6, <1>8, <1>9 DEF Content
  <2> QED BY <2>1, <2>2, <1>4 DEF Present
<1> QED BY <1>1, <1>3, <1>4, <1>5, <1>6, <1>9, <1>10, StepFacts, TypeFrame DEF Takes

LEMMA ReadTypes ==
  ASSUME TypeInv, NEW p \in Proc, NEW pg \in Page, Read(p, pg)
  PROVE  TypeInv'
<1>1. /\ UNCHANGED <<files, lock, st, vers, counted, w, txn, com>>
      /\ cache[p][pg] = None /\ cache' = [cache EXCEPT ![p][pg] = db[pg]]
  BY DEF Read
<1>2. Moves(p, st[p], lock[p])
  <2>1. [st EXCEPT ![p] = st[p]] = st
    BY StepFacts DEF ProcTypes
  <2> QED BY <1>1, <2>1, StepFacts, LockStays
<1>3. FileTypes' /\ w' = w
  BY <1>1, StepFacts DEF FileTypes, files
<1>4. db[pg] \in Nat
  BY StepFacts DEF FileTypes
<1>5. /\ cache' \in [Proc -> [Page -> Content]] /\ \A q \in Proc \ {p} : cache'[q] = cache[q]
      /\ cache'[p][pg] \in Nat /\ \A r \in Page \ {pg} : cache'[p][r] = cache[p][r]
  BY <1>1, <1>4, StepFacts DEF ProcTypes, Content
<1>6. Present(p)'
  <2>1. \A r \in Page : cache[p][r] \in Nat => cache'[p][r] \in Nat
    BY <1>5
  <2>2. 1 \in Page /\ w.inJournal \subseteq Page
    BY SectorTypes, StepFacts, JournalFields
  <2> QED BY <1>1, <1>3, <2>1, <2>2, StepFacts DEF Present
<1> QED BY <1>1, <1>2, <1>3, <1>5, <1>6, StepFacts, TypeFrame DEF Takes, ProcTypes

LEMMA BeginTypes ==
  ASSUME TypeInv, NEW p \in Proc, Begin(p)
  PROVE  TypeInv'
<1>1. /\ st[p] = "READER" /\ txn' = txn + 1 /\ w' = [NoWriter EXCEPT !.proc = p]
      /\ UNCHANGED <<files, cache, vers, counted, com>> /\ Moves(p, "WRITER_LOCKED", RESERVED_LOCK)
  BY DEF Begin, Goto, Moves
<1>2. \A q \in Proc \ {p} : lock[q] < 2 /\ lock[q] \in 0..4
  BY StepFacts, Levels DEF Begin, GetsReserved, Below
<1>3. Granted(p, RESERVED_LOCK)
  BY <1>2, Levels DEF Granted
<1>4. w.proc = None
  <2>1. \A q \in Proc \ {p} : Locked(q)
    BY StepFacts DEF LockInv
  <2>2. w.proc # p
    BY <1>1, StepFacts, Levels DEF Locked, Sharing
  <2>3. \A q \in Proc : w.proc # q
    BY <1>2, <2>1, <2>2, Levels DEF Locked
  <2> QED BY <2>3, StepFacts, JournalFields
<1>5. w' \in Writers /\ w'.proc = p /\ w'.inJournal = {} /\ w'.needSync = {} /\ w'.dirty = {}
  BY <1>1, NoWriterType DEF Writers, NoWriter
<1>6. /\ LockedAs("WRITER_LOCKED", RESERVED_LOCK, w'.proc = p) /\ RESERVED_LOCK \in LockLevel
      /\ "WRITER_LOCKED" \in States /\ "WRITER_LOCKED" \notin Live
  BY <1>5, Levels DEF LockedAs, Sharing, Exclusive, States, Writing, Live, Building, Syncing, Closing
<1>7. FileTypes'
  BY <1>1, <1>5, StepFacts DEF FileTypes, files
<1>8. Present(p)'
  <2>1. st'[p] = "WRITER_LOCKED" /\ st[p] \in Loaded
    BY <1>1, StepFacts DEF Moves, ProcTypes, Loaded
  <2> QED BY <2>1, <1>1, <1>5, <1>6, StepFacts DEF Present
<1> QED BY <1>1, <1>3, <1>4, <1>5, <1>6, <1>7, <1>8, StepFacts, TypeFrame DEF Takes, ProcTypes

(* The writer's steps that keep its lock. *)
LEMMA WriterTypes ==
  ASSUME TypeInv, NEW p \in Proc, NEW S \in Live \cup {"UNDO"}, w.proc = p, w'.proc = p,
         lock' = lock, st' = [st EXCEPT ![p] = S],
         S \in Exclusive => lock[p] = EXCLUSIVE_LOCK,
         FileTypes', cache' \in [Proc -> [Page -> Content]], vers' \in [Proc -> Nat],
         counted' \in [Proc -> BOOLEAN], \A q \in Proc \ {p} : cache'[q] = cache[q],
         cache'[p][1] \in Nat,
         S \in Live =>
           /\ w'.hdr \in 1..MaxSlot /\ w'.off \in (w'.hdr + 1)..(MaxSlot + 1)
           /\ w'.dirty \subseteq w'.inJournal /\ w'.needSync \subseteq w'.inJournal
           /\ \A pg \in w'.inJournal : cache'[p][pg] \in Nat
  PROVE  TypeInv'
<1>1. lock[p] \in {2, 3, 4}
  BY StepFacts, Levels DEF Locked
<1>2. /\ S \in States /\ S # "OPEN" /\ S \notin Sharing /\ S # "HOT_EXCLUSIVE" /\ S # "WRITER_LOCKED"
  BY DEF Live, Building, Syncing, Closing, States, Writing, Sharing
<1>3. Moves(p, S, lock[p])
  BY StepFacts, LockStays
<1>4. LockedAs(S, lock[p], w'.proc = p)
  BY <1>1, <1>2, Levels DEF LockedAs
<1>5. st'[p] = S
  BY StepFacts DEF ProcTypes
<1>6. Present(p)'
  BY <1>2, <1>5 DEF Present
<1> QED BY <1>2, <1>3, <1>4, <1>6, StepFacts, TypeFrame DEF Takes

LEMMA WritingFacts ==
  ASSUME TypeInv, NEW p \in Proc, st[p] \in Live
  PROVE  /\ w.proc = p /\ st[p] \in Loaded
         /\ w.hdr \in 1..MaxSlot /\ w.off \in (w.hdr + 1)..(MaxSlot + 1) /\ MaxSlot \in Nat
         /\ w.dirty \subseteq w.inJournal /\ w.needSync \subseteq w.inJournal
         /\ \A pg \in w.inJournal : cache[p][pg] \in Nat
         /\ cache[p][1] \in Nat
         /\ st[p] # "WRITER_CACHEMOD" => lock[p] = EXCLUSIVE_LOCK
<1>1. st[p] \in Loaded
  BY DEF Loaded
<1>2. st[p] # "WRITER_CACHEMOD" => st[p] \in Exclusive
  BY DEF Live, Building, Syncing, Closing, Exclusive
<1> QED BY <1>1, <1>2, StepFacts, Owner, PagerAssumption DEF Present, Locked

WriterOf(p, o, h, i, n, d, t, f) ==
  [proc |-> p, off |-> o, hdr |-> h, inJournal |-> i, needSync |-> n, dirty |-> d, todo |-> t, fin |-> f]

LEMMA WriterOfType ==
  ASSUME NEW p \in Proc, NEW o \in Nat, NEW h \in Nat, NEW i \in SUBSET Page, NEW n \in SUBSET Page,
         NEW d \in SUBSET Page, NEW t \in Undo, NEW f \in BOOLEAN
  PROVE  WriterOf(p, o, h, i, n, d, t, f) \in Writers
BY DEF WriterOf, Writers

LEMMA WriterOfFields ==
  ASSUME NEW p, NEW o, NEW h, NEW i, NEW n, NEW d, NEW t, NEW f,
         NEW x, x = WriterOf(p, o, h, i, n, d, t, f)
  PROVE  /\ x.proc = p /\ x.off = o /\ x.hdr = h /\ x.inJournal = i /\ x.needSync = n
         /\ x.dirty = d /\ x.todo = t /\ x.fin = f
BY DEF WriterOf

LEMMA WriterOpens ==
  ASSUME NEW x \in Writers
  PROVE  [x EXCEPT !.hdr = 1, !.off = 2] = WriterOf(x.proc, 2, 1, x.inJournal, x.needSync, x.dirty, x.todo, x.fin)
<1> DEFINE y == [x EXCEPT !.hdr = 1]
<1>1. y = WriterOf(x.proc, x.off, 1, x.inJournal, x.needSync, x.dirty, x.todo, x.fin)
  BY DEF WriterOf, Writers
<1>2. [x EXCEPT !.hdr = 1, !.off = 2] = [y EXCEPT !.off = 2]
  OBVIOUS
<1> HIDE DEF y
<1>3. [y EXCEPT !.off = 2] = WriterOf(x.proc, 2, 1, x.inJournal, x.needSync, x.dirty, x.todo, x.fin)
  BY <1>1 DEF WriterOf
<1> QED BY <1>2, <1>3

(* What pager_write does: the page is in the journal already, or goes there,  *)
(* with a new journal if it is the first.                                     *)
DirtyKnown(p, pg) ==
  /\ st[p] # "WRITER_LOCKED" /\ pg \in w.inJournal
  /\ w' = [w EXCEPT !.dirty = @ \cup {pg}] /\ UNCHANGED files /\ st' = st

DirtyMore(p, pg) ==
  /\ st[p] # "WRITER_LOCKED" /\ pg \notin w.inJournal /\ w.off <= MaxSlot /\ st' = st
  /\ jrnl' = [here |-> jrnl.here, durable |-> jrnl.durable,
              slot |-> [jrnl.slot EXCEPT ![w.off] = Record(pg, cache[p][pg], jrnl.slot[w.hdr].nonce)]]
  /\ w' = WriterOf(p, w.off + 1, w.hdr, w.inJournal \cup {pg}, w.needSync \cup {pg},
                   w.dirty \cup {pg}, w.todo, w.fin)
  /\ UNCHANGED <<db, dbLoss, jDisk, ghosts>>

DirtyFirst(p, pg) ==
  /\ st[p] = "WRITER_LOCKED" /\ 2 <= MaxSlot /\ st' = [st EXCEPT ![p] = "WRITER_CACHEMOD"]
  /\ jrnl' = [here |-> TRUE, durable |-> (jrnl.here /\ jrnl.durable),
              slot |-> [jrnl.slot EXCEPT ![1] = Header(0, <<txn, 0>>),
                                         ![2] = Record(pg, cache[p][pg], <<txn, 0>>)]]
  /\ w' = WriterOf(p, 3, 1, {pg}, {pg}, {pg}, w.todo, w.fin)
  /\ UNCHANGED <<db, dbLoss, jDisk, ghosts>>

LEMMA DirtyCases ==
  ASSUME TypeInv, NEW p \in Proc, NEW pg \in Page, NEW v, st[p] \in Writing, Dirty(p, pg, v)
  PROVE  /\ cache' = [cache EXCEPT ![p][pg] = v] /\ w.proc = p
         /\ DirtyKnown(p, pg) \/ DirtyMore(p, pg) \/ DirtyFirst(p, pg)
<1>0. w.proc = p
  BY StepFacts, Owner DEF Writing, Live, Building
<1>1. cache' = [cache EXCEPT ![p][pg] = v]
  BY DEF Dirty
<1>2. jrnl.slot \in Slots /\ w \in Writers /\ jrnl \in Journals /\ MaxSlot \in Nat \ {0}
  BY StepFacts, JournalFields, PagerAssumption DEF FileTypes
<1>3. CASE st[p] # "WRITER_LOCKED"
  <2>1. OpenJournal = [j |-> jrnl, w |-> w]
    BY <1>0, <1>3 DEF OpenJournal
  <2>2. OpenJournal.j = jrnl /\ OpenJournal.w = w
    BY <2>1
  <2>3. st' = st
    BY <1>3, StepFacts DEF Dirty, Goto, ProcTypes
  <2>4. CASE pg \in w.inJournal
    <3>1. w' = [w EXCEPT !.dirty = @ \cup {pg}] /\ UNCHANGED files
      BY <2>4 DEF Dirty
    <3> QED BY <1>0, <1>1, <1>3, <2>3, <2>4, <3>1 DEF DirtyKnown
  <2>5. CASE pg \notin w.inJournal
    <3> DEFINE r == Record(pg, cache[p][pg], jrnl.slot[w.hdr].nonce)
    <3>1. /\ w.off <= MaxSlot
          /\ jrnl' = [jrnl EXCEPT !.slot[w.off] = r]
          /\ w' = [w EXCEPT !.off = @ + 1, !.dirty = @ \cup {pg},
                            !.inJournal = @ \cup {pg}, !.needSync = @ \cup {pg}]
          /\ UNCHANGED <<db, dbLoss, jDisk, ghosts>>
      BY <2>2, <2>5 DEF Dirty
    <3>2. jrnl' = [here |-> jrnl.here, durable |-> jrnl.durable, slot |-> [jrnl.slot EXCEPT ![w.off] = r]]
      <4> HIDE DEF r
      <4> QED BY <1>2, <3>1 DEF Journals
    <3>3. w' = WriterOf(p, w.off + 1, w.hdr, w.inJournal \cup {pg}, w.needSync \cup {pg},
                        w.dirty \cup {pg}, w.todo, w.fin)
      BY <1>0, <1>2, <3>1 DEF Writers, WriterOf
    <3> QED BY <1>0, <1>1, <1>3, <2>3, <2>5, <3>1, <3>2, <3>3 DEF DirtyMore
  <2> QED BY <1>0, <1>1, <2>4, <2>5
<1>4. CASE st[p] = "WRITER_LOCKED"
  <2>0. w.inJournal = {} /\ w.needSync = {} /\ w.dirty = {}
    BY <1>4, StepFacts DEF Present
  <2> DEFINE s1 == [jrnl.slot EXCEPT ![1] = Header(0, <<txn, 0>>)]
             j1 == [here |-> TRUE, durable |-> jrnl.here /\ jrnl.durable, slot |-> s1]
             w1 == [w EXCEPT !.hdr = 1, !.off = 2]
  <2>1. OpenJournal = [j |-> j1, w |-> w1]
    BY <1>0, <1>4 DEF OpenJournal
  <2>2. OpenJournal.j = j1 /\ OpenJournal.w = w1
    BY <2>1
  <2>3. st' = [st EXCEPT ![p] = "WRITER_CACHEMOD"]
    BY <1>4 DEF Dirty, Goto
  <2>4. w1.hdr = 1 /\ w1.off = 2 /\ w1.dirty = {} /\ w1.inJournal = {} /\ w1.needSync = {}
    BY <1>2, <2>0 DEF Writers
  <2>5. j1.slot = s1 /\ s1[1] = Header(0, <<txn, 0>>) /\ s1[1].nonce = <<txn, 0>>
    <3>1. s1[1] = Header(0, <<txn, 0>>)
      BY <1>2 DEF Slots
    <3> QED BY <3>1 DEF Header
  <2> DEFINE r == Record(pg, cache[p][pg], <<txn, 0>>)
  <2>6. /\ 2 <= MaxSlot
        /\ jrnl' = [j1 EXCEPT !.slot[2] = r]
        /\ w' = [w1 EXCEPT !.off = @ + 1, !.dirty = @ \cup {pg},
                           !.inJournal = @ \cup {pg}, !.needSync = @ \cup {pg}]
        /\ UNCHANGED <<db, dbLoss, jDisk, ghosts>>
    <3>1. pg \notin w.inJournal
      BY <2>0
    <3> HIDE DEF j1, w1, s1
    <3> QED BY <3>1, <2>2, <2>4, <2>5 DEF Dirty
  <2>7. jrnl' = [here |-> TRUE, durable |-> (jrnl.here /\ jrnl.durable), slot |-> [s1 EXCEPT ![2] = r]]
    <3> HIDE DEF s1, r
    <3> QED BY <2>6
  <2>8. [s1 EXCEPT ![2] = r] = [jrnl.slot EXCEPT ![1] = Header(0, <<txn, 0>>), ![2] = r]
    <3> HIDE DEF r
    <3> QED OBVIOUS
  <2>9. w' = WriterOf(p, 3, 1, {pg}, {pg}, {pg}, w.todo, w.fin)
    <3>1. w1 = WriterOf(p, 2, 1, w.inJournal, w.needSync, w.dirty, w.todo, w.fin)
      BY <1>0, <1>2, WriterOpens
    <3> HIDE DEF w1
    <3>2. w' = WriterOf(p, 2 + 1, 1, w.inJournal \cup {pg}, w.needSync \cup {pg}, w.dirty \cup {pg},
                        w.todo, w.fin)
      BY <2>6, <3>1 DEF WriterOf
    <3>3. /\ 2 + 1 = 3 /\ w.inJournal \cup {pg} = {pg} /\ w.needSync \cup {pg} = {pg}
          /\ w.dirty \cup {pg} = {pg}
      BY <2>0
    <3> QED BY <3>2, <3>3
  <2> QED BY <1>0, <1>1, <1>4, <2>3, <2>6, <2>7, <2>8, <2>9 DEF DirtyFirst
<1> QED BY <1>3, <1>4

LEMMA DirtyTypes ==
  ASSUME TypeInv, NEW p \in Proc, NEW pg \in Page, NEW v \in Nat, st[p] \in Writing,
         Dirty(p, pg, v), cache[p][pg] \in Nat, lock' = lock, vers' = vers,
         counted' \in [Proc -> BOOLEAN], txn' = txn, com' = com
  PROVE  TypeInv'
<1>1. cache' = [cache EXCEPT ![p][pg] = v] /\ w.proc = p
  BY DirtyCases
<1>2. /\ cache' \in [Proc -> [Page -> Content]] /\ \A q \in Proc \ {p} : cache'[q] = cache[q]
      /\ \A r \in Page : cache'[p][r] = IF r = pg THEN v ELSE cache[p][r]
  BY <1>1, StepFacts DEF ProcTypes, Content
<1>3. 1 \in Page /\ cache[p][1] \in Nat /\ cache'[p][1] \in Nat
  <2>1. st[p] \in Loaded
    BY DEF Loaded, Live, Building, Writing
  <2> QED BY <2>1, <1>2, SectorTypes, StepFacts DEF Present
<1>4. /\ w \in Writers /\ jrnl \in Journals /\ vers \in [Proc -> Nat] /\ txn \in Nat
      /\ MaxSlot \in Nat \ {0} /\ jrnl.slot \in Slots /\ w.inJournal \subseteq Page
  BY StepFacts, JournalFields, PagerAssumption DEF FileTypes, ProcTypes
<1>6. CASE DirtyKnown(p, pg)
  <2>1. w' \in Writers /\ w'.proc = p /\ w'.hdr = w.hdr /\ w'.off = w.off /\ w'.inJournal = w.inJournal
        /\ w'.needSync = w.needSync /\ w'.dirty = w.dirty \cup {pg}
    BY <1>1, <1>4, <1>6 DEF DirtyKnown, Writers
  <2>2. FileTypes'
    BY <2>1, <1>6, StepFacts DEF FileTypes, DirtyKnown, files
  <2>3. st[p] \in Live /\ st' = [st EXCEPT ![p] = st[p]]
    BY <1>6, StepFacts DEF DirtyKnown, Writing, Live, Building, ProcTypes
  <2>4. \A r \in w.inJournal : cache'[p][r] \in Nat
    BY <2>3, <1>2, <1>4, WritingFacts
  <2>5. w.hdr \in 1..MaxSlot /\ w.off \in (w.hdr + 1)..(MaxSlot + 1)
        /\ w'.dirty \subseteq w'.inJournal /\ w'.needSync \subseteq w'.inJournal
    BY <2>1, <2>3, <1>6, WritingFacts DEF DirtyKnown
  <2>6. st[p] \in Exclusive => lock[p] = EXCLUSIVE_LOCK
    BY StepFacts DEF Locked
  <2> QED BY <1>1, <1>2, <1>3, <1>4, <2>1, <2>2, <2>3, <2>4, <2>5, <2>6, WriterTypes
<1>7. CASE DirtyMore(p, pg)
  <2>0. st[p] \in Live /\ st' = [st EXCEPT ![p] = st[p]]
    BY <1>7, StepFacts DEF DirtyMore, Writing, Live, Building, ProcTypes
  <2>1. w' \in Writers /\ w'.proc = p /\ w'.hdr = w.hdr /\ w'.off = w.off + 1
        /\ w'.inJournal = w.inJournal \cup {pg} /\ w'.needSync = w.needSync \cup {pg}
        /\ w'.dirty = w.dirty \cup {pg}
    <3>1. w' = WriterOf(p, w.off + 1, w.hdr, w.inJournal \cup {pg}, w.needSync \cup {pg},
                        w.dirty \cup {pg}, w.todo, w.fin)
      BY <1>7 DEF DirtyMore
    <3>2. /\ w.off + 1 \in Nat /\ w.hdr \in Nat /\ w.inJournal \cup {pg} \in SUBSET Page
          /\ w.needSync \cup {pg} \in SUBSET Page /\ w.dirty \cup {pg} \in SUBSET Page
          /\ w.todo \in Undo /\ w.fin \in BOOLEAN
      BY StepFacts, JournalFields
    <3>3. w' \in Writers
      BY <3>1, <3>2, WriterOfType
    <3>4. w'.proc = p /\ w'.hdr = w.hdr /\ w'.off = w.off + 1
      BY <3>1 DEF WriterOf
    <3>5. w'.inJournal = w.inJournal \cup {pg} /\ w'.needSync = w.needSync \cup {pg}
          /\ w'.dirty = w.dirty \cup {pg}
      BY <3>1 DEF WriterOf
    <3> QED BY <3>3, <3>4, <3>5
  <2>2. w.hdr \in 1..MaxSlot /\ w.off \in (w.hdr + 1)..(MaxSlot + 1) /\ w.off <= MaxSlot
    BY <2>0, <1>7, WritingFacts DEF DirtyMore
  <2> DEFINE r == Record(pg, cache[p][pg], jrnl.slot[w.hdr].nonce)
  <2>3. r \in Sector
    BY <2>2, StepFacts, JournalFields, SectorTypes
  <2>4. [jrnl.slot EXCEPT ![w.off] = r] \in Slots
    BY <2>3, <1>4, SlotExcept
  <2>5. jrnl' = [here |-> jrnl.here, durable |-> jrnl.durable, slot |-> [jrnl.slot EXCEPT ![w.off] = r]]
    BY <1>7 DEF DirtyMore
  <2> HIDE DEF r
  <2>6. jrnl' \in Journals
    BY <2>4, <2>5, StepFacts, JournalFields DEF Journals
  <2>7. FileTypes'
    BY <2>1, <2>6, <1>7, StepFacts DEF FileTypes, DirtyMore
  <2>8. \A q \in w'.inJournal : cache'[p][q] \in Nat
    BY <2>0, <2>1, <1>2, <1>4, WritingFacts
  <2>9. w'.off \in (w'.hdr + 1)..(MaxSlot + 1) /\ w'.dirty \subseteq w'.inJournal
        /\ w'.needSync \subseteq w'.inJournal /\ w'.hdr \in 1..MaxSlot
    BY <2>0, <2>1, <2>2, WritingFacts
  <2>10. st[p] \in Exclusive => lock[p] = EXCLUSIVE_LOCK
    BY StepFacts DEF Locked
  <2> QED BY <1>1, <1>2, <1>3, <1>4, <2>0, <2>1, <2>7, <2>8, <2>9, <2>10, WriterTypes
<1>8. CASE DirtyFirst(p, pg)
  <2>1. w' \in Writers /\ w'.proc = p /\ w'.hdr = 1 /\ w'.off = 3
        /\ w'.inJournal = {pg} /\ w'.needSync = {pg} /\ w'.dirty = {pg}
    <3>1. w' = WriterOf(p, 3, 1, {pg}, {pg}, {pg}, w.todo, w.fin)
      BY <1>8 DEF DirtyFirst
    <3>2. w' \in Writers
      BY <3>1, StepFacts, JournalFields, WriterOfType
    <3> QED BY <3>1, <3>2, WriterOfFields
  <2>2. 2 \in 1..MaxSlot /\ 3 \in 2..(MaxSlot + 1) /\ 1 \in 1..MaxSlot
    BY <1>4, <1>8 DEF DirtyFirst
  <2> DEFINE r == Record(pg, cache[p][pg], <<txn, 0>>)
             h == Header(0, <<txn, 0>>)
  <2>3. r \in Sector /\ h \in Sector
    <3>1. <<txn, 0>> \in Nat \X Nat
      BY <1>4
    <3> QED BY <3>1, SectorTypes
  <2>4. jrnl' = [here |-> TRUE, durable |-> (jrnl.here /\ jrnl.durable),
                 slot |-> [jrnl.slot EXCEPT ![1] = h, ![2] = r]]
    BY <1>8 DEF DirtyFirst
  <2> HIDE DEF r, h
  <2>5. [jrnl.slot EXCEPT ![1] = h, ![2] = r] \in Slots
    BY <2>3, <1>4 DEF Slots
  <2>6. jrnl' \in Journals
    BY <2>4, <2>5 DEF Journals
  <2>7. FileTypes'
    BY <2>1, <2>6, <1>8, StepFacts DEF FileTypes, DirtyFirst
  <2>8. \A q \in w'.inJournal : cache'[p][q] \in Nat
    BY <2>1, <1>2
  <2>9. "WRITER_CACHEMOD" \in Live /\ "WRITER_CACHEMOD" \notin Exclusive
    BY DEF Live, Building, Exclusive, Syncing, Closing
  <2>10. st' = [st EXCEPT ![p] = "WRITER_CACHEMOD"]
    BY <1>8 DEF DirtyFirst
  <2>11. /\ w'.hdr \in 1..MaxSlot /\ w'.off \in (w'.hdr + 1)..(MaxSlot + 1)
         /\ w'.dirty \subseteq w'.inJournal /\ w'.needSync \subseteq w'.inJournal
    BY <2>1, <2>2
  <2>12. "WRITER_CACHEMOD" \in Live \cup {"UNDO"}
    BY <2>9
  <2> QED BY <1>1, <1>2, <1>3, <1>4, <2>1, <2>7, <2>8, <2>9, <2>10, <2>11, <2>12, WriterTypes
<1> QED BY <1>6, <1>7, <1>8, DirtyCases

LEMMA WriteTypes ==
  ASSUME TypeInv, NEW p \in Proc, NEW pg \in Page, Write(p, pg)
  PROVE  TypeInv'
<1>1. /\ st[p] \in Writing /\ cache[p][pg] # None /\ Dirty(p, pg, txn)
      /\ UNCHANGED <<lock, vers, counted, txn, com>>
  BY DEF Write
<1>2. cache[p][pg] \in Nat /\ txn \in Nat /\ counted \in [Proc -> BOOLEAN]
  BY <1>1, StepFacts DEF ProcTypes, FileTypes, Content
<1> QED BY <1>1, <1>2, DirtyTypes

LEMMA IncrTypes ==
  ASSUME TypeInv, NEW p \in Proc, IncrChangeCounter(p)
  PROVE  TypeInv'
<1>1. /\ st[p] \in {"WRITER_CACHEMOD", "WRITER_DBMOD"} /\ Dirty(p, 1, vers[p] + 1)
      /\ UNCHANGED <<lock, vers, txn, com>> /\ counted' = [counted EXCEPT ![p] = TRUE]
  BY DEF IncrChangeCounter
<1>2. st[p] \in Live /\ st[p] \in Writing
  BY <1>1 DEF Live, Building, Writing
<1>3. cache[p][1] \in Nat /\ vers[p] + 1 \in Nat /\ counted' \in [Proc -> BOOLEAN] /\ 1 \in Page
  BY <1>1, <1>2, WritingFacts, SectorTypes, StepFacts DEF ProcTypes
<1> QED BY <1>1, <1>2, <1>3, DirtyTypes

(* The steps of the sync and of the commit leave most of w. *)
LEMMA SyncJournalShape ==
  ASSUME TypeInv, NEW p \in Proc, NEW fin \in BOOLEAN, NEW full \in BOOLEAN, SyncJournal(p, fin, full)
  PROVE  /\ st[p] \in {"WRITER_CACHEMOD", "WRITER_DBMOD"} /\ lock[p] = EXCLUSIVE_LOCK
         /\ ZeroNext \in Slots
         /\ jrnl' = [here |-> jrnl.here, durable |-> (full \/ jrnl.durable), slot |-> ZeroNext]
         /\ jDisk' = IF full THEN ZeroNext ELSE jDisk
         /\ ghosts' = IF full THEN {} ELSE ghosts
         /\ w' = WriterOf(p, w.off, w.hdr, w.inJournal, w.needSync, w.dirty, w.todo, fin)
         /\ UNCHANGED <<db, dbLoss, lock, cache, vers, counted, txn, com>>
         /\ st' = [st EXCEPT ![p] = "JOURNAL_HDR"]
<1>1. /\ st[p] \in {"WRITER_CACHEMOD", "WRITER_DBMOD"} /\ lock[p] = EXCLUSIVE_LOCK
      /\ UNCHANGED <<db, dbLoss, lock, cache, vers, counted, txn, com>>
      /\ st' = [st EXCEPT ![p] = "JOURNAL_HDR"] /\ w' = [w EXCEPT !.fin = fin]
  BY DEF SyncJournal, Goto
<1>2. st[p] \in Live /\ w.proc = p /\ w \in Writers /\ jrnl \in Journals /\ jrnl.slot \in Slots
  BY <1>1, StepFacts, WritingFacts, JournalFields DEF Live, Building, FileTypes
<1>3. w' = WriterOf(p, w.off, w.hdr, w.inJournal, w.needSync, w.dirty, w.todo, fin)
  BY <1>1, <1>2 DEF WriterOf, Writers
<1>4. ZeroNext \in Slots
  <2>1. CASE w.off <= MaxSlot /\ HasMagic(jrnl.slot[w.off])
    <3>1. w.off \in 1..MaxSlot
      BY <1>2, <2>1, WritingFacts
    <3>2. Header(0, jrnl.slot[w.off].nonce) \in Sector
      BY <3>1, StepFacts, JournalFields, SectorTypes
    <3>3. ZeroNext = [jrnl.slot EXCEPT ![w.off] = Header(0, jrnl.slot[w.off].nonce)]
      BY <2>1 DEF ZeroNext
    <3> QED BY <3>2, <3>3, <1>2, SlotExcept
  <2>2. CASE ~(w.off <= MaxSlot /\ HasMagic(jrnl.slot[w.off]))
    <3>1. ZeroNext = jrnl.slot
      BY <2>2 DEF ZeroNext
    <3> QED BY <3>1, <1>2
  <2> QED BY <2>1, <2>2
<1>5. CASE full
  <2>1. jrnl' = [jrnl EXCEPT !.durable = TRUE, !.slot = ZeroNext] /\ jDisk' = jrnl'.slot /\ ghosts' = {}
    BY <1>5 DEF SyncJournal, SyncJrnl
  <2>2. jrnl' = [here |-> jrnl.here, durable |-> TRUE, slot |-> ZeroNext]
    BY <2>1, <1>2 DEF Journals
  <2>3. jrnl'.slot = ZeroNext /\ (full \/ jrnl.durable) = TRUE
    BY <2>2, <1>5
  <2> QED BY <1>1, <1>3, <1>4, <1>5, <2>1, <2>2, <2>3
<1>6. CASE ~full
  <2>1. jrnl' = [jrnl EXCEPT !.slot = ZeroNext] /\ UNCHANGED <<jDisk, ghosts>>
    BY <1>6 DEF SyncJournal
  <2>2. jrnl' = [here |-> jrnl.here, durable |-> jrnl.durable, slot |-> ZeroNext]
    BY <2>1, <1>2 DEF Journals
  <2>3. (full \/ jrnl.durable) = jrnl.durable
    BY <1>6, <1>2 DEF Journals
  <2> QED BY <1>1, <1>3, <1>4, <1>6, <2>1, <2>2, <2>3
<1> QED BY <1>5, <1>6

LEMMA SyncJournalTypes ==
  ASSUME TypeInv, NEW p \in Proc, NEW fin \in BOOLEAN, NEW full \in BOOLEAN, SyncJournal(p, fin, full)
  PROVE  TypeInv'
<1>1. /\ st[p] \in {"WRITER_CACHEMOD", "WRITER_DBMOD"} /\ lock[p] = EXCLUSIVE_LOCK /\ ZeroNext \in Slots
      /\ jrnl' = [here |-> jrnl.here, durable |-> (full \/ jrnl.durable), slot |-> ZeroNext]
      /\ jDisk' \in {ZeroNext, jDisk} /\ ghosts' \in {{}, ghosts}
      /\ w' = WriterOf(p, w.off, w.hdr, w.inJournal, w.needSync, w.dirty, w.todo, fin)
      /\ UNCHANGED <<db, dbLoss, lock, cache, vers, counted, txn, com>>
      /\ st' = [st EXCEPT ![p] = "JOURNAL_HDR"]
  BY SyncJournalShape
<1>2. st[p] \in Live /\ "JOURNAL_HDR" \in Live
  BY <1>1 DEF Live, Building, Syncing
<1>3. w' \in Writers
  BY <1>1, StepFacts, JournalFields, WriterOfType
<1>4. jrnl' \in Journals
  BY <1>1, StepFacts, JournalFields DEF Journals
<1>5. FileTypes'
  BY <1>1, <1>3, <1>4, StepFacts DEF FileTypes
<1>6. /\ w'.proc = p /\ w'.hdr = w.hdr /\ w'.off = w.off /\ w'.inJournal = w.inJournal
      /\ w'.dirty = w.dirty /\ w'.needSync = w.needSync
  BY <1>1 DEF WriterOf
<1> QED BY <1>1, <1>2, <1>5, <1>6, StepFacts, WritingFacts, WriterTypes DEF ProcTypes

LEMMA JournalHdrShape ==
  ASSUME TypeInv, NEW p \in Proc, JournalHdr(p)
  PROVE  /\ st[p] = "JOURNAL_HDR" /\ st' = [st EXCEPT ![p] = "JOURNAL_SYNC"]
         /\ UNCHANGED <<db, dbLoss, jDisk, ghosts, lock, cache, vers, counted, w, txn, com>>
         /\ \E h \in Sector :
              /\ h.pg = jrnl.slot[w.hdr].pg /\ h.nonce = jrnl.slot[w.hdr].nonce /\ h.n = w.off - w.hdr - 1
              /\ jrnl' = [here |-> jrnl.here, durable |-> jrnl.durable,
                          slot |-> [jrnl.slot EXCEPT ![w.hdr] = h]]
<1> DEFINE s == jrnl.slot[w.hdr]
           h == [s EXCEPT !.n = w.off - w.hdr - 1]
<1>1. /\ st[p] = "JOURNAL_HDR" /\ st' = [st EXCEPT ![p] = "JOURNAL_SYNC"]
      /\ UNCHANGED <<db, dbLoss, jDisk, ghosts, lock, cache, vers, counted, w, txn, com>>
      /\ jrnl' = [jrnl EXCEPT !.slot[w.hdr] = h]
  BY DEF JournalHdr, Goto
<1>2. st[p] \in Live
  BY <1>1 DEF Live, Building, Syncing
<1>3. s \in Sector /\ w.off - w.hdr - 1 \in Nat
  BY <1>2, StepFacts, WritingFacts, JournalFields
<1> HIDE DEF s
<1>4. h \in Sector /\ h.pg = s.pg /\ h.nonce = s.nonce /\ h.n = w.off - w.hdr - 1
  BY <1>3 DEF Sector
<1> HIDE DEF h
<1>5. jrnl' = [here |-> jrnl.here, durable |-> jrnl.durable, slot |-> [jrnl.slot EXCEPT ![w.hdr] = h]]
  BY <1>1, StepFacts DEF FileTypes, Journals
<1> QED BY <1>1, <1>4, <1>5 DEF s

LEMMA JournalHdrTypes ==
  ASSUME TypeInv, NEW p \in Proc, JournalHdr(p)
  PROVE  TypeInv'
<1>1. /\ st[p] = "JOURNAL_HDR" /\ st' = [st EXCEPT ![p] = "JOURNAL_SYNC"]
      /\ UNCHANGED <<db, dbLoss, jDisk, ghosts, lock, cache, vers, counted, w, txn, com>>
  BY JournalHdrShape
<1>2. PICK h \in Sector :
        jrnl' = [here |-> jrnl.here, durable |-> jrnl.durable, slot |-> [jrnl.slot EXCEPT ![w.hdr] = h]]
  BY JournalHdrShape
<1>3. [jrnl.slot EXCEPT ![w.hdr] = h] \in Slots
  BY StepFacts, JournalFields, SlotExcept
<1>4. jrnl' \in Journals
  BY <1>2, <1>3, StepFacts, JournalFields DEF Journals
<1>5. FileTypes'
  BY <1>1, <1>4, StepFacts DEF FileTypes
<1>6. st[p] \in Live /\ "JOURNAL_SYNC" \in Live /\ st[p] # "WRITER_CACHEMOD"
  BY <1>1 DEF Live, Building, Syncing
<1> QED BY <1>1, <1>5, <1>6, StepFacts, WritingFacts, WriterTypes DEF ProcTypes

LEMMA JournalSyncShape ==
  ASSUME TypeInv, NEW p \in Proc, JournalSync(p)
  PROVE  /\ st[p] = "JOURNAL_SYNC" /\ jDisk' = jrnl.slot /\ ghosts' = {}
         /\ UNCHANGED <<db, dbLoss, lock, cache, vers, counted, txn, com>>
         /\ \/ /\ w.fin /\ st' = [st EXCEPT ![p] = "COMMIT"]
               /\ jrnl' = [here |-> jrnl.here, durable |-> TRUE, slot |-> jrnl.slot]
               /\ w' = WriterOf(p, w.off, w.hdr, w.inJournal, {}, w.dirty, w.todo, w.fin)
            \/ /\ ~w.fin /\ w.off <= MaxSlot /\ st' = [st EXCEPT ![p] = "WRITER_DBMOD"]
               /\ jrnl' = [here |-> jrnl.here, durable |-> TRUE,
                           slot |-> [jrnl.slot EXCEPT ![w.off] = Header(0, <<txn, w.off>>)]]
               /\ w' = WriterOf(p, w.off + 1, w.off, w.inJournal, {}, w.dirty, w.todo, w.fin)
<1>1. /\ st[p] = "JOURNAL_SYNC" /\ jDisk' = jrnl.slot /\ ghosts' = {}
      /\ UNCHANGED <<db, dbLoss, lock, cache, vers, counted, txn, com>>
  BY DEF JournalSync
<1>2. w \in Writers /\ jrnl \in Journals /\ w.proc = p
  BY <1>1, StepFacts, WritingFacts DEF FileTypes, Live, Building, Syncing
<1>3. CASE w.fin
  <2>1. /\ jrnl' = [jrnl EXCEPT !.durable = TRUE] /\ w' = [w EXCEPT !.needSync = {}]
        /\ st' = [st EXCEPT ![p] = "COMMIT"]
    BY <1>3 DEF JournalSync, Goto
  <2>2. jrnl' = [here |-> jrnl.here, durable |-> TRUE, slot |-> jrnl.slot]
    BY <2>1, <1>2 DEF Journals
  <2>3. w' = WriterOf(p, w.off, w.hdr, w.inJournal, {}, w.dirty, w.todo, w.fin)
    BY <2>1, <1>2 DEF Writers, WriterOf
  <2> QED BY <1>1, <1>3, <2>1, <2>2, <2>3
<1>4. CASE ~w.fin
  <2> DEFINE h == Header(0, <<txn, w.off>>)
  <2>1. /\ jrnl' = [jrnl EXCEPT !.durable = TRUE, !.slot[w.off] = h]
        /\ w' = [w EXCEPT !.needSync = {}, !.hdr = w.off, !.off = @ + 1]
        /\ st' = [st EXCEPT ![p] = "WRITER_DBMOD"] /\ w.off <= MaxSlot
    BY <1>4 DEF JournalSync, Goto
  <2> HIDE DEF h
  <2>2. jrnl' = [here |-> jrnl.here, durable |-> TRUE, slot |-> [jrnl.slot EXCEPT ![w.off] = h]]
    BY <2>1, <1>2 DEF Journals
  <2>3. w' = WriterOf(p, w.off + 1, w.off, w.inJournal, {}, w.dirty, w.todo, w.fin)
    <3> DEFINE x == [w EXCEPT !.needSync = {}, !.hdr = w.off]
    <3>1. x = WriterOf(p, w.off, w.off, w.inJournal, {}, w.dirty, w.todo, w.fin)
      <4> DEFINE y == [w EXCEPT !.needSync = {}]
      <4>1. y = WriterOf(p, w.off, w.hdr, w.inJournal, {}, w.dirty, w.todo, w.fin)
        BY <1>2 DEF Writers, WriterOf
      <4>2. x = [y EXCEPT !.hdr = w.off]
        OBVIOUS
      <4> HIDE DEF x, y
      <4> QED BY <4>1, <4>2 DEF WriterOf
    <3>2. w' = [x EXCEPT !.off = @ + 1]
      BY <2>1
    <3> HIDE DEF x
    <3> QED BY <3>1, <3>2 DEF WriterOf
  <2> QED BY <1>1, <1>4, <2>1, <2>2, <2>3 DEF h
<1> QED BY <1>3, <1>4

LEMMA JournalSyncTypes ==
  ASSUME TypeInv, NEW p \in Proc, JournalSync(p)
  PROVE  TypeInv'
<1>1. /\ st[p] = "JOURNAL_SYNC" /\ jDisk' = jrnl.slot /\ ghosts' = {}
      /\ UNCHANGED <<db, dbLoss, lock, cache, vers, counted, txn, com>>
  BY JournalSyncShape
<1>2. st[p] \in Live /\ st[p] # "WRITER_CACHEMOD" /\ "COMMIT" \in Live /\ "WRITER_DBMOD" \in Live
  BY <1>1 DEF Live, Building, Syncing, Closing
<1>3. /\ jrnl.slot \in Slots /\ jrnl.here \in BOOLEAN /\ {} \in SUBSET Page /\ txn \in Nat
      /\ w.off \in Nat /\ w.hdr \in Nat /\ w.inJournal \in SUBSET Page /\ w.dirty \in SUBSET Page
      /\ w.todo \in Undo /\ w.fin \in BOOLEAN /\ w.dirty \subseteq w.inJournal /\ MaxSlot \in Nat
      /\ w.hdr \in 1..MaxSlot /\ w.off \in (w.hdr + 1)..(MaxSlot + 1)
  BY <1>2, StepFacts, JournalFields, WritingFacts DEF FileTypes
<1>4. CASE /\ w.fin /\ st' = [st EXCEPT ![p] = "COMMIT"]
           /\ jrnl' = [here |-> jrnl.here, durable |-> TRUE, slot |-> jrnl.slot]
           /\ w' = WriterOf(p, w.off, w.hdr, w.inJournal, {}, w.dirty, w.todo, w.fin)
  <2>1. w' \in Writers
    BY <1>3, <1>4, WriterOfType
  <2>2. jrnl' \in Journals
    BY <1>3, <1>4 DEF Journals
  <2>3. FileTypes'
    BY <1>1, <1>3, <2>1, <2>2, StepFacts DEF FileTypes
  <2>4. /\ w'.proc = p /\ w'.hdr = w.hdr /\ w'.off = w.off /\ w'.inJournal = w.inJournal
        /\ w'.dirty = w.dirty /\ w'.needSync = {}
    BY <1>4 DEF WriterOf
  <2>5. w'.dirty \subseteq w'.inJournal /\ w'.needSync \subseteq w'.inJournal
    BY <1>3, <2>4
  <2> QED BY <1>1, <1>2, <1>4, <2>3, <2>4, <2>5, StepFacts, WritingFacts, WriterTypes DEF ProcTypes
<1>5. CASE /\ ~w.fin /\ w.off <= MaxSlot /\ st' = [st EXCEPT ![p] = "WRITER_DBMOD"]
           /\ jrnl' = [here |-> jrnl.here, durable |-> TRUE,
                       slot |-> [jrnl.slot EXCEPT ![w.off] = Header(0, <<txn, w.off>>)]]
           /\ w' = WriterOf(p, w.off + 1, w.off, w.inJournal, {}, w.dirty, w.todo, w.fin)
  <2>1. w' \in Writers
    BY <1>3, <1>5, WriterOfType
  <2>2. jrnl' \in Journals
    <3>1. <<txn, w.off>> \in Nat \X Nat
      BY <1>3
    <3>2. Header(0, <<txn, w.off>>) \in Sector
      BY <3>1, SectorTypes
    <3>3. [jrnl.slot EXCEPT ![w.off] = Header(0, <<txn, w.off>>)] \in Slots
      BY <3>2, <1>3, SlotExcept
    <3> QED BY <3>3, <1>3, <1>5 DEF Journals
  <2>3. FileTypes'
    BY <1>1, <1>3, <2>1, <2>2, StepFacts DEF FileTypes
  <2>4. /\ w'.proc = p /\ w'.hdr = w.off /\ w'.off = w.off + 1 /\ w'.inJournal = w.inJournal
        /\ w'.dirty = w.dirty /\ w'.needSync = {}
    BY <1>5 DEF WriterOf
  <2>5. /\ w'.dirty \subseteq w'.inJournal /\ w'.needSync \subseteq w'.inJournal
        /\ w'.hdr \in 1..MaxSlot /\ w'.off \in (w'.hdr + 1)..(MaxSlot + 1)
    BY <1>3, <1>5, <2>4
  <2> QED BY <1>1, <1>2, <1>5, <2>3, <2>4, <2>5, StepFacts, WritingFacts, WriterTypes DEF ProcTypes
<1> QED BY <1>4, <1>5, JournalSyncShape

(* The page is written with contents v. *)
WrotePage(p, pg, v) ==
  /\ v = IF pg = 1 THEN vers[p] + 1 ELSE cache[p][pg]
  /\ st[p] \in {"WRITER_DBMOD", "COMMIT"} /\ pg \in w.dirty \ w.needSync
  /\ db' = [db EXCEPT ![pg] = v] /\ dbLoss' = [dbLoss EXCEPT ![pg] = @ \cup {v}]
  /\ cache' = [cache EXCEPT ![p][pg] = v]
  /\ vers' = [vers EXCEPT ![p] = IF pg = 1 THEN v ELSE @]
  /\ w' = WriterOf(p, w.off, w.hdr, w.inJournal, w.needSync, w.dirty \ {pg}, w.todo, w.fin)
  /\ UNCHANGED <<jrnl, jDisk, ghosts, lock, st, counted, txn, com>>

LEMMA WritePageShape ==
  ASSUME TypeInv, NEW p \in Proc, NEW pg \in Page, WritePage(p, pg)
  PROVE  \E v \in Nat : WrotePage(p, pg, v)
<1> DEFINE v == IF pg = 1 THEN vers[p] + 1 ELSE cache[p][pg]
<1>1. /\ st[p] \in {"WRITER_DBMOD", "COMMIT"} /\ pg \in w.dirty \ w.needSync
      /\ db' = [db EXCEPT ![pg] = v] /\ dbLoss' = [dbLoss EXCEPT ![pg] = @ \cup {v}]
      /\ cache' = [cache EXCEPT ![p][pg] = v]
      /\ vers' = [vers EXCEPT ![p] = IF pg = 1 THEN v ELSE @]
      /\ w' = [w EXCEPT !.dirty = @ \ {pg}]
      /\ UNCHANGED <<jrnl, jDisk, ghosts, lock, st, counted, txn, com>>
  BY DEF WritePage, WriteDb
<1>2. st[p] \in Live
  BY <1>1 DEF Live, Building, Closing
<1>3. v \in Nat
  <2>1. cache[p][pg] \in Nat
    BY <1>1, <1>2, WritingFacts
  <2>2. vers[p] + 1 \in Nat
    BY StepFacts DEF ProcTypes
  <2> QED BY <2>1, <2>2
<1> HIDE DEF v
<1>4. w.proc = p /\ w \in Writers
  BY <1>2, WritingFacts, StepFacts DEF FileTypes
<1>5. w' = WriterOf(p, w.off, w.hdr, w.inJournal, w.needSync, w.dirty \ {pg}, w.todo, w.fin)
  BY <1>1, <1>4 DEF Writers, WriterOf
<1>6. /\ st[p] \in {"WRITER_DBMOD", "COMMIT"} /\ pg \in w.dirty \ w.needSync /\ v \in Nat
      /\ db' = [db EXCEPT ![pg] = v] /\ dbLoss' = [dbLoss EXCEPT ![pg] = @ \cup {v}]
      /\ cache' = [cache EXCEPT ![p][pg] = v]
      /\ vers' = [vers EXCEPT ![p] = IF pg = 1 THEN v ELSE @]
      /\ w' = WriterOf(p, w.off, w.hdr, w.inJournal, w.needSync, w.dirty \ {pg}, w.todo, w.fin)
      /\ UNCHANGED <<jrnl, jDisk, ghosts, lock, st, counted, txn, com>>
  BY <1>1, <1>3, <1>5
<1>7. v = IF pg = 1 THEN vers[p] + 1 ELSE cache[p][pg]
  BY DEF v
<1>8. WrotePage(p, pg, v)
  BY <1>6, <1>7 DEF WrotePage
<1> QED BY <1>3, <1>8

LEMMA WritePageTypes ==
  ASSUME TypeInv, NEW p \in Proc, NEW pg \in Page, WritePage(p, pg)
  PROVE  TypeInv'
<1>0. PICK v \in Nat : WrotePage(p, pg, v)
  BY WritePageShape
<1>1. /\ v = IF pg = 1 THEN vers[p] + 1 ELSE cache[p][pg]
      /\ st[p] \in {"WRITER_DBMOD", "COMMIT"} /\ pg \in w.dirty \ w.needSync
      /\ db' = [db EXCEPT ![pg] = v] /\ dbLoss' = [dbLoss EXCEPT ![pg] = @ \cup {v}]
      /\ cache' = [cache EXCEPT ![p][pg] = v]
      /\ vers' = [vers EXCEPT ![p] = IF pg = 1 THEN v ELSE @]
      /\ w' = WriterOf(p, w.off, w.hdr, w.inJournal, w.needSync, w.dirty \ {pg}, w.todo, w.fin)
      /\ UNCHANGED <<jrnl, jDisk, ghosts, lock, st, counted, txn, com>>
  BY <1>0 DEF WrotePage
<1>2. st[p] \in Live /\ st[p] # "WRITER_CACHEMOD"
  BY <1>1 DEF Live, Building, Closing
<1>3. w' \in Writers
  <2>1. w.dirty \ {pg} \in SUBSET Page
    BY StepFacts, JournalFields
  <2> QED BY <1>1, <2>1, StepFacts, JournalFields, WriterOfType
<1>4. db' \in [Page -> Nat] /\ dbLoss' \in [Page -> SUBSET Nat]
  BY <1>1, StepFacts DEF FileTypes
<1>5. FileTypes'
  BY <1>1, <1>3, <1>4, StepFacts DEF FileTypes
<1>6. /\ cache' \in [Proc -> [Page -> Content]] /\ \A q \in Proc \ {p} : cache'[q] = cache[q]
      /\ \A r \in Page : cache'[p][r] = IF r = pg THEN v ELSE cache[p][r]
      /\ vers' \in [Proc -> Nat]
  BY <1>1, StepFacts DEF ProcTypes, Content
<1>7. /\ w'.proc = p /\ w'.hdr = w.hdr /\ w'.off = w.off /\ w'.inJournal = w.inJournal
      /\ w'.needSync = w.needSync /\ w'.dirty = w.dirty \ {pg}
  BY <1>1 DEF WriterOf
<1>8. cache'[p][1] \in Nat /\ \A r \in w'.inJournal : cache'[p][r] \in Nat
  BY <1>2, <1>6, <1>7, WritingFacts, StepFacts, JournalFields, SectorTypes
<1>9. st' = [st EXCEPT ![p] = st[p]]
  BY <1>1, StepFacts DEF ProcTypes
<1>10. /\ w'.dirty \subseteq w'.inJournal /\ w'.needSync \subseteq w'.inJournal
       /\ w'.hdr \in 1..MaxSlot /\ w'.off \in (w'.hdr + 1)..(MaxSlot + 1)
  BY <1>2, <1>7, WritingFacts
<1>11. /\ w.proc = p /\ lock[p] = EXCLUSIVE_LOCK /\ st[p] \in Live \cup {"UNDO"} /\ lock' = lock
       /\ counted' \in [Proc -> BOOLEAN]
  BY <1>1, <1>2, WritingFacts, StepFacts
<1> QED BY <1>5, <1>6, <1>7, <1>8, <1>9, <1>10, <1>11, WriterTypes

LEMMA CommitSyncTypes ==
  ASSUME TypeInv, NEW p \in Proc, CommitSync(p)
  PROVE  TypeInv'
<1>1. /\ st[p] = "COMMIT" /\ db' = db /\ dbLoss' = [pg \in Page |-> {db[pg]}]
      /\ st' = [st EXCEPT ![p] = "WRITER_FINISHED"]
      /\ UNCHANGED <<jrnl, jDisk, ghosts, lock, cache, vers, counted, w, txn, com>>
  BY DEF CommitSync, SyncDb, Goto
<1>2. dbLoss' \in [Page -> SUBSET Nat]
  BY <1>1, StepFacts DEF FileTypes
<1>3. FileTypes'
  BY <1>1, <1>2, StepFacts DEF FileTypes
<1>4. st[p] \in Live /\ "WRITER_FINISHED" \in Live /\ st[p] # "WRITER_CACHEMOD"
  BY <1>1 DEF Live, Closing
<1> QED BY <1>1, <1>3, <1>4, StepFacts, WritingFacts, WriterTypes DEF ProcTypes

(* pager_end_transaction gives the lock back but for SHARED. *)
LEMMA EndTypes ==
  ASSUME TypeInv, NEW p \in Proc, NEW S \in {"READER", "CHECKED"}, w.proc = p, EndTransaction(p, S),
         db' \in [Page -> Nat], dbLoss' \in [Page -> SUBSET Nat], jrnl' \in Journals, jDisk' \in Slots,
         ghosts' \in SUBSET Ghosts, txn' = txn, com' \in [Page -> Nat],
         cache' \in [Proc -> [Page -> Content]], vers' \in [Proc -> Nat],
         \A q \in Proc \ {p} : cache'[q] = cache[q],
         S = "READER" => cache'[p][1] \in Nat
  PROVE  TypeInv'
<1>1. Moves(p, S, SHARED_LOCK) /\ w' = NoWriter /\ counted' = [counted EXCEPT ![p] = FALSE]
  BY DEF EndTransaction, Moves, Goto
<1>2. lock[p] >= SHARED_LOCK
  BY StepFacts, Levels DEF Locked
<1>3. Granted(p, SHARED_LOCK) /\ SHARED_LOCK \in LockLevel
  BY <1>2, StepFacts, Levels
<1>4. FileTypes'
  BY <1>1, NoWriterType, StepFacts DEF FileTypes
<1>5. w'.proc # p
  BY <1>1, NoneFact
<1>6. S \in Sharing /\ S \in States /\ S \notin Live /\ S # "WRITER_LOCKED"
  BY StateFacts DEF Sharing
<1>7. LockedAs(S, SHARED_LOCK, w'.proc = p)
  BY <1>5, <1>6, StateFacts
<1>8. Present(p)'
  <2>1. st'[p] = S
    BY <1>1, StepFacts DEF Moves, ProcTypes
  <2>2. S = "CHECKED" => S \notin Loaded
    BY DEF Loaded, Live, Building, Syncing, Closing
  <2> QED BY <2>1, <2>2, <1>6 DEF Present
<1>9. counted' \in [Proc -> BOOLEAN]
  BY <1>1, StepFacts
<1> QED BY <1>1, <1>3, <1>4, <1>6, <1>7, <1>8, <1>9, TypeFrame DEF Takes

LEMMA CommitTypes ==
  ASSUME TypeInv, NEW p \in Proc, NEW m, Commit(p, m)
  PROVE  TypeInv'
<1>1. /\ st[p] = "WRITER_FINISHED" /\ Finalize(m, FALSE) /\ EndTransaction(p, "READER")
      /\ com' = [pg \in Page |-> IF pg \in w.inJournal THEN cache[p][pg] ELSE com[pg]]
      /\ UNCHANGED <<db, dbLoss, cache, vers, txn>>
  BY DEF Commit
<1>2. st[p] \in Live
  BY <1>1 DEF Live, Closing
<1>3. com' \in [Page -> Nat]
  BY <1>1, <1>2, WritingFacts, StepFacts DEF FileTypes
<1>4. jrnl' \in Journals /\ jDisk' \in Slots /\ ghosts' \in SUBSET Ghosts
  BY <1>1, StepFacts, FinalizeTypes
<1> QED BY <1>1, <1>2, <1>3, <1>4, WritingFacts, StepFacts, EndTypes DEF FileTypes, ProcTypes

LEMMA EndUnusedTypes ==
  ASSUME TypeInv, NEW p \in Proc, EndUnused(p)
  PROVE  TypeInv'
<1>1. st[p] = "WRITER_LOCKED" /\ EndTransaction(p, "READER") /\ UNCHANGED <<files, cache, vers, txn, com>>
  BY DEF EndUnused
<1>2. w.proc = p /\ cache[p][1] \in Nat
  <2>1. st[p] \in Loaded
    BY <1>1 DEF Loaded
  <2> QED BY <1>1, <2>1, StepFacts, Owner DEF Present
<1> QED BY <1>1, <1>2, StepFacts, EndTypes DEF FileTypes, ProcTypes, files

(* What the rollback makes of the cache. *)
LEMMA UndoneTypes ==
  ASSUME TypeInv, NEW p \in Proc, st[p] \in Live,
         cache' = [cache EXCEPT ![p] = Over(Undone, @)],
         vers' = [vers EXCEPT ![p] = IF 1 \in DOMAIN Undone THEN Undone[1] ELSE @]
  PROVE  /\ Undone \in Undo
         /\ cache' \in [Proc -> [Page -> Content]] /\ \A q \in Proc \ {p} : cache'[q] = cache[q]
         /\ \A pg \in Page : cache'[p][pg] = IF pg \in DOMAIN Undone THEN Undone[pg] ELSE cache[p][pg]
         /\ cache'[p][1] \in Nat /\ vers' \in [Proc -> Nat]
<1>1. Undone \in Undo
  BY StepFacts, JournalFields, PlaybackType DEF Undone
<1>2. cache[p] \in [Page -> Content] /\ Nat \subseteq Content
  BY StepFacts DEF ProcTypes, Content
<1>3. /\ Over(Undone, cache[p]) \in [Page -> Content]
      /\ \A pg \in Page : Over(Undone, cache[p])[pg] =
           IF pg \in DOMAIN Undone THEN Undone[pg] ELSE cache[p][pg]
  BY <1>1, <1>2, OverType
<1>4. cache' = [cache EXCEPT ![p] = Over(Undone, cache[p])]
  OBVIOUS
<1>5. /\ cache' \in [Proc -> [Page -> Content]] /\ cache'[p] = Over(Undone, cache[p])
      /\ \A q \in Proc \ {p} : cache'[q] = cache[q]
  BY <1>3, <1>4, StepFacts DEF ProcTypes
<1>6. \A pg \in DOMAIN Undone : Undone[pg] \in Nat
  BY <1>1, UndoType
<1>7. cache'[p][1] \in Nat
  BY <1>3, <1>5, <1>6, WritingFacts, SectorTypes
<1>8. vers' \in [Proc -> Nat]
  BY <1>6, StepFacts DEF ProcTypes
<1> QED BY <1>1, <1>3, <1>5, <1>7, <1>8

LEMMA RollbackCacheTypes ==
  ASSUME TypeInv, NEW p \in Proc, NEW m, RollbackCache(p, m)
  PROVE  TypeInv'
<1>1. /\ st[p] = "WRITER_CACHEMOD" \/ SyncFailed(p)
      /\ cache' = [cache EXCEPT ![p] = Over(Undone, @)]
      /\ vers' = [vers EXCEPT ![p] = IF 1 \in DOMAIN Undone THEN Undone[1] ELSE @]
      /\ Finalize(m, FALSE) /\ EndTransaction(p, "READER") /\ UNCHANGED <<db, dbLoss, txn, com>>
  BY DEF RollbackCache
<1>2. st[p] \in Live
  BY <1>1 DEF SyncFailed, Live, Building, Syncing
<1>3. /\ cache' \in [Proc -> [Page -> Content]] /\ \A q \in Proc \ {p} : cache'[q] = cache[q]
      /\ cache'[p][1] \in Nat /\ vers' \in [Proc -> Nat]
  BY <1>1, <1>2, UndoneTypes
<1>4. jrnl' \in Journals /\ jDisk' \in Slots /\ ghosts' \in SUBSET Ghosts
  BY <1>1, StepFacts, FinalizeTypes
<1>5. db' \in [Page -> Nat] /\ dbLoss' \in [Page -> SUBSET Nat] /\ com' \in [Page -> Nat] /\ txn' = txn
  BY <1>1, StepFacts DEF FileTypes
<1>6. w.proc = p
  BY <1>2, WritingFacts
<1>7. EndTransaction(p, "READER")
  BY <1>1
<1> QED BY <1>3, <1>4, <1>5, <1>6, <1>7, EndTypes

LEMMA RollbackShape ==
  ASSUME TypeInv, NEW p \in Proc, Rollback(p)
  PROVE  /\ st[p] \in Live \ {"WRITER_CACHEMOD"}
         /\ cache' = [cache EXCEPT ![p] = Over(Undone, @)]
         /\ vers' = [vers EXCEPT ![p] = IF 1 \in DOMAIN Undone THEN Undone[1] ELSE @]
         /\ st' = [st EXCEPT ![p] = "UNDO"] /\ UNCHANGED <<files, lock, counted, txn, com>>
         /\ \E t \in Undo : /\ DOMAIN t = DOMAIN Undone \ w.needSync
                            /\ \A pg \in DOMAIN t : t[pg] = Undone[pg]
                            /\ w' = WriterOf(p, w.off, w.hdr, w.inJournal, w.needSync, w.dirty, t, w.fin)
<1> DEFINE T == DOMAIN Undone \ w.needSync
           t == [pg \in T |-> Undone[pg]]
<1>1. /\ st[p] \in {"WRITER_DBMOD", "COMMIT", "WRITER_FINISHED"} \/ SyncFailed(p)
      /\ cache' = [cache EXCEPT ![p] = Over(Undone, @)]
      /\ vers' = [vers EXCEPT ![p] = IF 1 \in DOMAIN Undone THEN Undone[1] ELSE @]
      /\ w' = [w EXCEPT !.todo = t]
      /\ st' = [st EXCEPT ![p] = "UNDO"] /\ UNCHANGED <<files, lock, counted, txn, com>>
  BY DEF Rollback, Goto
<1>2. st[p] \in Live \ {"WRITER_CACHEMOD"}
  BY <1>1 DEF SyncFailed, Live, Building, Syncing, Closing
<1>3. Undone \in Undo
  BY StepFacts, JournalFields, PlaybackType DEF Undone
<1>4. T \in SUBSET Page /\ \A pg \in T : Undone[pg] \in Nat
  BY <1>3, UndoType
<1> HIDE DEF T
<1>5. t \in [T -> Nat] /\ DOMAIN t = T /\ \A pg \in DOMAIN t : t[pg] = Undone[pg]
  BY <1>4
<1> HIDE DEF t
<1>6. t \in Undo
  BY <1>4, <1>5, UndoIs
<1>7. w.proc = p /\ w \in Writers
  BY <1>2, WritingFacts, StepFacts DEF FileTypes
<1>8. w' = WriterOf(p, w.off, w.hdr, w.inJournal, w.needSync, w.dirty, t, w.fin)
  BY <1>1, <1>7 DEF Writers, WriterOf
<1> QED BY <1>1, <1>2, <1>5, <1>6, <1>8 DEF T

LEMMA RollbackTypes ==
  ASSUME TypeInv, NEW p \in Proc, Rollback(p)
  PROVE  TypeInv'
<1>1. /\ st[p] \in Live \ {"WRITER_CACHEMOD"}
      /\ cache' = [cache EXCEPT ![p] = Over(Undone, @)]
      /\ vers' = [vers EXCEPT ![p] = IF 1 \in DOMAIN Undone THEN Undone[1] ELSE @]
      /\ st' = [st EXCEPT ![p] = "UNDO"] /\ UNCHANGED <<files, lock, counted, txn, com>>
  BY RollbackShape
<1>2. PICK t \in Undo : w' = WriterOf(p, w.off, w.hdr, w.inJournal, w.needSync, w.dirty, t, w.fin)
  BY RollbackShape
<1>3. /\ cache' \in [Proc -> [Page -> Content]] /\ \A q \in Proc \ {p} : cache'[q] = cache[q]
      /\ cache'[p][1] \in Nat /\ vers' \in [Proc -> Nat]
  BY <1>1, UndoneTypes
<1>4. w' \in Writers /\ w'.proc = p
  <2>1. w' \in Writers
    BY <1>2, StepFacts, JournalFields, WriterOfType
  <2>2. w'.proc = p
    BY <1>2 DEF WriterOf
  <2> QED BY <2>1, <2>2
<1>5. FileTypes'
  BY <1>1, <1>4, StepFacts DEF FileTypes, files
<1>6. "UNDO" \notin Live
  BY DEF Live, Building, Syncing, Closing
<1>7. w.proc = p /\ lock[p] = EXCLUSIVE_LOCK
  BY <1>1, WritingFacts
<1> QED BY <1>1, <1>3, <1>4, <1>5, <1>6, <1>7, StepFacts, WriterTypes

LEMMA PlaybackPageShape ==
  ASSUME TypeInv, NEW p \in Proc, NEW pg \in Page, PlaybackPage(p, pg)
  PROVE  /\ st[p] \in {"PLAYBACK", "UNDO"} /\ pg \in DOMAIN w.todo /\ w.todo[pg] \in Nat
         /\ db' = [db EXCEPT ![pg] = w.todo[pg]] /\ dbLoss' = [dbLoss EXCEPT ![pg] = @ \cup {w.todo[pg]}]
         /\ UNCHANGED <<jrnl, jDisk, ghosts, procs, txn, com>>
         /\ w.proc = p /\ lock[p] = EXCLUSIVE_LOCK
         /\ \E t \in Undo : /\ DOMAIN t = DOMAIN w.todo \ {pg}
                            /\ \A q \in DOMAIN t : t[q] = w.todo[q]
                            /\ w' = WriterOf(p, w.off, w.hdr, w.inJournal, w.needSync, w.dirty, t, w.fin)
<1> DEFINE T == DOMAIN w.todo \ {pg}
           t == [q \in T |-> w.todo[q]]
<1>1. /\ st[p] \in {"PLAYBACK", "UNDO"} /\ pg \in DOMAIN w.todo
      /\ db' = [db EXCEPT ![pg] = w.todo[pg]] /\ dbLoss' = [dbLoss EXCEPT ![pg] = @ \cup {w.todo[pg]}]
      /\ UNCHANGED <<jrnl, jDisk, ghosts, procs, txn, com>> /\ w' = [w EXCEPT !.todo = t]
  BY DEF PlaybackPage, WriteDb
<1>2. w.todo \in Undo /\ w \in Writers
  BY StepFacts, JournalFields DEF FileTypes
<1>3. T \in SUBSET Page /\ w.todo[pg] \in Nat /\ \A q \in T : w.todo[q] \in Nat
  BY <1>1, <1>2, UndoType
<1> HIDE DEF T
<1>4. t \in [T -> Nat] /\ DOMAIN t = T /\ \A q \in DOMAIN t : t[q] = w.todo[q]
  BY <1>3
<1> HIDE DEF t
<1>5. t \in Undo
  BY <1>3, <1>4, UndoIs
<1>6. w.proc = p /\ lock[p] = EXCLUSIVE_LOCK
  BY <1>1, StepFacts, Levels DEF Locked, Exclusive
<1>7. w' = WriterOf(p, w.off, w.hdr, w.inJournal, w.needSync, w.dirty, t, w.fin)
  BY <1>1, <1>2, <1>6 DEF Writers, WriterOf
<1> QED BY <1>1, <1>3, <1>4, <1>5, <1>6, <1>7 DEF T

LEMMA PlaybackPageTypes ==
  ASSUME TypeInv, NEW p \in Proc, NEW pg \in Page, PlaybackPage(p, pg)
  PROVE  TypeInv'
<1>1. /\ st[p] \in {"PLAYBACK", "UNDO"} /\ w.todo[pg] \in Nat
      /\ db' = [db EXCEPT ![pg] = w.todo[pg]] /\ dbLoss' = [dbLoss EXCEPT ![pg] = @ \cup {w.todo[pg]}]
      /\ UNCHANGED <<jrnl, jDisk, ghosts, procs, txn, com>> /\ w.proc = p
  BY PlaybackPageShape
<1>2. PICK t \in Undo : w' = WriterOf(p, w.off, w.hdr, w.inJournal, w.needSync, w.dirty, t, w.fin)
  BY PlaybackPageShape
<1>3. w' \in Writers
  BY <1>2, StepFacts, JournalFields, WriterOfType
<1>4. w'.proc = p
  BY <1>2 DEF WriterOf
<1>5. db' \in [Page -> Nat] /\ dbLoss' \in [Page -> SUBSET Nat]
  BY <1>1, StepFacts DEF FileTypes
<1>6. FileTypes'
  BY <1>1, <1>3, <1>5, StepFacts DEF FileTypes
<1>7. Moves(p, st[p], lock[p])
  <2>1. [st EXCEPT ![p] = st[p]] = st /\ lock' = lock /\ st' = st
    BY <1>1, StepFacts DEF ProcTypes, procs
  <2> QED BY <2>1, StepFacts, LockStays
<1>8. LockedAs(st[p], lock[p], w'.proc = p)
  BY <1>1, <1>4, StepFacts DEF LockedAs
<1>9. Present(p)'
  <2>1. st'[p] = st[p] /\ cache' = cache
    BY <1>1 DEF procs
  <2>2. st[p] \notin Live /\ st[p] # "WRITER_LOCKED"
    BY <1>1 DEF Live, Building, Syncing, Closing
  <2> QED BY <2>1, <2>2, StepFacts DEF Present
<1>10. cache' = cache /\ vers' = vers /\ counted' = counted
  BY <1>1 DEF procs
<1> QED BY <1>1, <1>4, <1>6, <1>7, <1>8, <1>9, <1>10, StepFacts, TypeFrame DEF Takes, ProcTypes

LEMMA PlaybackEndTypes ==
  ASSUME TypeInv, NEW p \in Proc, NEW m, PlaybackEnd(p, m)
  PROVE  TypeInv'
<1>1. /\ st[p] \in {"PLAYBACK", "UNDO"} /\ db' = db /\ dbLoss' = [pg \in Page |-> {db[pg]}]
      /\ Finalize(m, st[p] = "PLAYBACK") /\ UNCHANGED <<cache, vers, txn, com>>
      /\ EndTransaction(p, IF st[p] = "UNDO" THEN "READER" ELSE "CHECKED")
  BY DEF PlaybackEnd, SyncDb
<1>2. dbLoss' \in [Page -> SUBSET Nat] /\ db' \in [Page -> Nat]
  BY <1>1, StepFacts DEF FileTypes
<1>3. (st[p] = "PLAYBACK") \in BOOLEAN
  OBVIOUS
<1>4. jrnl' \in Journals /\ jDisk' \in Slots /\ ghosts' \in SUBSET Ghosts
  BY <1>1, <1>3, StepFacts, FinalizeTypes
<1>5. w.proc = p
  BY <1>1, StepFacts, Owner
<1>6. CASE st[p] = "UNDO"
  <2>1. cache[p][1] \in Nat
    BY <1>6, StepFacts DEF Present, Loaded
  <2>2. EndTransaction(p, "READER")
    BY <1>1, <1>6
  <2> QED BY <1>1, <1>2, <1>4, <1>5, <2>1, <2>2, StepFacts, EndTypes DEF FileTypes, ProcTypes
<1>7. CASE st[p] = "PLAYBACK"
  <2>1. EndTransaction(p, "CHECKED")
    BY <1>1, <1>7
  <2> QED BY <1>1, <1>2, <1>4, <1>5, <2>1, StepFacts, EndTypes DEF FileTypes, ProcTypes
<1> QED BY <1>1, <1>6, <1>7

LEMMA ForgetTypes ==
  ASSUME TypeInv, NEW p \in Proc, Forget(p), UNCHANGED <<files, txn, com>>
  PROVE  TypeInv'
<1>1. /\ Moves(p, "OPEN", NO_LOCK) /\ cache' = NoCache(p) /\ counted' = [counted EXCEPT ![p] = FALSE]
      /\ vers' = vers /\ w' = IF w.proc = p THEN NoWriter ELSE w
  BY DEF Forget, Moves, Goto
<1>2. w' \in Writers /\ w'.proc # p /\ Takes(p)
  BY <1>1, NoWriterType, NoneFact, StepFacts DEF FileTypes, Takes
<1>3. FileTypes'
  BY <1>2, StepFacts DEF FileTypes, files
<1>4. LockedAs("OPEN", NO_LOCK, w'.proc = p) /\ NO_LOCK \in LockLevel
  BY <1>2, Levels DEF LockedAs, Sharing, Exclusive, Syncing, Closing
<1>5. Present(p)'
  <2>1. st'[p] = "OPEN"
    BY <1>1, StepFacts DEF Moves, ProcTypes
  <2> QED BY <2>1, StateFacts DEF Present
<1>6. /\ cache' \in [Proc -> [Page -> Content]] /\ counted' \in [Proc -> BOOLEAN]
      /\ \A q \in Proc \ {p} : cache'[q] = cache[q]
  BY <1>1, StepFacts DEF NoCache, ProcTypes, Content
<1> QED BY <1>1, <1>2, <1>3, <1>4, <1>5, <1>6, StepFacts, StateFacts, TypeFrame DEF ProcTypes

LEMMA SurvivesShape ==
  ASSUME NEW here \in BOOLEAN, NEW slot \in Slots, NEW disk \in Slots, Survives(here, slot, disk)
  PROVE  \E m \in Mixes(slot, disk) : jrnl' = [here |-> here, durable |-> TRUE, slot |-> m]
<1>1. PICK lost \in SUBSET {i \in 1..MaxSlot : slot[i] # disk[i]} :
        jrnl' = [here |-> here, durable |-> TRUE,
                 slot |-> [i \in 1..MaxSlot |-> IF i \in lost THEN disk[i] ELSE slot[i]]]
  BY DEF Survives
<1>2. [i \in 1..MaxSlot |-> IF i \in lost THEN disk[i] ELSE slot[i]] \in Mixes(slot, disk)
  BY DEF Mixes
<1> QED BY <1>1, <1>2

(* The journal after a loss of power: it is gone, or it is there with some of *)
(* its sectors, or a deleted one is back.                                     *)
LEMMA PowerLossShape ==
  ASSUME FileTypes, PowerLoss
  PROVE  \/ ~jrnl.durable /\ jrnl' = NoJournal /\ com' = com
         \/ /\ com' = com
            /\ \E m \in Mixes(jrnl.slot, jDisk) :
                 jrnl' = [here |-> jrnl.here, durable |-> TRUE, slot |-> m]
         \/ \E g \in ghosts : /\ com' = g.com
                              /\ \E m \in Mixes(g.slot, g.disk) :
                                   jrnl' = [here |-> TRUE, durable |-> TRUE, slot |-> m]
<1>1. CASE ~jrnl.durable /\ jrnl' = NoJournal /\ UNCHANGED com
  BY <1>1
<1>2. CASE Survives(jrnl.here, jrnl.slot, jDisk) /\ UNCHANGED com
  BY <1>2, JournalFields, SurvivesShape DEF FileTypes
<1>3. CASE \E g \in ghosts : Survives(TRUE, g.slot, g.disk) /\ com' = g.com
  <2>1. PICK g \in ghosts : Survives(TRUE, g.slot, g.disk) /\ com' = g.com
    BY <1>3
  <2>2. g.slot \in Slots /\ g.disk \in Slots
    BY DEF FileTypes, Ghosts
  <2>3. \E m \in Mixes(g.slot, g.disk) : jrnl' = [here |-> TRUE, durable |-> TRUE, slot |-> m]
    BY <2>1, <2>2, SurvivesShape
  <2> QED BY <2>1, <2>3
<1> QED BY <1>1, <1>2, <1>3 DEF PowerLoss

LEMMA PowerLossTypes ==
  ASSUME TypeInv, PowerLoss
  PROVE  TypeInv'
<1>1. /\ jDisk' = jrnl'.slot /\ ghosts' = {} /\ w' = NoWriter /\ txn' = txn
      /\ dbLoss' = [pg \in Page |-> {db'[pg]}]
      /\ lock' = [p \in Proc |-> NO_LOCK] /\ st' = [p \in Proc |-> "OPEN"]
      /\ cache' = [p \in Proc |-> [pg \in Page |-> None]]
      /\ vers' = [p \in Proc |-> 0] /\ counted' = [p \in Proc |-> FALSE]
      /\ db' \in [Page -> UNION {dbLoss[pg] : pg \in Page}]
  BY DEF PowerLoss, SyncJrnl
<1>2. FileTypes
  BY DEF TypeInv
<1>3. db' \in [Page -> Nat]
  <2>1. UNION {dbLoss[pg] : pg \in Page} \subseteq Nat
    BY <1>2 DEF FileTypes
  <2> QED BY <2>1, <1>1
<1>4. dbLoss' \in [Page -> SUBSET Nat]
  BY <1>1, <1>3
<1>5. jrnl' \in Journals /\ com' \in [Page -> Nat]
  <2>1. CASE jrnl' = NoJournal /\ com' = com
    BY <2>1, <1>2, SectorTypes DEF FileTypes
  <2>2. CASE /\ com' = com
             /\ \E m \in Mixes(jrnl.slot, jDisk) :
                  jrnl' = [here |-> jrnl.here, durable |-> TRUE, slot |-> m]
    <3>1. PICK m \in Mixes(jrnl.slot, jDisk) : jrnl' = [here |-> jrnl.here, durable |-> TRUE, slot |-> m]
      BY <2>2
    <3>2. m \in Slots
      BY <1>2, JournalFields, MixSectors DEF FileTypes
    <3> QED BY <2>2, <3>1, <3>2, <1>2, JournalFields DEF Journals, FileTypes
  <2>3. CASE \E g \in ghosts : /\ com' = g.com
                               /\ \E m \in Mixes(g.slot, g.disk) :
                                    jrnl' = [here |-> TRUE, durable |-> TRUE, slot |-> m]
    <3>1. PICK g \in ghosts : /\ com' = g.com
                              /\ \E m \in Mixes(g.slot, g.disk) :
                                   jrnl' = [here |-> TRUE, durable |-> TRUE, slot |-> m]
      BY <2>3
    <3>2. PICK m \in Mixes(g.slot, g.disk) : jrnl' = [here |-> TRUE, durable |-> TRUE, slot |-> m]
      BY <3>1
    <3>3. g.slot \in Slots /\ g.disk \in Slots /\ g.com \in [Page -> Nat]
      BY <1>2 DEF FileTypes, Ghosts
    <3>4. m \in Slots
      BY <3>3, MixSectors
    <3> QED BY <3>1, <3>2, <3>3, <3>4 DEF Journals
  <2> QED BY <1>2, <2>1, <2>2, <2>3, PowerLossShape
<1>6. jDisk' \in Slots
  BY <1>1, <1>5 DEF Journals
<1>7. FileTypes'
  BY <1>1, <1>2, <1>3, <1>4, <1>5, <1>6, NoWriterType DEF FileTypes
<1>8. ProcTypes'
  BY <1>1, StateFacts, Levels DEF ProcTypes, Content
<1>9. LockInv'
  <2>1. \A p \in Proc : lock'[p] = NO_LOCK /\ st'[p] = "OPEN" /\ w'.proc # p
    BY <1>1, NoneFact
  <2>2. ASSUME NEW p \in Proc PROVE Locked(p)'
    BY <2>1, Levels DEF Locked, Sharing, Exclusive, Syncing, Closing
  <2>3. ASSUME NEW p \in Proc, NEW q \in Proc PROVE Alone(p, q)'
    BY <2>1, Levels DEF Alone
  <2> QED BY <1>1, <2>2, <2>3 DEF LockInv
<1>10. ASSUME NEW p \in Proc PROVE Present(p)'
  <2>1. st'[p] = "OPEN"
    BY <1>1
  <2> QED BY <2>1, StateFacts DEF Present
<1> QED BY <1>7, <1>8, <1>9, <1>10 DEF TypeInv

LEMMA InitTypes == Init => TypeInv
<1> SUFFICES ASSUME Init PROVE TypeInv
  OBVIOUS
<1>1. FileTypes
  BY SectorTypes, NoWriterType DEF Init, FileTypes
<1>2. ProcTypes
  BY StateFacts, Levels DEF Init, ProcTypes, Content
<1>3. \A p \in Proc : lock[p] = NO_LOCK /\ st[p] = "OPEN" /\ w.proc # p
  BY NoneFact DEF Init
<1>4. ASSUME NEW p \in Proc PROVE Locked(p) /\ Present(p)
  <2>1. Locked(p)
    BY <1>3, Levels DEF Locked, Sharing, Exclusive, Syncing, Closing
  <2> QED BY <1>3, <2>1, StateFacts DEF Present
<1>5. ASSUME NEW p \in Proc, NEW q \in Proc PROVE Alone(p, q)
  BY <1>3, Levels DEF Alone
<1>6. w = NoWriter
  BY DEF Init
<1>7. LockInv
  BY <1>4, <1>5, <1>6 DEF LockInv
<1> QED BY <1>1, <1>2, <1>4, <1>7 DEF TypeInv

LEMMA NextTypes == TypeInv /\ [Next]_vars => TypeInv'
<1> SUFFICES ASSUME TypeInv, [Next]_vars PROVE TypeInv'
  OBVIOUS
<1>1. ASSUME NEW p \in Proc, ReadStep(p) PROVE TypeInv'
  <2>1. Data \subseteq Page
    BY DEF Page
  <2> QED BY <1>1, <2>1, SharedLockTypes, ReaderTypes, HotLockTypes, HotRecheckTypes, ValidateTypes, ReadTypes
         DEF ReadStep
<1>2. ASSUME NEW p \in Proc, WriteStep(p) PROVE TypeInv'
  <2>1. Data \subseteq Page /\ FullSync \subseteq BOOLEAN
    BY PagerAssumption DEF Page
  <2>2. CASE \/ Begin(p) \/ IncrChangeCounter(p) \/ JournalHdr(p) \/ JournalSync(p)
             \/ CommitSync(p) \/ EndUnused(p) \/ Rollback(p)
    BY <2>2, BeginTypes, IncrTypes, JournalHdrTypes, JournalSyncTypes, CommitSyncTypes, EndUnusedTypes, RollbackTypes
  <2>3. CASE \E pg \in Data : Write(p, pg)
    BY <2>1, <2>3, WriteTypes
  <2>4. CASE \E fin \in BOOLEAN, full \in FullSync : SyncJournal(p, fin, full)
    BY <2>1, <2>4, SyncJournalTypes
  <2>5. CASE \E pg \in Page : WritePage(p, pg)
    BY <2>5, WritePageTypes
  <2>6. CASE \E m \in Modes : Commit(p, m) \/ RollbackCache(p, m)
    BY <2>6, CommitTypes, RollbackCacheTypes
  <2> QED BY <1>2, <2>2, <2>3, <2>4, <2>5, <2>6 DEF WriteStep
<1>3. ASSUME NEW p \in Proc, EndStep(p) PROVE TypeInv'
  BY <1>3, PlaybackPageTypes, PlaybackEndTypes DEF EndStep
<1>4. ASSUME NEW p \in Proc, UnlockError(p) \/ Crash(p) PROVE TypeInv'
  BY <1>4, ForgetTypes DEF UnlockError, Crash
<1>5. CASE UNCHANGED vars
  BY <1>5 DEF vars, files, procs, TypeInv, FileTypes, ProcTypes, LockInv, Locked, Alone, Present
<1> QED BY <1>1, <1>2, <1>3, <1>4, <1>5, UnlockTypes, ExclusiveLockTypes, IoErrorTypes, PowerLossTypes DEF Next

LEMMA AlwaysTypes == SafeSpec => []TypeInv
BY InitTypes, NextTypes, PTL DEF SafeSpec

(* Types, and the locks: a process has RESERVED or more exactly when the      *)
(* fields of the writer are its own, and none exactly when it is OPEN,        *)
(* whatever dies or is refused in between.                                    *)
THEOREM PagerTypes == SafeSpec => []TypeOK
<1>1. TypeInv => TypeOK
  BY DEF TypeInv, TypeOK, FileTypes, ProcTypes, LockInv, Locked
<1> QED BY <1>1, AlwaysTypes, PTL

-------------------------------------------------------------------------------
(* What makes a journal safe, and what keeps it so. *)

LEMMA SafeMix ==
  ASSUME NEW s \in Slots, NEW d \in Slots, NEW m \in Mixes(s, d), NEW loss, NEW c, NEW f, NEW loss2,
         Safe(s, d, loss, c), \A pg \in Page : f[pg] \in loss[pg] /\ loss2[pg] = {f[pg]}
  PROVE  Safe(m, m, loss2, c)
<1>1. m \in Slots
  BY MixSectors
<1>2. SUFFICES /\ Honest(Playback(m, 0), c)
               /\ \A pg \in Page \ DOMAIN Playback(m, 0) : loss2[pg] = {c[pg]}
  BY <1>1, MixSame DEF Safe
<1>3. /\ Honest(Playback(m, 0), c)
      /\ \A pg \in Page \ DOMAIN Playback(m, 0) : loss[pg] = {c[pg]}
  BY DEF Safe
<1>4. ASSUME NEW pg \in Page \ DOMAIN Playback(m, 0)
      PROVE  loss2[pg] = {c[pg]}
  <2>1. loss[pg] = {c[pg]} /\ f[pg] \in loss[pg] /\ loss2[pg] = {f[pg]}
    BY <1>3
  <2>2. f[pg] = c[pg]
    BY <2>1
  <2> QED BY <2>1, <2>2
<1> QED BY <1>3, <1>4

LEMMA SafeSynced ==
  ASSUME NEW s \in Slots, NEW d \in Slots, NEW loss, NEW c, Safe(s, d, loss, c)
  PROVE  Safe(s, s, loss, c)
BY MixSelf, MixSame DEF Safe

LEMMA SafeSettled ==
  ASSUME NEW s, NEW d, NEW loss, NEW c, NEW loss2, Safe(s, d, loss, c), Settled(loss2, c)
  PROVE  Safe(s, d, loss2, c)
BY DEF Safe, Settled

LEMMA SafeSame ==
  ASSUME NEW s \in Slots, NEW loss, NEW c,
         Honest(Playback(s, 0), c), \A pg \in Page \ DOMAIN Playback(s, 0) : loss[pg] = {c[pg]}
  PROVE  Safe(s, s, loss, c)
BY MixSame DEF Safe

LEMMA SafeCold ==
  ASSUME NEW s \in Slots, NEW loss, NEW c, ~HasMagic(s[1]), Settled(loss, c)
  PROVE  Safe(s, s, loss, c)
<1>1. DOMAIN Playback(s, 0) = {}
  BY ColdRead
<1>2. Honest(Playback(s, 0), c)
  BY <1>1 DEF Honest
<1> QED BY <1>2, SafeSame DEF Settled

LEMMA SafeUse ==
  ASSUME NEW s \in Slots, NEW d \in Slots, NEW loss, NEW c, Safe(s, d, loss, c)
  PROVE  /\ Honest(Playback(s, 0), c)
         /\ \A pg \in Page \ DOMAIN Playback(s, 0) : loss[pg] = {c[pg]}
BY MixSelf DEF Safe

LEMMA ColdSettled ==
  ASSUME NEW s \in Slots, NEW d \in Slots, NEW loss, NEW c, Safe(s, d, loss, c), ~HasMagic(s[1])
  PROVE  Settled(loss, c)
BY SafeUse, ColdRead DEF Settled

LEMMA SafeBuild ==
  ASSUME NEW s \in Slots, NEW d \in Slots, NEW loss,
         NEW h, NEW o, NEW t \in Nat, NEW c \in [Page -> Nat], NEW done, NEW need \in SUBSET Page,
         Before(s, h, c, done), Segment(s, h, o, t, c, need), OnDisk(s, d, h, t),
         s[h].n = 0 \/ (s[h].n = o - h - 1 /\ Ended(s, d, o)),
         \A pg \in Page \ done : loss[pg] = {c[pg]}
  PROVE  Safe(s, d, loss, c)
<1>1. ASSUME NEW m \in Mixes(s, d)
      PROVE  Honest(Playback(m, 0), c) /\ done \subseteq DOMAIN Playback(m, 0)
  BY MixRead
<1> QED BY <1>1 DEF Safe

(* Who has read past the first header found its magic. *)
LEMMA FirstMagic ==
  ASSUME NEW s \in Slots, NEW h \in 2..MaxSlot, NEW c, NEW done, Before(s, h, c, done)
  PROVE  HasMagic(s[1])
<1> SUFFICES ASSUME ~HasMagic(s[1]) PROVE FALSE
  OBVIOUS
<1> DEFINE R == Reads(s, 0)
           T == {i \in 1..(h - 1) : ~R[i].on}
<1>0. MaxSlot \in Nat /\ h - 1 \in Nat /\ 1 \in 1..(h - 1) /\ h - 1 \in 1..(h - 1)
  BY PagerAssumption
<1>1. 1 \in 1..MaxSlot /\ 1 \in 0..MaxSlot /\ 0 \in 0..MaxSlot /\ 1 - 1 = 0
  BY PagerAssumption
<1>2. R[0] = ReadStart /\ R[0] \in ReadState /\ s[1] \in Sector
  BY <1>1, ReadsDef, ReadsType DEF Slots
<1>3. R[0].on /\ R[0].left = 0
  BY <1>2 DEF ReadStart
<1>4. R[1] = ReadSector(R[0], s[1], FALSE)
  <2>1. (1 = 0) = FALSE
    OBVIOUS
  <2>2. R[1] = ReadSector(R[0], s[1], 1 = 0)
    BY <1>1, ReadsDef
  <2> QED BY <2>1, <2>2
<1>5. R[1] = [left |-> 0, nonce |-> R[0].nonce, on |-> FALSE, undo |-> R[0].undo]
  <2> HIDE DEF R
  <2> QED BY <1>2, <1>3, <1>4, ReadNoHeader
<1>6. 1 \in T
  BY <1>0, <1>5
<1>7. ASSUME NEW i \in 1..(h - 1), i \in T, i + 1 \in 1..(h - 1)
      PROVE  i + 1 \in T
  <2>1. i \in 0..MaxSlot /\ i + 1 \in 1..MaxSlot /\ (i + 1) - 1 = i
    BY <1>0, <1>7
  <2>2. R[i] \in ReadState /\ ~R[i].on
    BY <2>1, <1>7, ReadsType
  <2>3. R[i + 1] = ReadSector(R[i], s[i + 1], i + 1 = 0)
    BY <2>1, ReadsDef
  <2>4. R[i + 1] = R[i]
    <3> HIDE DEF R
    <3> QED BY <2>2, <2>3, ReadStopped
  <2> QED BY <1>7, <2>2, <2>4
<1>8. \A i \in 1..(h - 1) : i \in T
  <2> HIDE DEF T
  <2> QED BY <1>0, <1>6, <1>7, UpTo
<1>9. ~R[h - 1].on
  BY <1>0, <1>8
<1> QED BY <1>9 DEF Before

(* After the records of a header that has its magic and their number, the     *)
(* reading is at the next header.                                             *)
LEMMA SegBefore ==
  ASSUME NEW s \in Slots, NEW m \in Slots, NEW h, NEW o, NEW t \in Nat, NEW c \in [Page -> Nat], NEW done,
         NEW need \in SUBSET Page, need # {},
         Before(s, h, c, done), Segment(s, h, o, t, c, need), s[h].n = o - h - 1,
         \A i \in 1..(o - 1) : s[i] = m[i]
  PROVE  Before(m, o, c, done \cup need)
<1> DEFINE R == Reads(m, 0)
           x == s[h].nonce
           b == R[h - 1]
           N == o - h - 1
           r == R[o - 1]
<1>0. /\ h \in 1..MaxSlot /\ o \in (h + 1)..(MaxSlot + 1) /\ MaxSlot \in Nat
      /\ h \in Nat /\ o \in Nat /\ h - 1 \in 0..MaxSlot /\ h \in 0..MaxSlot /\ h \in 1..(o - 1)
  BY PagerAssumption DEF Segment
<1>1. 0 \notin 1..(h - 1) /\ \A i \in 1..(h - 1) : s[i] = m[i]
  BY <1>0
<1>2. b.on /\ b.left = 0 /\ DOMAIN b.undo = done /\ Honest(b.undo, c)
  BY <1>0, <1>1, BeforePrefix
<1>3. b \in ReadState /\ m[h] \in Sector /\ m[h] = s[h]
  BY <1>0, ReadsType DEF Slots
<1>4. R[h] = ReadSector(b, m[h], h = 0)
  BY <1>0, ReadsDef
<1>5. /\ s[h].pg = 0
      /\ \A i \in (h + 1)..(o - 1) : /\ m[i] = s[i]
                                     /\ s[i].pg \in need /\ s[i].v = c[s[i].pg] /\ s[i].nonce = x
      /\ \A pg \in need : \E i \in (h + 1)..(o - 1) : s[i].pg = pg
  BY <1>0 DEF Segment
<1>6. N > 0 /\ N \in Nat
  <2>1. PICK i \in (h + 1)..(o - 1) : TRUE
    BY <1>5
  <2> QED BY <1>0, <2>1
<1>7. R[h] = [left |-> N, nonce |-> x, on |-> TRUE, undo |-> b.undo]
  <2>1. HasMagic(m[h]) /\ m[h].n = N /\ m[h].nonce = x
    BY <1>3, <1>5, <1>6 DEF HasMagic
  <2>2. (h = 0) = FALSE
    BY <1>0
  <2>3. R[h] = ReadSector(b, m[h], FALSE)
    BY <1>4, <2>2
  <2> HIDE DEF R, b, x, N
  <2> QED BY <2>1, <2>3, <1>2, <1>3, ReadHeader
<1>8. /\ R[h].on /\ R[h].left = N /\ R[h].nonce = x
      /\ DOMAIN R[h].undo = done /\ Honest(R[h].undo, c)
  BY <1>7, <1>2
<1>9. \A i \in (h + 1)..(o - 1) : m[i].nonce = x => m[i].pg \in Page /\ m[i].v = c[m[i].pg]
  BY <1>5
<1>10. \A i \in h..(o - 1) : SegGood(m, R[i], i, h, c, done, N, x)
  <2>1. N >= o - 1 - h
    BY <1>0
  <2> HIDE DEF x, N, R
  <2> QED BY <1>0, <1>6, <1>8, <1>9, <2>1, SegRead DEF R
<1>11. SegGood(m, r, o - 1, h, c, done, N, x)
  <2>1. o - 1 \in h..(o - 1)
    BY <1>0
  <2> HIDE DEF x, N, R
  <2> QED BY <2>1, <1>10
<1>12. \A j \in (h + 1)..(o - 1) : m[j].nonce = x /\ m[j].pg = s[j].pg
  BY <1>5
<1>13. /\ Honest(r.undo, c) /\ done \subseteq DOMAIN r.undo /\ r.on
       /\ DOMAIN r.undo \subseteq done \cup {m[j].pg : j \in (h + 1)..(o - 1)}
       /\ \A j \in (h + 1)..(o - 1) : m[j].pg \in DOMAIN r.undo
       /\ r.left = N - ((o - 1) - h)
  <2> HIDE DEF R, x, N, r
  <2> QED BY <1>11, <1>12 DEF SegGood
<1>14. r.left = 0
  BY <1>0, <1>13
<1>15. DOMAIN r.undo = done \cup need
  <2> HIDE DEF r
  <2>1. need = {m[j].pg : j \in (h + 1)..(o - 1)}
    BY <1>5, <1>12
  <2> QED BY <2>1, <1>13
<1> QED BY <1>13, <1>14, <1>15 DEF Before

LEMMA SoundMix ==
  ASSUME NEW s \in Slots, NEW d \in Slots, NEW m \in Mixes(s, d), NEW t, Sound(s, d, t)
  PROVE  Sound(m, m, t)
<1>1. m \in Slots /\ (\A i \in 1..MaxSlot : m[i] = s[i] \/ m[i] = d[i])
  BY MixSectors
<1>2. Older(m, t)
  BY <1>1 DEF Sound, Older
<1>3. 1 \in 1..MaxSlot /\ \A i \in 2..MaxSlot : i \in 1..MaxSlot
  BY PagerAssumption
<1>4. NoStale(m, m)
  BY <1>1, <1>3 DEF Sound, NoStale
<1> QED BY <1>2, <1>4 DEF Sound

LEMMA SoundSynced ==
  ASSUME NEW s \in Slots, NEW d \in Slots, NEW t, Sound(s, d, t)
  PROVE  Sound(s, s, t)
BY MixSelf, SoundMix

LEMMA SoundLater ==
  ASSUME NEW s \in Slots, NEW d \in Slots, NEW t \in Nat, Sound(s, d, t)
  PROVE  Sound(s, d, t + 1)
<1>1. \A i \in 1..MaxSlot : s[i].nonce \in Nat \X Nat /\ d[i].nonce \in Nat \X Nat
  BY SectorType DEF Slots
<1>2. \A i \in 1..MaxSlot : s[i].nonce[1] \in Nat /\ d[i].nonce[1] \in Nat
  BY <1>1
<1>3. \A i \in 1..MaxSlot : s[i].nonce[1] <= t /\ d[i].nonce[1] <= t
  BY DEF Sound, Older
<1>4. \A i \in 1..MaxSlot : s[i].nonce[1] <= t + 1 /\ d[i].nonce[1] <= t + 1
  BY <1>2, <1>3
<1> QED BY <1>4 DEF Sound, Older

LEMMA EmptySound ==
  ASSUME NEW t \in Nat
  PROVE  Sound(Empty, Empty, t) /\ ~HasMagic(Empty[1])
<1>1. \A i \in 1..MaxSlot : Empty[i] = Gap
  BY DEF Empty
<1>2. ~HasMagic(Gap) /\ Gap.nonce[1] = 0
  BY DEF HasMagic, Gap
<1>3. 1 \in 1..MaxSlot /\ \A i \in 2..MaxSlot : i \in 1..MaxSlot
  BY PagerAssumption
<1> QED BY <1>1, <1>2, <1>3 DEF Sound, Older, NoStale

-------------------------------------------------------------------------------
(* The files and the processes under the steps. *)

(* Without magic at the start of the journal the database is as committed. *)
LEMMA ColdFacts ==
  ASSUME FileTypes, FilesInv, ~HasMagic(jrnl.slot[1])
  PROVE  Settled(dbLoss, com) /\ \A pg \in Page : db[pg] = com[pg]
<1>1. Settled(dbLoss, com)
  <2>1. CASE jrnl.here
    <3>1. jrnl.slot \in Slots /\ jDisk \in Slots /\ Safe(jrnl.slot, jDisk, dbLoss, com)
      BY <2>1, JournalFields DEF FileTypes, FilesInv
    <3> QED BY <3>1, ColdSettled
  <2>2. CASE ~jrnl.here
    BY <2>2 DEF FilesInv
  <2> QED BY <2>1, <2>2
<1> QED BY <1>1 DEF Settled, FilesInv

LEMMA GoneCold ==
  ASSUME FileTypes, FilesInv, ~jrnl.here
  PROVE  ~HasMagic(jrnl.slot[1])
<1>1. jrnl.slot = Empty
  BY DEF FilesInv, NoJournal
<1> QED BY <1>1, EmptySound DEF FileTypes

(* The other processes. *)
LEMMA OtherProc ==
  ASSUME TypeInv, PagerInv, NEW p \in Proc, NEW q \in Proc, q # p,
         st'[q] = st[q], cache'[q] = cache[q], vers'[q] = vers[q], counted'[q] = counted[q], com' = com,
         w.proc # q, lock[p] = EXCLUSIVE_LOCK \/ ~HasMagic(jrnl'.slot[1]) \/ HasMagic(jrnl.slot[1])
  PROVE  ProcInv(q)'
<1>1. ProcInv(q)
  BY DEF PagerInv
<1>2. st[q] \notin Live \cup {"WRITER_LOCKED", "PLAYBACK", "UNDO", "ERROR"}
  BY Owner DEF TypeInv
<1>3. LiveInv(q)' /\ BuildInv(q)' /\ CloseInv(q)' /\ OtherInv(q)'
  BY <1>2 DEF LiveInv, BuildInv, CloseInv, OtherInv, Live
<1>4. lock[p] = EXCLUSIVE_LOCK => st[q] = "OPEN"
  <2>1. Alone(p, q) /\ Locked(q)
    BY DEF TypeInv, LockInv
  <2> QED BY <2>1 DEF Alone, Locked
<1>5. st[q] # "WRITER_CACHEMOD"
  BY <1>2 DEF Live, Building
<1>6. CacheInv(q)'
  BY <1>1, <1>2, <1>4, <1>5 DEF ProcInv, CacheInv
<1> QED BY <1>3, <1>6 DEF ProcInv

LEMMA SameProc ==
  ASSUME TypeInv, PagerInv, NEW q \in Proc,
         st'[q] = st[q], cache'[q] = cache[q], vers'[q] = vers[q], counted'[q] = counted[q],
         UNCHANGED <<files, w, txn, com>>
  PROVE  ProcInv(q)'
<1>1. ProcInv(q)
  BY DEF PagerInv
<1>2. /\ db' = db /\ dbLoss' = dbLoss /\ jrnl' = jrnl /\ jDisk' = jDisk /\ ghosts' = ghosts
      /\ w' = w /\ txn' = txn /\ com' = com
  BY DEF files
<1>3. LiveInv(q)'
  BY <1>1, <1>2 DEF ProcInv, LiveInv, Synced
<1>4. BuildInv(q)'
  BY <1>1, <1>2 DEF ProcInv, BuildInv, Synced
<1>5. CloseInv(q)'
  BY <1>1, <1>2 DEF ProcInv, CloseInv
<1>6. OtherInv(q)' /\ CacheInv(q)'
  BY <1>1, <1>2 DEF ProcInv, OtherInv, CacheInv
<1> QED BY <1>3, <1>4, <1>5, <1>6 DEF ProcInv

(* A step of p that leaves the files. *)
LEMMA SameFiles ==
  ASSUME TypeInv, PagerInv, NEW p \in Proc, UNCHANGED <<files, w, txn, com>>,
         \A q \in Proc \ {p} : /\ st'[q] = st[q] /\ cache'[q] = cache[q]
                               /\ vers'[q] = vers[q] /\ counted'[q] = counted[q],
         ProcInv(p)'
  PROVE  PagerInv'
<1>1. FilesInv'
  BY DEF files, PagerInv, FilesInv
<1>2. ASSUME NEW q \in Proc PROVE ProcInv(q)'
  <2>1. CASE q = p
    BY <2>1
  <2>2. CASE q # p
    BY <2>2, SameProc
  <2> QED BY <2>1, <2>2
<1> QED BY <1>1, <1>2 DEF PagerInv

(* A step of the writer p, or of one that becomes it. *)
LEMMA WriterStep ==
  ASSUME TypeInv, PagerInv, NEW p \in Proc, w.proc \in {p, None}, com' = com,
         \A q \in Proc \ {p} : /\ st'[q] = st[q] /\ cache'[q] = cache[q]
                               /\ vers'[q] = vers[q] /\ counted'[q] = counted[q],
         lock[p] = EXCLUSIVE_LOCK \/ ~HasMagic(jrnl'.slot[1]) \/ HasMagic(jrnl.slot[1]),
         FilesInv', ProcInv(p)'
  PROVE  PagerInv'
<1>1. ASSUME NEW q \in Proc PROVE ProcInv(q)'
  <2>1. CASE q = p
    BY <2>1
  <2>2. CASE q # p
    <3>1. w.proc # q
      BY <2>2, NoneFact
    <3> QED BY <2>2, <3>1, OtherProc
  <2> QED BY <2>1, <2>2
<1> QED BY <1>1 DEF PagerInv

(* What a state without a transaction needs. *)
LEMMA PlainProc ==
  ASSUME NEW p \in Proc, st'[p] \notin Live \cup {"WRITER_LOCKED", "UNDO", "PLAYBACK"}, CacheInv(p)'
  PROVE  ProcInv(p)'
BY DEF ProcInv, LiveInv, BuildInv, CloseInv, OtherInv, Live

(* A step among the states without a transaction, none of which is READER. *)
LEMMA PlainCache ==
  ASSUME TypeInv, PagerInv, NEW p \in Proc,
         st[p] \notin Live \cup {"UNDO", "ERROR"},
         st'[p] \notin Live \cup {"WRITER_LOCKED", "UNDO", "READER", "PLAYBACK"},
         cache'[p] = cache[p], vers'[p] = vers[p], com' = com, counted'[p] \in {FALSE, counted[p]},
         st'[p] = "CHECKED" => ~HasMagic(jrnl'.slot[1])
  PROVE  ProcInv(p)'
<1>1. CacheInv(p)
  BY DEF PagerInv, ProcInv
<1>2. st'[p] # "WRITER_CACHEMOD"
  BY DEF Live, Building
<1>3. CacheInv(p)'
  BY <1>1, <1>2 DEF CacheInv
<1> QED BY <1>3, PlainProc

LEMMA NotMine ==
  ASSUME ProcTypes, NEW p \in Proc, NEW S, st' = [st EXCEPT ![p] = S]
  PROVE  st'[p] = S /\ \A q \in Proc \ {p} : st'[q] = st[q]
BY DEF ProcTypes

LEMMA PlainStates ==
  /\ Sharing \cap (Live \cup {"WRITER_LOCKED", "UNDO", "ERROR", "PLAYBACK"}) = {}
  /\ "OPEN" \notin Live /\ "HOT_EXCLUSIVE" \notin Live /\ "PLAYBACK" \notin Live /\ "ERROR" \notin Live
  /\ "UNDO" \notin Live /\ "WRITER_LOCKED" \notin Live
  /\ {"SHARED", "EXISTS", "UNRESERVED", "HOT", "CHECKED", "READER"} = Sharing
BY DEF Sharing, Live, Building, Syncing, Closing

LEMMA LightKeeps ==
  ASSUME TypeInv, PagerInv, NEW p \in Proc, NEW S \in (Sharing \ {"READER"}) \cup {"OPEN", "HOT_EXCLUSIVE"},
         st[p] \in Sharing \cup {"OPEN", "HOT_EXCLUSIVE"}, st' = [st EXCEPT ![p] = S],
         UNCHANGED <<files, cache, vers, w, txn, com>>,
         counted' \in {counted, [counted EXCEPT ![p] = FALSE]},
         S = "CHECKED" => ~HasMagic(jrnl.slot[1])
  PROVE  PagerInv'
<1>1. ProcTypes
  BY DEF TypeInv
<1>2. st'[p] = S /\ \A q \in Proc \ {p} : st'[q] = st[q]
  BY <1>1, NotMine
<1>3. counted'[p] \in {FALSE, counted[p]} /\ \A q \in Proc \ {p} : counted'[q] = counted[q]
  BY <1>1 DEF ProcTypes
<1>4. jrnl' = jrnl
  BY DEF files
<1>5. st[p] \notin Live \cup {"UNDO", "ERROR"} /\ st'[p] \notin Live \cup {"WRITER_LOCKED", "UNDO", "READER", "PLAYBACK"}
  BY <1>2, PlainStates
<1>6. ProcInv(p)'
  BY <1>2, <1>3, <1>4, <1>5, PlainCache
<1> QED BY <1>2, <1>3, <1>6, SameFiles

LEMMA SharedLockKeeps ==
  ASSUME TypeInv, PagerInv, NEW p \in Proc, SharedLock(p)
  PROVE  PagerInv'
BY LightKeeps DEF SharedLock, Goto, Sharing

LEMMA JournalExistsKeeps ==
  ASSUME TypeInv, PagerInv, NEW p \in Proc, JournalExists(p)
  PROVE  PagerInv'
<1> DEFINE S == IF jrnl.here THEN "EXISTS" ELSE "CHECKED"
<1>1. S = "CHECKED" => ~HasMagic(jrnl.slot[1])
  BY GoneCold DEF TypeInv, PagerInv
<1>2. S \in Sharing \ {"READER"} /\ st[p] \in Sharing
  BY DEF JournalExists, Sharing
<1>3. st' = [st EXCEPT ![p] = S] /\ UNCHANGED <<files, cache, vers, counted, w, txn, com>>
  BY DEF JournalExists, Goto
<1> HIDE DEF S
<1> QED BY <1>1, <1>2, <1>3, LightKeeps

(* RESERVED is held by a writer whose journal has no magic yet. *)
LEMMA ReservedCold ==
  ASSUME TypeInv, PagerInv, NEW p \in Proc, lock[p] >= SHARED_LOCK, CheckReservedLock(lock, p)
  PROVE  ~HasMagic(jrnl.slot[1])
<1>1. PICK q \in Proc \ {p} : ~(lock[q] < RESERVED_LOCK)
  BY StepFacts DEF CheckReservedLock, Below
<1>2. Alone(q, p) /\ Locked(q) /\ lock[q] \in 0..4 /\ lock[p] \in 0..4 /\ st[q] \in States
  BY <1>1, StepFacts DEF LockInv
<1>3. lock[q] \in {2, 3}
  BY <1>1, <1>2, Levels DEF Alone
<1>4. st[q] \in {"WRITER_LOCKED", "WRITER_CACHEMOD"}
  BY <1>2, <1>3, Levels DEF Locked, Sharing, Exclusive, Syncing, Closing, States, Writing
<1> QED BY <1>4 DEF PagerInv, ProcInv, CacheInv

LEMMA CheckReservedKeeps ==
  ASSUME TypeInv, PagerInv, NEW p \in Proc, CheckReserved(p)
  PROVE  PagerInv'
<1> DEFINE S == IF CheckReservedLock(lock, p) THEN "CHECKED" ELSE "UNRESERVED"
<1>0. st[p] = "EXISTS"
  BY DEF CheckReserved
<1>1. lock[p] >= SHARED_LOCK
  BY <1>0, StepFacts, Levels DEF Locked, Sharing
<1>2. S = "CHECKED" => ~HasMagic(jrnl.slot[1])
  BY <1>1, ReservedCold
<1>3. S \in Sharing \ {"READER"} /\ st[p] \in Sharing
  BY <1>0 DEF Sharing
<1>4. st' = [st EXCEPT ![p] = S] /\ UNCHANGED <<files, cache, vers, counted, w, txn, com>>
  BY DEF CheckReserved, Goto
<1> HIDE DEF S
<1> QED BY <1>2, <1>3, <1>4, LightKeeps

LEMMA FirstByteKeeps ==
  ASSUME TypeInv, PagerInv, NEW p \in Proc, FirstByte(p)
  PROVE  PagerInv'
<1> DEFINE S == IF jrnl.here /\ ~HasMagic(jrnl.slot[1]) THEN "CHECKED" ELSE "HOT"
<1>1. S = "CHECKED" => ~HasMagic(jrnl.slot[1])
  OBVIOUS
<1>2. S \in Sharing \ {"READER"} /\ st[p] \in Sharing
  BY DEF FirstByte, Sharing
<1>3. st' = [st EXCEPT ![p] = S] /\ UNCHANGED <<files, cache, vers, counted, w, txn, com>>
  BY DEF FirstByte, Goto
<1> HIDE DEF S
<1> QED BY <1>1, <1>2, <1>3, LightKeeps

LEMMA HotLockKeeps ==
  ASSUME TypeInv, PagerInv, NEW p \in Proc, HotLock(p)
  PROVE  PagerInv'
<1>1. /\ st[p] \in Sharing /\ UNCHANGED <<files, cache, vers, counted, w, txn, com>>
      /\ \E S \in {"HOT_EXCLUSIVE", "OPEN"} : st' = [st EXCEPT ![p] = S]
  BY DEF HotLock, Goto, Sharing
<1>2. PICK S \in {"HOT_EXCLUSIVE", "OPEN"} : st' = [st EXCEPT ![p] = S]
  BY <1>1
<1> QED BY <1>1, <1>2, LightKeeps

LEMMA UnlockKeeps ==
  ASSUME TypeInv, PagerInv, NEW p \in Proc, Unlock(p)
  PROVE  PagerInv'
<1>1. /\ st[p] \in Sharing /\ UNCHANGED <<files, cache, vers, w, txn, com>>
      /\ st' = [st EXCEPT ![p] = "OPEN"] /\ counted' = [counted EXCEPT ![p] = FALSE]
  BY DEF Unlock, Goto, Sharing
<1> QED BY <1>1, LightKeeps

LEMMA ExclusiveLockKeeps ==
  ASSUME TypeInv, PagerInv, NEW p \in Proc, ExclusiveLock(p)
  PROVE  PagerInv'
<1>1. UNCHANGED <<files, st, cache, vers, counted, w, txn, com>>
  BY DEF ExclusiveLock
<1>2. ProcInv(p)'
  BY <1>1, SameProc
<1> QED BY <1>1, <1>2, SameFiles

LEMMA IoErrorKeeps ==
  ASSUME TypeInv, PagerInv, NEW p \in Proc, IoError(p)
  PROVE  PagerInv'
<1>1. UNCHANGED <<files, cache, vers, counted, w, txn, com>> /\ st' = [st EXCEPT ![p] = "ERROR"]
  BY DEF IoError, Goto
<1>2. st'[p] = "ERROR" /\ \A q \in Proc \ {p} : st'[q] = st[q]
  BY <1>1, NotMine DEF TypeInv
<1>3. CacheInv(p)'
  BY <1>2 DEF CacheInv
<1>4. ProcInv(p)'
  BY <1>2, <1>3, PlainStates, PlainProc
<1> QED BY <1>1, <1>2, <1>4, SameFiles

LEMMA ForgetKeeps ==
  ASSUME TypeInv, PagerInv, NEW p \in Proc, Forget(p), UNCHANGED <<files, txn, com>>
  PROVE  PagerInv'
<1>1. /\ st' = [st EXCEPT ![p] = "OPEN"] /\ cache' = NoCache(p) /\ counted' = [counted EXCEPT ![p] = FALSE]
      /\ vers' = vers /\ w' = IF w.proc = p THEN NoWriter ELSE w
  BY DEF Forget, Goto
<1>2. st'[p] = "OPEN" /\ \A q \in Proc \ {p} : st'[q] = st[q]
  BY <1>1, NotMine DEF TypeInv
<1>3. /\ cache'[p][1] = None /\ ~counted'[p]
      /\ \A q \in Proc \ {p} : cache'[q] = cache[q] /\ counted'[q] = counted[q]
  BY <1>1, SectorTypes DEF NoCache, TypeInv, ProcTypes
<1>4. ProcInv(p)'
  <2>1. CacheInv(p)'
    BY <1>2, <1>3 DEF CacheInv
  <2> QED BY <1>2, <2>1, PlainStates, PlainProc
<1>5. CASE w.proc = p
  <2>1. FilesInv'
    BY DEF files, PagerInv, FilesInv
  <2>2. jrnl' = jrnl
    BY DEF files
  <2> QED BY <1>1, <1>2, <1>3, <1>4, <1>5, <2>1, <2>2, WriterStep
<1>6. CASE w.proc # p
  BY <1>1, <1>2, <1>3, <1>4, <1>6, SameFiles
<1> QED BY <1>5, <1>6

LEMMA HotRecheckKeeps ==
  ASSUME TypeInv, PagerInv, NEW p \in Proc, HotRecheck(p)
  PROVE  PagerInv'
<1>1. st[p] = "HOT_EXCLUSIVE" /\ UNCHANGED <<vers, counted, txn, com>>
  BY DEF HotRecheck
<1>2. FileTypes /\ FilesInv /\ ProcTypes
  BY DEF TypeInv, PagerInv
<1>3. CASE /\ ~jrnl.here
           /\ lock' = [lock EXCEPT ![p] = SHARED_LOCK] /\ Goto(p, "CHECKED")
           /\ UNCHANGED <<files, cache, w>>
  <2>1. "CHECKED" \in Sharing \ {"READER"} /\ st' = [st EXCEPT ![p] = "CHECKED"]
    BY <1>3 DEF Sharing, Goto
  <2>2. ~HasMagic(jrnl.slot[1])
    BY <1>2, <1>3, GoneCold
  <2> QED BY <1>1, <1>3, <2>1, <2>2, LightKeeps
<1>4. CASE /\ jrnl.here
           /\ jDisk' = jrnl.slot
           /\ w' = [NoWriter EXCEPT !.proc = p, !.todo = Playback(jrnl.slot, 0),
                                    !.off = IF HasMagic(jrnl.slot[1]) THEN 1 ELSE 0]
           /\ cache' = IF w'.todo = NoPages THEN cache ELSE NoCache(p)
           /\ Goto(p, "PLAYBACK")
           /\ UNCHANGED <<lock, db, dbLoss, jrnl, ghosts>>
  <2>1. jrnl.slot \in Slots /\ jDisk \in Slots /\ Safe(jrnl.slot, jDisk, dbLoss, com)
    BY <1>2, <1>4, JournalFields DEF FileTypes, FilesInv
  <2>2. FilesInv'
    <3>1. Safe(jrnl.slot, jrnl.slot, dbLoss, com) /\ Sound(jrnl.slot, jrnl.slot, txn)
      BY <2>1, <1>2, SafeSynced, SoundSynced DEF FilesInv
    <3> QED BY <1>1, <1>2, <1>4, <3>1 DEF FilesInv
  <2>3. st'[p] = "PLAYBACK" /\ \A q \in Proc \ {p} : st'[q] = st[q]
    BY <1>2, <1>4, NotMine DEF Goto
  <2>4. w'.todo = Playback(jrnl.slot, 0) /\ w'.off = IF HasMagic(jrnl.slot[1]) THEN 1 ELSE 0
    BY <1>4 DEF NoWriter
  <2>5. OtherInv(p)'
    <3>1. Honest(w'.todo, com) /\ \A pg \in Page \ DOMAIN w'.todo : dbLoss[pg] = {com[pg]}
      BY <2>1, <2>4, SafeUse
    <3>2. \A pg \in Page \ DOMAIN w'.todo : db[pg] = com[pg]
      BY <1>2, <3>1 DEF FilesInv
    <3>3. w'.off = 0 <=> ~HasMagic(jrnl.slot[1])
      BY <2>4
    <3>4. jrnl' = jrnl /\ db' = db /\ com' = com /\ jDisk' = jrnl.slot /\ jrnl.here
      BY <1>1, <1>4
    <3> QED BY <2>3, <3>1, <3>2, <3>3, <3>4 DEF OtherInv
  <2>6. cache'[p] = cache[p] \/ cache'[p][1] = None
    BY <1>2, <1>4, SectorTypes DEF NoCache, ProcTypes
  <2>7. \A q \in Proc \ {p} : cache'[q] = cache[q]
    BY <1>2, <1>4 DEF NoCache, ProcTypes
  <2>8. CacheInv(p)'
    <3>1. CacheInv(p)
      BY DEF PagerInv, ProcInv
    <3> QED BY <1>1, <2>3, <2>6, <3>1, PlainStates DEF CacheInv
  <2>9. ProcInv(p)'
    BY <2>3, <2>5, <2>8, PlainStates DEF ProcInv, LiveInv, BuildInv, CloseInv, Live
  <2>10. w.proc = None
    <3>1. lock[p] = EXCLUSIVE_LOCK /\ w.proc # p
      BY <1>1, StepFacts, Levels DEF Locked, Exclusive
    <3>2. \A q \in Proc \ {p} : lock[q] = 0
      BY <3>1, StepFacts, Levels DEF Granted
    <3>3. \A q \in Proc \ {p} : Locked(q)
      BY StepFacts DEF LockInv
    <3>4. \A q \in Proc : w.proc # q
      BY <3>1, <3>2, <3>3, Levels DEF Locked
    <3> QED BY <3>4, StepFacts, JournalFields
  <2>11. jrnl' = jrnl
    BY <1>4
  <2> QED BY <1>1, <2>2, <2>3, <2>7, <2>9, <2>10, <2>11, WriterStep
<1> QED BY <1>3, <1>4 DEF HotRecheck

LEMMA ValidateKeeps ==
  ASSUME TypeInv, PagerInv, NEW p \in Proc, Validate(p)
  PROVE  PagerInv'
<1> DEFINE fresh == [pg \in Page |-> IF pg = 1 THEN db[1] ELSE None]
           keep == cache[p][1] # None /\ vers[p] = db[1]
           c == IF keep THEN cache[p] ELSE fresh
<1>1. /\ st[p] = "CHECKED" /\ UNCHANGED <<files, lock, counted, w, txn, com>>
      /\ st' = [st EXCEPT ![p] = "READER"] /\ vers' = [vers EXCEPT ![p] = db[1]]
      /\ cache' = [cache EXCEPT ![p] = c]
  BY DEF Validate, Goto
<1>2. ProcTypes /\ FileTypes /\ FilesInv /\ CacheInv(p) /\ 1 \in Page
  BY SectorTypes DEF TypeInv, PagerInv, ProcInv
<1>3. ~HasMagic(jrnl.slot[1]) /\ ~counted[p]
  BY <1>1, <1>2, PlainStates DEF CacheInv, Sharing
<1>4. \A pg \in Page : db[pg] = com[pg]
  BY <1>2, <1>3, ColdFacts
<1>5. \A pg \in Page : c[pg] \in {None, com[pg]}
  <2>1. CASE keep
    <3>1. st[p] \notin Live \cup {"ERROR"}
      BY <1>1, PlainStates DEF Sharing
    <3>2. \A pg \in Page : cache[p][pg] \in {None, com[pg]}
      BY <1>2, <1>4, <2>1, <3>1 DEF CacheInv
    <3> QED BY <2>1, <3>2
  <2>2. CASE ~keep
    <3>1. \A pg \in Page : fresh[pg] \in {None, com[pg]}
      BY <1>2, <1>4
    <3> QED BY <2>2, <3>1
  <2> QED BY <2>1, <2>2
<1> HIDE DEF c, keep, fresh
<1>6. /\ cache'[p] = c /\ vers'[p] = com[1]
      /\ \A q \in Proc \ {p} : cache'[q] = cache[q] /\ vers'[q] = vers[q]
  BY <1>1, <1>2, <1>4 DEF ProcTypes
<1>7. st'[p] = "READER" /\ \A q \in Proc \ {p} : st'[q] = st[q]
  BY <1>1, <1>2, NotMine
<1>8. com[1] \in Nat /\ jrnl' = jrnl /\ com' = com /\ counted' = counted
  BY <1>1, <1>2 DEF FileTypes, files
<1>9. CacheInv(p)'
  BY <1>3, <1>5, <1>6, <1>7, <1>8 DEF CacheInv
<1>10. ProcInv(p)'
  BY <1>7, <1>9, PlainStates, PlainProc
<1> QED BY <1>1, <1>6, <1>7, <1>10, SameFiles

LEMMA ReadKeeps ==
  ASSUME TypeInv, PagerInv, NEW p \in Proc, NEW pg \in Page, Read(p, pg)
  PROVE  PagerInv'
<1>1. /\ st[p] \in Writing \cup {"READER"} /\ cache[p][pg] = None
      /\ cache' = [cache EXCEPT ![p][pg] = db[pg]]
      /\ UNCHANGED <<files, lock, st, vers, counted, w, txn, com>>
  BY DEF Read
<1>2. ProcTypes /\ FileTypes /\ FilesInv /\ ProcInv(p) /\ 1 \in Page /\ w.inJournal \subseteq Page
  BY SectorTypes, JournalFields DEF TypeInv, PagerInv
<1>3. /\ cache'[p][pg] = db[pg] /\ \A r \in Page \ {pg} : cache'[p][r] = cache[p][r]
      /\ \A q \in Proc \ {p} : cache'[q] = cache[q]
  BY <1>1, <1>2 DEF ProcTypes
<1>4. /\ db' = db /\ dbLoss' = dbLoss /\ jrnl' = jrnl /\ jDisk' = jDisk /\ ghosts' = ghosts
      /\ w' = w /\ txn' = txn /\ com' = com /\ st' = st /\ counted' = counted /\ vers' = vers
  BY <1>1 DEF files
<1>5. pg # 1
  <2>1. st[p] \in Loaded
    BY <1>1 DEF Loaded, Live, Building, Writing
  <2> QED BY <1>1, <2>1, StepFacts, NoneFact DEF Present
<1>6. BuildInv(p)' /\ CloseInv(p)' /\ OtherInv(p)'
  <2>1. BuildInv(p)'
    BY <1>2, <1>4 DEF ProcInv, BuildInv, Synced
  <2>2. CloseInv(p)'
    BY <1>2, <1>4 DEF ProcInv, CloseInv
  <2>3. OtherInv(p)'
    BY <1>2, <1>4 DEF ProcInv, OtherInv
  <2> QED BY <2>1, <2>2, <2>3
<1>7. CASE st[p] \in Live
  <2>1. pg \notin w.inJournal
    BY <1>1, <1>7, WritingFacts, NoneFact
  <2>2. dbLoss[pg] = {com[pg]}
    BY <1>2, <1>7, <2>1 DEF ProcInv, LiveInv, Synced
  <2>3. db[pg] = com[pg]
    BY <1>2, <2>2 DEF FilesInv
  <2>4. LiveInv(p)
    BY <1>2 DEF ProcInv
  <2>5. \A r \in Page \ w.inJournal : cache'[p][r] \in {None, com[r]}
    BY <1>3, <1>7, <2>3, <2>4 DEF LiveInv
  <2>6. \A r \in w.inJournal \ w.dirty : db[r] = cache'[p][r]
    BY <1>2, <1>3, <1>7, <2>1, <2>4 DEF LiveInv
  <2>7. LiveInv(p)'
    BY <1>2, <1>3, <1>4, <1>5, <1>7, <2>4, <2>5, <2>6 DEF LiveInv, Synced
  <2>8. CacheInv(p)'
    <3>1. st[p] \notin {"CHECKED", "READER", "WRITER_LOCKED", "UNDO"}
      BY <1>7, PlainStates DEF Sharing
    <3> QED BY <1>2, <1>4, <1>7, <3>1 DEF ProcInv, CacheInv
  <2>9. ProcInv(p)'
    BY <1>6, <2>7, <2>8 DEF ProcInv
  <2> QED BY <1>1, <1>3, <2>9, SameFiles
<1>8. CASE st[p] \notin Live
  <2>1. st[p] \in {"READER", "WRITER_LOCKED"}
    BY <1>1, <1>8 DEF Writing, Live, Building
  <2>2. CacheInv(p) /\ ~HasMagic(jrnl.slot[1])
    BY <1>2, <2>1 DEF ProcInv, CacheInv
  <2>3. db[pg] = com[pg]
    BY <1>2, <2>2, ColdFacts
  <2>4. CacheInv(p)'
    BY <1>2, <1>3, <1>4, <1>5, <2>2, <2>3 DEF CacheInv
  <2>5. ProcInv(p)'
    BY <1>4, <1>6, <1>8, <2>4 DEF ProcInv, LiveInv
  <2> QED BY <1>1, <1>3, <2>5, SameFiles
<1> QED BY <1>7, <1>8

LEMMA BeginKeeps ==
  ASSUME TypeInv, PagerInv, NEW p \in Proc, Begin(p)
  PROVE  PagerInv'
<1>1. /\ st[p] = "READER" /\ txn' = txn + 1 /\ w' = [NoWriter EXCEPT !.proc = p]
      /\ UNCHANGED <<files, cache, vers, counted, com>> /\ st' = [st EXCEPT ![p] = "WRITER_LOCKED"]
  BY DEF Begin, Goto
<1>2. ProcTypes /\ FileTypes /\ FilesInv /\ CacheInv(p)
  BY DEF TypeInv, PagerInv, ProcInv
<1>3. st'[p] = "WRITER_LOCKED" /\ \A q \in Proc \ {p} : st'[q] = st[q]
  BY <1>1, <1>2, NotMine
<1>4. /\ db' = db /\ dbLoss' = dbLoss /\ jrnl' = jrnl /\ jDisk' = jDisk /\ ghosts' = ghosts
      /\ com' = com /\ counted' = counted /\ vers' = vers /\ cache' = cache
  BY <1>1 DEF files
<1>5. FilesInv'
  <2>1. jrnl.slot \in Slots /\ jDisk \in Slots /\ txn \in Nat
    BY <1>2, JournalFields DEF FileTypes
  <2>2. Sound(jrnl.slot, jDisk, txn + 1)
    BY <1>2, <2>1, SoundLater DEF FilesInv
  <2>3. \A g \in ghosts : Sound(g.slot, g.disk, txn + 1)
    <3>1. \A g \in ghosts : g.slot \in Slots /\ g.disk \in Slots
      BY <1>2 DEF FileTypes, Ghosts
    <3> QED BY <1>2, <2>1, <3>1, SoundLater DEF FilesInv
  <2> QED BY <1>1, <1>2, <1>4, <2>2, <2>3 DEF FilesInv
<1>6. OtherInv(p)'
  <2>1. Older(jrnl.slot, txn) /\ Older(jDisk, txn) /\ (txn + 1) - 1 = txn
    BY <1>2 DEF FilesInv, Sound, FileTypes
  <2> QED BY <1>1, <1>3, <1>4, <2>1 DEF OtherInv
<1>7. CacheInv(p)'
  BY <1>1, <1>2, <1>3, <1>4, PlainStates DEF CacheInv, Sharing
<1>8. ProcInv(p)'
  BY <1>3, <1>6, <1>7, PlainStates DEF ProcInv, LiveInv, BuildInv, CloseInv, Live
<1>9. w.proc = None
  <2>1. \A q \in Proc \ {p} : lock[q] < 2 /\ lock[q] \in 0..4
    BY StepFacts, Levels DEF Begin, GetsReserved, Below
  <2>2. \A q \in Proc \ {p} : Locked(q)
    BY StepFacts DEF LockInv
  <2>3. w.proc # p
    BY <1>1, StepFacts, Levels DEF Locked, Sharing
  <2>4. \A q \in Proc : w.proc # q
    BY <2>1, <2>2, <2>3, Levels DEF Locked
  <2> QED BY <2>4, StepFacts, JournalFields
<1> QED BY <1>3, <1>4, <1>5, <1>8, <1>9, WriterStep

LEMMA EndUnusedKeeps ==
  ASSUME TypeInv, PagerInv, NEW p \in Proc, EndUnused(p)
  PROVE  PagerInv'
<1>1. /\ st[p] = "WRITER_LOCKED" /\ st' = [st EXCEPT ![p] = "READER"]
      /\ counted' = [counted EXCEPT ![p] = FALSE] /\ w' = NoWriter
      /\ UNCHANGED <<files, cache, vers, txn, com>>
  BY DEF EndUnused, EndTransaction, Goto
<1>2. ProcTypes /\ FilesInv /\ CacheInv(p) /\ w.proc = p
  BY <1>1, Owner DEF TypeInv, PagerInv, ProcInv
<1>3. st'[p] = "READER" /\ \A q \in Proc \ {p} : st'[q] = st[q]
  BY <1>1, <1>2, NotMine
<1>4. ~counted'[p] /\ \A q \in Proc \ {p} : counted'[q] = counted[q]
  BY <1>1, <1>2 DEF ProcTypes
<1>5. FilesInv' /\ jrnl' = jrnl
  BY <1>1, <1>2 DEF files, FilesInv
<1>6. CacheInv(p)'
  BY <1>1, <1>2, <1>3, <1>4, <1>5, PlainStates DEF CacheInv
<1>7. ProcInv(p)'
  BY <1>3, <1>6, PlainStates, PlainProc
<1> QED BY <1>1, <1>2, <1>3, <1>4, <1>5, <1>7, WriterStep

(* The journal under pager_write: one more record, or the first. *)
LEMMA SlotNonce ==
  ASSUME NEW s \in Slots
  PROVE  \A i \in 1..MaxSlot : s[i] \in Sector /\ s[i].nonce \in Nat \X Nat /\ s[i].nonce[1] \in Nat
<1>1. \A i \in 1..MaxSlot : s[i] \in Sector
  BY DEF Slots
<1>2. \A i \in 1..MaxSlot : s[i].nonce \in Nat \X Nat
  BY <1>1, SectorType
<1> QED BY <1>1, <1>2

LEMMA RecordFields ==
  ASSUME NEW pg \in Page, NEW v, NEW c
  PROVE  /\ Record(pg, v, c).pg = pg /\ Record(pg, v, c).v = v /\ Record(pg, v, c).nonce = c
         /\ ~HasMagic(Record(pg, v, c))
<1>1. pg # 0
  BY SectorTypes
<1> QED BY <1>1 DEF Record, HasMagic

LEMMA HeaderFields ==
  ASSUME NEW n, NEW c
  PROVE  Header(n, c).pg = 0 /\ Header(n, c).n = n /\ Header(n, c).nonce = c /\ ~HasMagic(Header(0, c))
BY DEF Header, HasMagic

LEMMA BeforeSame ==
  ASSUME NEW s, NEW m, NEW h \in 1..MaxSlot, NEW c, NEW done,
         Before(s, h, c, done), \A i \in 1..(h - 1) : s[i] = m[i]
  PROVE  Before(m, h, c, done)
<1>1. 0 \notin 1..(h - 1)
  OBVIOUS
<1>2. /\ Reads(m, 0)[h - 1].on /\ Reads(m, 0)[h - 1].left = 0
      /\ DOMAIN Reads(m, 0)[h - 1].undo = done /\ Honest(Reads(m, 0)[h - 1].undo, c)
  BY <1>1, BeforePrefix
<1> QED BY <1>2 DEF Before

Appended(m, s, o, h, pg, c) == m = [s EXCEPT ![o] = Record(pg, c[pg], s[h].nonce)]
Opened(m, s, t, pg, c) == m = [s EXCEPT ![1] = Header(0, <<t, 0>>), ![2] = Record(pg, c[pg], <<t, 0>>)]

(* The journal m with that record, or with that header and record. *)
Longer(m, s, d, h, o, t, c, done, need, pg) ==
  /\ Before(m, h, c, done) /\ Segment(m, h, o + 1, t, c, need \cup {pg}) /\ OnDisk(m, d, h, t)
  /\ m[h] = s[h] /\ m[1] = s[1] /\ ~HasMagic(m[o]) /\ m[o].nonce[1] = t
  /\ \A i \in 1..MaxSlot \ {o} : m[i] = s[i]

Started(m, s, d, t, c, pg) ==
  /\ Before(m, 1, c, {}) /\ Segment(m, 1, 3, t, c, {pg}) /\ OnDisk(m, d, 1, t)
  /\ m[1].n = 0 /\ ~HasMagic(m[1]) /\ ~HasMagic(m[2])
  /\ m[1].nonce[1] = t /\ m[2].nonce[1] = t
  /\ \A i \in 1..MaxSlot \ {1, 2} : m[i] = s[i]

LEMMA Append ==
  ASSUME NEW s \in Slots, NEW d \in Slots, NEW h \in Nat, NEW o \in 1..MaxSlot, NEW t \in Nat, NEW c \in [Page -> Nat], NEW done,
         NEW need \in SUBSET Page, NEW pg \in Page, NEW m,
         Before(s, h, c, done), Segment(s, h, o, t, c, need), OnDisk(s, d, h, t),
         Appended(m, s, o, h, pg, c)
  PROVE  Longer(m, s, d, h, o, t, c, done, need, pg)
<1>0. /\ h \in 1..MaxSlot /\ o \in (h + 1)..(MaxSlot + 1) /\ MaxSlot \in Nat
      /\ h \in Nat /\ o \in Nat /\ o \in 1..MaxSlot /\ h # o /\ 1 # o /\ 1 \in 1..MaxSlot
  BY PagerAssumption DEF Segment
<1>1. m[o] = Record(pg, c[pg], s[h].nonce) /\ \A i \in 1..MaxSlot \ {o} : m[i] = s[i]
  BY <1>0 DEF Slots, Appended
<1>2. m[o].pg = pg /\ m[o].v = c[pg] /\ m[o].nonce = s[h].nonce /\ ~HasMagic(m[o])
  BY <1>1, RecordFields
<1>3. m[h] = s[h] /\ m[1] = s[1]
  BY <1>0, <1>1
<1>4. \A i \in 1..(h - 1) : s[i] = m[i]
  BY <1>0, <1>1
<1>5. Before(m, h, c, done)
  BY <1>0, <1>4, BeforeSame
<1>6. /\ s[h].pg = 0 /\ s[h].nonce[1] = t
      /\ \A i \in (h + 1)..(o - 1) : s[i].pg \in need /\ s[i].v = c[s[i].pg] /\ s[i].nonce = s[h].nonce
      /\ \A q \in need : \E i \in (h + 1)..(o - 1) : s[i].pg = q
      /\ \A i \in o..MaxSlot : s[i].nonce[1] < t
  BY DEF Segment
<1>7. Segment(m, h, o + 1, t, c, need \cup {pg})
  <2>1. \A i \in (h + 1)..(o - 1) : m[i] = s[i]
    BY <1>0, <1>1
  <2>2. ASSUME NEW i \in (h + 1)..((o + 1) - 1)
        PROVE  m[i].pg \in need \cup {pg} /\ m[i].v = c[m[i].pg] /\ m[i].nonce = m[h].nonce
    <3>1. i \in (h + 1)..(o - 1) \/ i = o
      BY <1>0
    <3> QED BY <3>1, <2>1, <1>2, <1>3, <1>6
  <2>3. ASSUME NEW q \in need \cup {pg}
        PROVE  \E i \in (h + 1)..((o + 1) - 1) : m[i].pg = q
    <3>1. CASE q \in need
      <4>1. PICK i \in (h + 1)..(o - 1) : s[i].pg = q
        BY <3>1, <1>6
      <4> QED BY <1>0, <2>1, <4>1
    <3>2. CASE q = pg
      BY <1>0, <1>2, <3>2
    <3> QED BY <3>1, <3>2
  <2>4. \A i \in (o + 1)..MaxSlot : m[i].nonce[1] < t
    BY <1>0, <1>1, <1>6
  <2>5. h \in 1..MaxSlot /\ o + 1 \in (h + 1)..(MaxSlot + 1)
    BY <1>0
  <2> QED BY <1>3, <1>6, <2>2, <2>3, <2>4, <2>5 DEF Segment
<1>8. OnDisk(m, d, h, t)
  <2>1. \A i \in 1..(h - 1) : d[i] = m[i]
    BY <1>4 DEF OnDisk
  <2>2. ASSUME NEW i \in (h + 1)..MaxSlot
        PROVE  d[i] = m[i] \/ d[i].nonce[1] < t
    <3>1. d[i] = s[i] \/ d[i].nonce[1] < t
      BY DEF OnDisk
    <3>2. i = o => s[i].nonce[1] < t
      BY <1>0, <1>6
    <3>3. i # o => m[i] = s[i]
      BY <1>0, <1>1
    <3> QED BY <3>1, <3>2, <3>3
  <2> QED BY <2>1, <2>2 DEF OnDisk
<1>9. m[o].nonce[1] = t
  BY <1>2, <1>6
<1> QED BY <1>1, <1>2, <1>3, <1>5, <1>7, <1>8, <1>9 DEF Longer

LEMMA Open ==
  ASSUME NEW s \in Slots, NEW d \in Slots, NEW t \in Nat, NEW c \in [Page -> Nat], NEW pg \in Page, NEW m,
         2 <= MaxSlot, Older(s, t - 1), Older(d, t - 1), ~HasMagic(d[1]),
         Opened(m, s, t, pg, c)
  PROVE  Started(m, s, d, t, c, pg)
<1>0. MaxSlot \in Nat /\ 1 \in 1..MaxSlot /\ 2 \in 1..MaxSlot
  BY PagerAssumption
<1> DEFINE hd == Header(0, <<t, 0>>)
           rc == Record(pg, c[pg], <<t, 0>>)
<1>1. hd.pg = 0 /\ hd.n = 0 /\ hd.nonce = <<t, 0>> /\ ~HasMagic(hd)
  BY HeaderFields
<1>2. rc.pg = pg /\ rc.v = c[pg] /\ rc.nonce = <<t, 0>> /\ ~HasMagic(rc)
  BY RecordFields
<1>3. m = [s EXCEPT ![1] = hd, ![2] = rc] /\ <<t, 0>>[1] = t
  BY DEF Opened
<1> HIDE DEF hd, rc
<1>4. m[1] = hd /\ m[2] = rc /\ \A i \in 1..MaxSlot \ {1, 2} : m[i] = s[i]
  BY <1>0, <1>3 DEF Slots
<1>5. Before(m, 1, c, {})
  BY FirstHeader
<1>6. \A i \in 1..MaxSlot : s[i].nonce[1] < t /\ d[i].nonce[1] < t
  <2>1. \A i \in 1..MaxSlot : s[i].nonce[1] \in Nat /\ d[i].nonce[1] \in Nat
    BY SlotNonce
  <2> QED BY <2>1 DEF Older
<1>7. Segment(m, 1, 3, t, c, {pg})
  <2>1. ASSUME NEW i \in (1 + 1)..(3 - 1)
        PROVE  m[i].pg \in {pg} /\ m[i].v = c[m[i].pg] /\ m[i].nonce = m[1].nonce
    <3>1. i = 2
      OBVIOUS
    <3> QED BY <3>1, <1>1, <1>2, <1>4
  <2>2. \A q \in {pg} : \E i \in (1 + 1)..(3 - 1) : m[i].pg = q
    BY <1>2, <1>4
  <2>3. \A i \in 3..MaxSlot : m[i].nonce[1] < t
    <3>1. \A i \in 3..MaxSlot : i \in 1..MaxSlot \ {1, 2} /\ i \in 1..MaxSlot
      BY <1>0
    <3> QED BY <3>1, <1>4, <1>6
  <2>4. 1 \in 1..MaxSlot /\ 3 \in (1 + 1)..(MaxSlot + 1)
    BY <1>0
  <2>5. m[1].pg = 0 /\ m[1].nonce[1] = t
    BY <1>1, <1>3, <1>4
  <2> QED BY <2>1, <2>2, <2>3, <2>4, <2>5 DEF Segment
<1>8. OnDisk(m, d, 1, t)
  BY <1>0, <1>6 DEF OnDisk
<1>9. m[1].nonce[1] = t /\ m[2].nonce[1] = t /\ m[1].n = 0
  BY <1>1, <1>2, <1>3, <1>4
<1> QED BY <1>1, <1>2, <1>4, <1>5, <1>7, <1>8, <1>9 DEF Started

(* What is left to show when a transaction goes on. *)
LEMMA BuildProc ==
  ASSUME NEW p \in Proc, st'[p] \in Building, LiveInv(p)', BuildInv(p)',
         st'[p] = "WRITER_CACHEMOD" => ~HasMagic(jrnl'.slot[1])
  PROVE  ProcInv(p)'
<1>1. st'[p] \notin Closing /\ st'[p] \in Live
      /\ st'[p] \notin {"WRITER_LOCKED", "UNDO", "PLAYBACK", "CHECKED", "READER"}
  BY DEF Building, Syncing, Closing, Live
<1>2. CloseInv(p)' /\ OtherInv(p)' /\ CacheInv(p)'
  BY <1>1 DEF CloseInv, OtherInv, CacheInv
<1> QED BY <1>2 DEF ProcInv

LEMMA LiveFacts ==
  ASSUME PagerInv, NEW p \in Proc, st[p] \in Live
  PROVE  /\ jrnl.here /\ (w.hdr > 1 => ghosts = {} /\ jrnl.durable)
         /\ \A pg \in Page \ Synced : dbLoss[pg] = {com[pg]} /\ db[pg] = com[pg]
         /\ \A pg \in w.inJournal \ w.dirty : db[pg] = cache[p][pg]
         /\ \A pg \in Page \ w.inJournal : cache[p][pg] \in {None, com[pg]}
         /\ counted[p] <=> 1 \in w.inJournal
         /\ 1 \notin w.inJournal => vers[p] = com[1]
         /\ 1 \in w.inJournal => /\ cache[p][1] = com[1] + 1
                                 /\ vers[p] = IF 1 \in w.dirty THEN com[1] ELSE com[1] + 1
<1>1. FilesInv /\ LiveInv(p)
  BY DEF PagerInv, ProcInv
<1>2. \A pg \in Page \ Synced : dbLoss[pg] = {com[pg]}
  BY <1>1 DEF LiveInv
<1>3. \A pg \in Page \ Synced : db[pg] = com[pg]
  BY <1>1, <1>2 DEF FilesInv
<1> QED BY <1>1, <1>2, <1>3 DEF LiveInv

LEMMA BuildFacts ==
  ASSUME PagerInv, NEW p \in Proc, st[p] \in Building
  PROVE  /\ Before(jrnl.slot, w.hdr, com, Synced)
         /\ Segment(jrnl.slot, w.hdr, w.off, txn, com, w.needSync)
         /\ OnDisk(jrnl.slot, jDisk, w.hdr, txn)
         /\ jrnl.slot[w.hdr].n = IF st[p] = "JOURNAL_SYNC" THEN w.off - w.hdr - 1 ELSE 0
         /\ st[p] = "WRITER_CACHEMOD" => w.hdr = 1 /\ w.needSync # {}
         /\ st[p] = "WRITER_DBMOD" => w.hdr > 1
         /\ st[p] \in Syncing => /\ Ended(jrnl.slot, jDisk, w.off)
                                 /\ IF w.fin THEN counted[p] ELSE w.needSync # {}
         /\ "PERSIST" \notin Modes =>
              \A i \in (w.hdr + 1)..MaxSlot : ~HasMagic(jrnl.slot[i]) /\ ~HasMagic(jDisk[i])
BY DEF PagerInv, ProcInv, BuildInv

LEMMA DirtyKnownKeeps ==
  ASSUME TypeInv, PagerInv, NEW p \in Proc, NEW pg \in Page, NEW v, st[p] \in Writing,
         DirtyKnown(p, pg), cache' = [cache EXCEPT ![p][pg] = v], vers' = vers, txn' = txn, com' = com,
         pg # 1, counted' = counted
  PROVE  PagerInv'
<1>1. /\ st[p] # "WRITER_LOCKED" /\ pg \in w.inJournal /\ st' = st
      /\ w' = [w EXCEPT !.dirty = @ \cup {pg}] /\ UNCHANGED files
  BY DEF DirtyKnown
<1>2. st[p] \in Live /\ st[p] \in Building /\ st[p] \notin Syncing
  BY <1>1 DEF Writing, Live, Building, Syncing
<1>3. w.proc = p /\ w \in Writers /\ ProcTypes /\ FilesInv /\ 1 \in Page /\ w.inJournal \subseteq Page
  BY <1>2, WritingFacts, StepFacts, JournalFields, SectorTypes DEF FileTypes, PagerInv
<1>4. /\ w'.proc = p /\ w'.off = w.off /\ w'.hdr = w.hdr /\ w'.inJournal = w.inJournal
      /\ w'.needSync = w.needSync /\ w'.fin = w.fin /\ w'.dirty = w.dirty \cup {pg}
  BY <1>1, <1>3 DEF Writers
<1>5. /\ db' = db /\ dbLoss' = dbLoss /\ jrnl' = jrnl /\ jDisk' = jDisk /\ ghosts' = ghosts
      /\ txn' = txn /\ com' = com /\ st' = st /\ counted' = counted /\ vers' = vers
  BY <1>1 DEF files
<1>6. /\ \A r \in Page \ {pg} : cache'[p][r] = cache[p][r]
      /\ \A q \in Proc \ {p} : cache'[q] = cache[q]
  BY <1>3 DEF ProcTypes
<1>7. Synced' = Synced
  BY <1>4 DEF Synced
<1>8. LiveInv(p)'
  <2>1. \A r \in w'.inJournal \ w'.dirty : db[r] = cache'[p][r]
    BY <1>2, <1>3, <1>4, <1>6, LiveFacts
  <2>2. \A r \in Page \ w.inJournal : cache'[p][r] \in {None, com[r]}
    BY <1>1, <1>2, <1>6, LiveFacts
  <2>3. 1 \in w'.dirty <=> 1 \in w.dirty
    BY <1>4
  <2>4. cache'[p][1] = cache[p][1]
    BY <1>3, <1>6
  <2> QED BY <1>2, <1>4, <1>5, <1>7, <2>1, <2>2, <2>3, <2>4, LiveFacts DEF LiveInv
<1>9. BuildInv(p)'
  BY <1>2, <1>4, <1>5, <1>7, BuildFacts DEF BuildInv
<1>10. ProcInv(p)'
  <2>1. st[p] = "WRITER_CACHEMOD" => ~HasMagic(jrnl.slot[1])
    BY DEF PagerInv, ProcInv, CacheInv
  <2> QED BY <1>2, <1>5, <1>8, <1>9, <2>1, BuildProc
<1>11. FilesInv'
  BY <1>3, <1>5 DEF FilesInv
<1> QED BY <1>3, <1>5, <1>6, <1>10, <1>11, WriterStep

LEMMA AppendHere ==
  ASSUME FileTypes, PagerInv, NEW p \in Proc, NEW pg \in Page, NEW m, st[p] \in Building,
         w.off \in 1..MaxSlot, Appended(m, jrnl.slot, w.off, w.hdr, pg, com)
  PROVE  /\ Before(m, w.hdr, com, Synced) /\ Segment(m, w.hdr, w.off + 1, txn, com, w.needSync \cup {pg})
         /\ OnDisk(m, jDisk, w.hdr, txn) /\ m[w.hdr] = jrnl.slot[w.hdr] /\ m[1] = jrnl.slot[1]
         /\ ~HasMagic(m[w.off]) /\ m[w.off].nonce[1] = txn
         /\ \A i \in 1..MaxSlot \ {w.off} : m[i] = jrnl.slot[i]
<1>1. /\ Before(jrnl.slot, w.hdr, com, Synced) /\ OnDisk(jrnl.slot, jDisk, w.hdr, txn)
      /\ Segment(jrnl.slot, w.hdr, w.off, txn, com, w.needSync)
  BY BuildFacts
<1>2. /\ jrnl.slot \in Slots /\ jDisk \in Slots /\ txn \in Nat /\ com \in [Page -> Nat]
      /\ w.needSync \in SUBSET Page /\ w.hdr \in Nat
  BY JournalFields DEF FileTypes
<1>3. Longer(m, jrnl.slot, jDisk, w.hdr, w.off, txn, com, Synced, w.needSync, pg)
  BY <1>1, <1>2, Append
<1> QED BY <1>3 DEF Longer

LEMMA DirtyMoreKeeps ==
  ASSUME TypeInv, TypeInv', PagerInv, NEW p \in Proc, NEW pg \in Page, NEW v, st[p] \in Writing,
         DirtyMore(p, pg), cache[p][pg] \in Nat,
         cache' = [cache EXCEPT ![p][pg] = v], vers' = vers, txn' = txn, com' = com,
         \/ pg # 1 /\ counted' = counted
         \/ pg = 1 /\ counted' = [counted EXCEPT ![p] = TRUE] /\ v = vers[p] + 1
  PROVE  PagerInv'
<1> DEFINE rec == Record(pg, cache[p][pg], jrnl.slot[w.hdr].nonce)
           sl == [jrnl.slot EXCEPT ![w.off] = rec]
<1>1. /\ st[p] # "WRITER_LOCKED" /\ pg \notin w.inJournal /\ w.off <= MaxSlot /\ st' = st
      /\ jrnl' = [here |-> jrnl.here, durable |-> jrnl.durable, slot |-> sl]
      /\ w' = WriterOf(p, w.off + 1, w.hdr, w.inJournal \cup {pg}, w.needSync \cup {pg},
                       w.dirty \cup {pg}, w.todo, w.fin)
      /\ UNCHANGED <<db, dbLoss, jDisk, ghosts>>
  BY DEF DirtyMore
<1>2. st[p] \in Live /\ st[p] \in Building /\ st[p] \notin Syncing /\ st[p] # "JOURNAL_SYNC"
  BY <1>1 DEF Writing, Live, Building, Syncing
<1>3. /\ w.proc = p /\ ProcTypes /\ FilesInv /\ 1 \in Page /\ w.inJournal \subseteq Page
      /\ jrnl.slot \in Slots /\ jDisk \in Slots /\ txn \in Nat /\ com \in [Page -> Nat]
      /\ w.needSync \in SUBSET Page /\ w.needSync \subseteq w.inJournal /\ w.dirty \subseteq w.inJournal
      /\ w.hdr \in 1..MaxSlot /\ w.off \in (w.hdr + 1)..(MaxSlot + 1) /\ MaxSlot \in Nat
  BY <1>2, WritingFacts, StepFacts, JournalFields, SectorTypes DEF FileTypes, PagerInv
<1>4. /\ w'.proc = p /\ w'.off = w.off + 1 /\ w'.hdr = w.hdr /\ w'.fin = w.fin
      /\ w'.inJournal = w.inJournal \cup {pg} /\ w'.needSync = w.needSync \cup {pg}
      /\ w'.dirty = w.dirty \cup {pg}
  BY <1>1 DEF WriterOf
<1>5. cache[p][pg] = com[pg]
  BY <1>1, <1>2, LiveFacts, NoneFact
<1>6. /\ Before(sl, w.hdr, com, Synced) /\ Segment(sl, w.hdr, w.off + 1, txn, com, w.needSync \cup {pg})
      /\ OnDisk(sl, jDisk, w.hdr, txn) /\ sl[w.hdr] = jrnl.slot[w.hdr] /\ sl[1] = jrnl.slot[1]
      /\ ~HasMagic(sl[w.off]) /\ sl[w.off].nonce[1] = txn
      /\ \A i \in 1..MaxSlot \ {w.off} : sl[i] = jrnl.slot[i]
  <2>1. Appended(sl, jrnl.slot, w.off, w.hdr, pg, com)
    BY <1>5 DEF Appended
  <2>2. FileTypes /\ w.off \in 1..MaxSlot
    BY <1>1, <1>3, StepFacts
  <2> HIDE DEF sl, rec
  <2> QED BY <1>2, <2>1, <2>2, AppendHere
<1>7. jrnl'.slot = sl /\ jrnl'.here = jrnl.here /\ jrnl'.durable = jrnl.durable /\ sl \in Slots
  <2> HIDE DEF sl
  <2>1. jrnl'.slot = sl /\ jrnl'.here = jrnl.here /\ jrnl'.durable = jrnl.durable
    BY <1>1
  <2>2. jrnl' \in Journals
    BY DEF TypeInv, FileTypes
  <2> QED BY <2>1, <2>2 DEF Journals
<1> HIDE DEF sl, rec
<1>8. Synced' = Synced
  BY <1>1, <1>4 DEF Synced
<1>9. /\ cache'[p][pg] = v /\ \A q \in Page \ {pg} : cache'[p][q] = cache[p][q]
      /\ \A q \in Proc \ {p} : cache'[q] = cache[q] /\ counted'[q] = counted[q]
  BY <1>3 DEF ProcTypes
<1>10. LiveInv(p)'
  <2>1. \A q \in w'.inJournal \ w'.dirty : db[q] = cache'[p][q]
    BY <1>2, <1>3, <1>4, <1>9, LiveFacts
  <2>2. \A q \in Page \ w'.inJournal : cache'[p][q] \in {None, com[q]}
    BY <1>2, <1>4, <1>9, LiveFacts
  <2>3. CASE pg # 1 /\ counted' = counted
    <3>1. /\ (1 \in w'.dirty <=> 1 \in w.dirty) /\ (1 \in w'.inJournal <=> 1 \in w.inJournal)
          /\ cache'[p][1] = cache[p][1]
      BY <1>3, <1>4, <1>9, <2>3
    <3>2. /\ counted[p] <=> 1 \in w'.inJournal
          /\ 1 \notin w'.inJournal => vers[p] = com[1]
          /\ 1 \in w'.inJournal => /\ cache'[p][1] = com[1] + 1
                                   /\ vers[p] = IF 1 \in w'.dirty THEN com[1] ELSE com[1] + 1
      BY <1>2, <3>1, LiveFacts
    <3>3. /\ jrnl'.here /\ (w'.hdr > 1 => ghosts = {} /\ jrnl'.durable)
          /\ \A q \in Page \ Synced' : dbLoss[q] = {com[q]}
      BY <1>2, <1>4, <1>7, <1>8, LiveFacts
    <3> QED BY <1>1, <2>1, <2>2, <2>3, <3>2, <3>3 DEF LiveInv
  <2>4. CASE pg = 1 /\ counted' = [counted EXCEPT ![p] = TRUE] /\ v = vers[p] + 1
    <3>1. counted'[p] = TRUE
      BY <1>3, <2>4 DEF ProcTypes
    <3>2. 1 \in w'.dirty /\ 1 \in w'.inJournal /\ vers[p] = com[1] /\ cache'[p][1] = com[1] + 1
      BY <1>1, <1>2, <1>4, <1>9, <2>4, LiveFacts
    <3> QED BY <1>1, <1>2, <1>4, <1>7, <1>8, <2>1, <2>2, <3>1, <3>2, LiveFacts DEF LiveInv
  <2> QED BY <2>3, <2>4
<1>11. BuildInv(p)'
  <2>1. \A i \in (w.hdr + 1)..MaxSlot : HasMagic(sl[i]) => HasMagic(jrnl.slot[i])
    BY <1>3, <1>6
  <2>2. sl[w.hdr].n = 0
    BY <1>2, <1>6, BuildFacts
  <2>3. "PERSIST" \notin Modes => \A i \in (w.hdr + 1)..MaxSlot : ~HasMagic(sl[i]) /\ ~HasMagic(jDisk[i])
    BY <1>2, <2>1, BuildFacts
  <2>4. w'.needSync # {}
    BY <1>4
  <2>5. (st[p] = "WRITER_CACHEMOD" => w.hdr = 1) /\ (st[p] = "WRITER_DBMOD" => w.hdr > 1)
    BY <1>2, BuildFacts
  <2> QED BY <1>1, <1>2, <1>4, <1>6, <1>7, <1>8, <2>2, <2>3, <2>4, <2>5 DEF BuildInv
<1>12. ProcInv(p)'
  <2>1. st[p] = "WRITER_CACHEMOD" => ~HasMagic(jrnl.slot[1])
    BY DEF PagerInv, ProcInv, CacheInv
  <2> QED BY <1>1, <1>2, <1>6, <1>7, <1>10, <1>11, <2>1, BuildProc
<1>13. FilesInv'
  <2>1. Safe(sl, jDisk, dbLoss, com)
    <3>1. sl[w.hdr].n = 0
      BY <1>2, <1>6, BuildFacts
    <3>2. w.needSync \cup {pg} \in SUBSET Page
      BY <1>3
    <3>3. \A q \in Page \ Synced : dbLoss[q] = {com[q]}
      BY <1>2, LiveFacts
    <3> QED BY <1>3, <1>6, <1>7, <3>1, <3>2, <3>3, SafeBuild
  <2>2. Sound(sl, jDisk, txn)
    <3>1. Sound(jrnl.slot, jDisk, txn)
      BY <1>3 DEF FilesInv
    <3>2. Older(sl, txn)
      BY <1>3, <1>6, <3>1 DEF Sound, Older
    <3>3. \A i \in 2..MaxSlot : HasMagic(sl[i]) => HasMagic(jrnl.slot[i])
      BY <1>3, <1>6
    <3> QED BY <1>6, <3>1, <3>2, <3>3 DEF Sound, NoStale
  <2>3. jrnl.here
    BY <1>2, LiveFacts
  <2> QED BY <1>1, <1>3, <1>7, <2>1, <2>2, <2>3 DEF FilesInv
<1>14. ~HasMagic(jrnl'.slot[1]) \/ HasMagic(jrnl.slot[1])
  BY <1>6, <1>7
<1> QED BY <1>1, <1>3, <1>9, <1>12, <1>13, <1>14, WriterStep

LEMMA LockedFacts ==
  ASSUME TypeInv, PagerInv, NEW p \in Proc, st[p] \in {"READER", "WRITER_LOCKED"}
  PROVE  /\ ~HasMagic(jrnl.slot[1]) /\ ~HasMagic(jDisk[1]) /\ Settled(dbLoss, com)
         /\ \A pg \in Page : db[pg] = com[pg] /\ cache[p][pg] \in {None, com[pg]}
         /\ vers[p] = com[1] /\ ~counted[p]
<1>1. CacheInv(p) /\ FilesInv /\ FileTypes
  BY DEF PagerInv, ProcInv, TypeInv
<1>2. ~HasMagic(jrnl.slot[1]) /\ vers[p] = com[1]
  BY <1>1 DEF CacheInv
<1>3. ~HasMagic(jDisk[1])
  BY <1>1, <1>2 DEF FilesInv, Sound
<1>4. Settled(dbLoss, com) /\ \A pg \in Page : db[pg] = com[pg]
  BY <1>1, <1>2, ColdFacts
<1>5. cache[p][1] # None
  BY StepFacts, NoneFact DEF Present, Loaded
<1>6. st[p] \notin Live \cup {"UNDO", "ERROR"}
  BY PlainStates
<1>7. ~counted[p] /\ \A pg \in Page : cache[p][pg] \in {None, com[pg]}
  BY <1>1, <1>2, <1>5, <1>6 DEF CacheInv
<1> QED BY <1>2, <1>3, <1>4, <1>7

LEMMA OpenHere ==
  ASSUME TypeInv, PagerInv, NEW p \in Proc, NEW pg \in Page, NEW m, st[p] = "WRITER_LOCKED",
         2 <= MaxSlot, Opened(m, jrnl.slot, txn, pg, com)
  PROVE  Started(m, jrnl.slot, jDisk, txn, com, pg)
<1>1. OtherInv(p) /\ FileTypes
  BY DEF PagerInv, ProcInv, TypeInv
<1>2. Older(jrnl.slot, txn - 1) /\ Older(jDisk, txn - 1)
  BY <1>1 DEF OtherInv
<1>3. jrnl.slot \in Slots /\ jDisk \in Slots /\ txn \in Nat /\ com \in [Page -> Nat]
  BY <1>1, JournalFields DEF FileTypes
<1>4. ~HasMagic(jDisk[1])
  BY LockedFacts
<1> QED BY <1>2, <1>3, <1>4, Open

LEMMA DirtyFirstKeeps ==
  ASSUME TypeInv, TypeInv', PagerInv, NEW p \in Proc, NEW pg \in Page, NEW v,
         DirtyFirst(p, pg), cache[p][pg] \in Nat, pg # 1, counted' = counted,
         cache' = [cache EXCEPT ![p][pg] = v], vers' = vers, txn' = txn, com' = com
  PROVE  PagerInv'
<1> DEFINE sl == [jrnl.slot EXCEPT ![1] = Header(0, <<txn, 0>>), ![2] = Record(pg, cache[p][pg], <<txn, 0>>)]
<1>1. /\ st[p] = "WRITER_LOCKED" /\ 2 <= MaxSlot /\ st' = [st EXCEPT ![p] = "WRITER_CACHEMOD"]
      /\ jrnl' = [here |-> TRUE, durable |-> (jrnl.here /\ jrnl.durable), slot |-> sl]
      /\ w' = WriterOf(p, 3, 1, {pg}, {pg}, {pg}, w.todo, w.fin)
      /\ UNCHANGED <<db, dbLoss, jDisk, ghosts>>
  BY DEF DirtyFirst
<1>2. /\ ProcTypes /\ FilesInv /\ 1 \in Page /\ w.proc = p
      /\ jrnl.slot \in Slots /\ jDisk \in Slots /\ txn \in Nat /\ com \in [Page -> Nat] /\ MaxSlot \in Nat
  BY <1>1, StepFacts, Owner, JournalFields, SectorTypes, PagerAssumption DEF FileTypes, PagerInv
<1>3. /\ w'.proc = p /\ w'.off = 3 /\ w'.hdr = 1 /\ w'.fin = w.fin
      /\ w'.inJournal = {pg} /\ w'.needSync = {pg} /\ w'.dirty = {pg}
  BY <1>1 DEF WriterOf
<1>4. /\ ~HasMagic(jrnl.slot[1]) /\ ~HasMagic(jDisk[1]) /\ Settled(dbLoss, com)
      /\ \A q \in Page : db[q] = com[q] /\ cache[p][q] \in {None, com[q]}
      /\ vers[p] = com[1] /\ ~counted[p]
  BY <1>1, LockedFacts
<1>5. cache[p][pg] = com[pg]
  BY <1>4, NoneFact
<1>6. Started(sl, jrnl.slot, jDisk, txn, com, pg)
  <2>1. Opened(sl, jrnl.slot, txn, pg, com)
    BY <1>5 DEF Opened
  <2> HIDE DEF sl
  <2> QED BY <1>1, <2>1, OpenHere
<1> HIDE DEF sl
<1>7. jrnl'.slot = sl /\ jrnl'.here /\ sl \in Slots
  <2>1. jrnl'.slot = sl /\ jrnl'.here = TRUE
    BY <1>1
  <2>2. jrnl' \in Journals
    BY DEF TypeInv, FileTypes
  <2> QED BY <2>1, <2>2 DEF Journals
<1>8. Synced' = {}
  BY <1>3 DEF Synced
<1>9. st'[p] = "WRITER_CACHEMOD" /\ \A q \in Proc \ {p} : st'[q] = st[q]
  BY <1>1, <1>2, NotMine
<1>10. /\ \A q \in Page \ {pg} : cache'[p][q] = cache[p][q]
       /\ \A q \in Proc \ {p} : cache'[q] = cache[q]
  BY <1>2 DEF ProcTypes
<1>11. LiveInv(p)'
  <2>1. \A q \in Page \ Synced' : dbLoss[q] = {com[q]}
    BY <1>4, <1>8 DEF Settled
  <2>2. \A q \in Page \ w'.inJournal : cache'[p][q] \in {None, com[q]}
    BY <1>3, <1>4, <1>10
  <2>3. 1 \notin w'.inJournal /\ w'.inJournal \ w'.dirty = {} /\ ~(w'.hdr > 1)
    BY <1>3
  <2> QED BY <1>1, <1>4, <1>7, <2>1, <2>2, <2>3 DEF LiveInv
<1>12. /\ Before(sl, 1, com, {}) /\ Segment(sl, 1, 3, txn, com, {pg}) /\ OnDisk(sl, jDisk, 1, txn)
       /\ sl[1].n = 0 /\ ~HasMagic(sl[1]) /\ ~HasMagic(sl[2])
       /\ sl[1].nonce[1] = txn /\ sl[2].nonce[1] = txn
       /\ \A i \in 1..MaxSlot \ {1, 2} : sl[i] = jrnl.slot[i]
  BY <1>6 DEF Started
<1>13. \A i \in 1..MaxSlot : HasMagic(sl[i]) => HasMagic(jrnl.slot[i])
  BY <1>12
<1>14. Sound(jrnl.slot, jDisk, txn)
  BY <1>2 DEF FilesInv
<1>15. BuildInv(p)'
  <2>1. "PERSIST" \notin Modes => \A i \in (1 + 1)..MaxSlot : ~HasMagic(sl[i]) /\ ~HasMagic(jDisk[i])
    <3>1. \A i \in (1 + 1)..MaxSlot : i \in 2..MaxSlot /\ i \in 1..MaxSlot
      BY <1>2
    <3> QED BY <1>4, <1>13, <1>14, <3>1 DEF Sound, NoStale
  <2>2. st'[p] \notin Syncing /\ st'[p] # "JOURNAL_SYNC" /\ st'[p] # "WRITER_DBMOD"
    BY <1>9 DEF Syncing
  <2>3. w'.needSync # {}
    BY <1>3
  <2> QED BY <1>1, <1>3, <1>7, <1>8, <1>12, <2>1, <2>2, <2>3 DEF BuildInv
<1>16. ProcInv(p)'
  <2>1. st'[p] \in Building
    BY <1>9 DEF Building
  <2> QED BY <1>7, <1>11, <1>12, <1>15, <2>1, BuildProc
<1>17. FilesInv'
  <2>1. Safe(sl, jDisk, dbLoss, com)
    <3>1. \A q \in Page \ {} : dbLoss[q] = {com[q]}
      BY <1>4 DEF Settled
    <3>2. {pg} \in SUBSET Page
      OBVIOUS
    <3> QED BY <1>2, <1>7, <1>12, <3>1, <3>2, SafeBuild
  <2>2. Sound(sl, jDisk, txn)
    <3>1. Older(sl, txn)
      BY <1>2, <1>12, <1>14 DEF Sound, Older
    <3>2. NoStale(sl, jDisk)
      <4>1. \A i \in 2..MaxSlot : i \in 1..MaxSlot
        BY <1>2
      <4> QED BY <1>4, <1>13, <1>14, <4>1 DEF Sound, NoStale
    <3> QED BY <1>4, <1>14, <3>1, <3>2 DEF Sound
  <2> QED BY <1>1, <1>2, <1>4, <1>7, <2>1, <2>2 DEF FilesInv
<1>18. ~HasMagic(jrnl'.slot[1])
  BY <1>7, <1>12
<1> QED BY <1>1, <1>2, <1>9, <1>10, <1>16, <1>17, <1>18, WriterStep

LEMMA WriteKeeps ==
  ASSUME TypeInv, TypeInv', PagerInv, NEW p \in Proc, NEW pg \in Data, Write(p, pg)
  PROVE  PagerInv'
<1>1. /\ st[p] \in Writing /\ cache[p][pg] # None /\ Dirty(p, pg, txn)
      /\ UNCHANGED <<lock, vers, counted, txn, com>>
  BY DEF Write
<1>2. pg \in Page /\ pg # 1
  BY PagerAssumption DEF Page
<1>3. cache[p][pg] \in Nat
  BY <1>1, <1>2 DEF TypeInv, ProcTypes, Content
<1>4. /\ cache' = [cache EXCEPT ![p][pg] = txn]
      /\ DirtyKnown(p, pg) \/ DirtyMore(p, pg) \/ DirtyFirst(p, pg)
  BY <1>1, <1>2, DirtyCases
<1>5. CASE DirtyKnown(p, pg)
  BY <1>1, <1>2, <1>4, <1>5, DirtyKnownKeeps
<1>6. CASE DirtyMore(p, pg)
  BY <1>1, <1>2, <1>3, <1>4, <1>6, DirtyMoreKeeps
<1>7. CASE DirtyFirst(p, pg)
  BY <1>1, <1>2, <1>3, <1>4, <1>7, DirtyFirstKeeps
<1> QED BY <1>4, <1>5, <1>6, <1>7

LEMMA IncrKeeps ==
  ASSUME TypeInv, TypeInv', PagerInv, NEW p \in Proc, IncrChangeCounter(p)
  PROVE  PagerInv'
<1>1. /\ st[p] \in {"WRITER_CACHEMOD", "WRITER_DBMOD"} /\ ~counted[p] /\ Dirty(p, 1, vers[p] + 1)
      /\ counted' = [counted EXCEPT ![p] = TRUE] /\ UNCHANGED <<lock, vers, txn, com>>
  BY DEF IncrChangeCounter
<1>2. st[p] \in Live /\ st[p] \in Writing /\ 1 \in Page
  BY <1>1, SectorTypes DEF Live, Building, Writing
<1>3. cache[p][1] \in Nat
  BY <1>2, WritingFacts
<1>4. /\ cache' = [cache EXCEPT ![p][1] = vers[p] + 1]
      /\ DirtyKnown(p, 1) \/ DirtyMore(p, 1) \/ DirtyFirst(p, 1)
  BY <1>1, <1>2, DirtyCases
<1>5. 1 \notin w.inJournal
  BY <1>1, <1>2, LiveFacts
<1>6. DirtyMore(p, 1)
  BY <1>1, <1>4, <1>5 DEF DirtyKnown, DirtyFirst
<1> QED BY <1>1, <1>2, <1>3, <1>4, <1>6, DirtyMoreKeeps

-------------------------------------------------------------------------------
(* syncJournal. *)

(* Every connection that syncs the journal syncs the records before the       *)
(* header, or none leaves headers of earlier transactions behind.             *)
Ordered == FALSE \notin FullSync \/ "PERSIST" \notin Modes

LEMMA Zeroed ==
  ASSUME TypeInv, NEW p \in Proc, st[p] \in Live
  PROVE  /\ \A i \in 1..MaxSlot : /\ i # w.off => ZeroNext[i] = jrnl.slot[i]
                                  /\ ZeroNext[i].nonce = jrnl.slot[i].nonce
                                  /\ HasMagic(ZeroNext[i]) => HasMagic(jrnl.slot[i])
         /\ w.off <= MaxSlot => ~HasMagic(ZeroNext[w.off])
<1>1. jrnl.slot \in Slots /\ MaxSlot \in Nat /\ w.hdr \in Nat /\ w.off \in Nat
      /\ w.off > w.hdr /\ w.hdr >= 1
  BY WritingFacts, StepFacts, JournalFields
<1>2. CASE w.off <= MaxSlot /\ HasMagic(jrnl.slot[w.off])
  <2> DEFINE x == jrnl.slot[w.off].nonce
             e == Header(0, x)
  <2>1. e.nonce = x /\ ~HasMagic(e)
    BY HeaderFields
  <2>2. ZeroNext = [jrnl.slot EXCEPT ![w.off] = e]
    BY <1>2 DEF ZeroNext
  <2> HIDE DEF e
  <2>3. w.off \in 1..MaxSlot
    BY <1>1, <1>2
  <2>4. ZeroNext[w.off] = e /\ \A i \in 1..MaxSlot : i # w.off => ZeroNext[i] = jrnl.slot[i]
    BY <1>1, <2>2, <2>3 DEF Slots
  <2> QED BY <1>2, <2>1, <2>4
<1>3. CASE ~(w.off <= MaxSlot /\ HasMagic(jrnl.slot[w.off]))
  <2>1. ZeroNext = jrnl.slot
    BY <1>3 DEF ZeroNext
  <2> QED BY <1>3, <2>1
<1> QED BY <1>2, <1>3

(* The invariants of the journal under syncJournal's first part. *)
ZeroedJournal(z, d) ==
  /\ Before(z, w.hdr, com, Synced) /\ Segment(z, w.hdr, w.off, txn, com, w.needSync)
  /\ OnDisk(z, d, w.hdr, txn) /\ z[w.hdr].n = 0 /\ Ended(z, d, w.off)
  /\ "PERSIST" \notin Modes => \A i \in (w.hdr + 1)..MaxSlot : ~HasMagic(z[i]) /\ ~HasMagic(d[i])
  /\ Sound(z, d, txn)

LEMMA ZeroedKeeps ==
  ASSUME Ordered, TypeInv, PagerInv, NEW p \in Proc, NEW full \in FullSync,
         st[p] \in {"WRITER_CACHEMOD", "WRITER_DBMOD"}, ZeroNext \in Slots,
         NEW d, d = IF full THEN ZeroNext ELSE jDisk
  PROVE  ZeroedJournal(ZeroNext, d)
<1> DEFINE s == jrnl.slot
           z == ZeroNext
<1>0. st[p] \in Live /\ st[p] \in Building /\ st[p] # "JOURNAL_SYNC" /\ full \in BOOLEAN
  BY PagerAssumption DEF Live, Building
<1>1. /\ s \in Slots /\ jDisk \in Slots /\ txn \in Nat /\ MaxSlot \in Nat /\ com \in [Page -> Nat]
      /\ w.hdr \in 1..MaxSlot /\ w.off \in (w.hdr + 1)..(MaxSlot + 1) /\ w.hdr \in Nat /\ w.off \in Nat
      /\ FilesInv /\ 1 \in 1..MaxSlot
  BY <1>0, WritingFacts, StepFacts, JournalFields, PagerAssumption DEF FileTypes, PagerInv
<1>2. /\ \A i \in 1..MaxSlot : /\ i # w.off => z[i] = s[i]
                               /\ z[i].nonce = s[i].nonce
                               /\ HasMagic(z[i]) => HasMagic(s[i])
      /\ w.off <= MaxSlot => ~HasMagic(z[w.off])
  BY <1>0, Zeroed
<1>3. /\ Before(s, w.hdr, com, Synced) /\ Segment(s, w.hdr, w.off, txn, com, w.needSync)
      /\ OnDisk(s, jDisk, w.hdr, txn) /\ s[w.hdr].n = 0
      /\ "PERSIST" \notin Modes => \A i \in (w.hdr + 1)..MaxSlot : ~HasMagic(s[i]) /\ ~HasMagic(jDisk[i])
  BY <1>0, BuildFacts
<1>4. Sound(s, jDisk, txn)
  BY <1>1 DEF FilesInv
<1> HIDE DEF z, s
<1>5. z[w.hdr] = s[w.hdr] /\ z[1] = s[1]
  BY <1>1, <1>2
<1>6. Before(z, w.hdr, com, Synced)
  <2>1. \A i \in 1..(w.hdr - 1) : s[i] = z[i]
    BY <1>1, <1>2
  <2> QED BY <1>1, <1>3, <2>1, BeforeSame
<1>7. /\ s[w.hdr].pg = 0 /\ s[w.hdr].nonce[1] = txn
      /\ \A i \in (w.hdr + 1)..(w.off - 1) : /\ s[i].pg \in w.needSync /\ s[i].v = com[s[i].pg]
                                             /\ s[i].nonce = s[w.hdr].nonce
      /\ \A pg \in w.needSync : \E i \in (w.hdr + 1)..(w.off - 1) : s[i].pg = pg
      /\ \A i \in w.off..MaxSlot : s[i].nonce[1] < txn
  BY <1>3 DEF Segment
<1>8. Segment(z, w.hdr, w.off, txn, com, w.needSync)
  <2>1. \A i \in (w.hdr + 1)..(w.off - 1) : z[i] = s[i]
    BY <1>1, <1>2
  <2>2. \A i \in w.off..MaxSlot : z[i].nonce[1] < txn
    BY <1>1, <1>2, <1>7
  <2>3. \A pg \in w.needSync : \E i \in (w.hdr + 1)..(w.off - 1) : z[i].pg = pg
    BY <1>7, <2>1
  <2> QED BY <1>1, <1>5, <1>7, <2>1, <2>2, <2>3 DEF Segment
<1>9. d = z \/ (d = jDisk /\ "PERSIST" \notin Modes)
  BY <1>0 DEF Ordered, z
<1>10. ~HasMagic(z[w.hdr]) /\ z[w.hdr].n = 0
  BY <1>3, <1>5 DEF HasMagic
<1>11. OnDisk(z, d, w.hdr, txn)
  <2>1. CASE d = z
    BY <1>10, <2>1 DEF OnDisk
  <2>2. CASE d = jDisk
    <3>1. \A i \in 1..(w.hdr - 1) : d[i] = z[i]
      <4>1. \A i \in 1..(w.hdr - 1) : i \in 1..MaxSlot /\ i # w.off
        BY <1>1
      <4> QED BY <1>2, <1>3, <2>2, <4>1 DEF OnDisk
    <3>2. ASSUME NEW i \in (w.hdr + 1)..MaxSlot
          PROVE  d[i] = z[i] \/ d[i].nonce[1] < txn
      <4>1. i \in 1..MaxSlot /\ (i = w.off => i \in w.off..MaxSlot)
        BY <1>1
      <4>2. d[i] = s[i] \/ d[i].nonce[1] < txn
        BY <1>3, <2>2 DEF OnDisk
      <4> QED BY <1>2, <1>7, <4>1, <4>2
    <3> QED BY <1>3, <2>2, <3>1, <3>2 DEF OnDisk
  <2> QED BY <1>9, <2>1, <2>2
<1>12. Ended(z, d, w.off)
  <2>1. w.off <= MaxSlot => w.off \in (w.hdr + 1)..MaxSlot
    BY <1>1
  <2> QED BY <1>2, <1>3, <1>9, <2>1 DEF Ended
<1>13. \A i \in (w.hdr + 1)..MaxSlot : i \in 1..MaxSlot
  BY <1>1
<1>14. "PERSIST" \notin Modes => \A i \in (w.hdr + 1)..MaxSlot : ~HasMagic(z[i]) /\ ~HasMagic(d[i])
  BY <1>2, <1>3, <1>9, <1>13
<1>15. Sound(z, d, txn)
  <2>1. Older(z, txn)
    BY <1>2, <1>4 DEF Sound, Older
  <2>2. Older(d, txn)
    BY <1>4, <1>9, <2>1 DEF Sound
  <2>3. HasMagic(d[1]) => HasMagic(z[1])
    BY <1>4, <1>5, <1>9 DEF Sound
  <2>4. NoStale(z, d)
    <3>1. \A i \in 2..MaxSlot : i \in 1..MaxSlot
      BY <1>1
    <3> QED BY <1>2, <1>4, <1>5, <1>9, <3>1 DEF Sound, NoStale
  <2> QED BY <2>1, <2>2, <2>3, <2>4 DEF Sound
<1> QED BY <1>6, <1>8, <1>10, <1>11, <1>12, <1>14, <1>15 DEF ZeroedJournal, z

LEMMA SyncJournalKeeps ==
  ASSUME Ordered, TypeInv, TypeInv', PagerInv, NEW p \in Proc, NEW fin \in BOOLEAN, NEW full \in FullSync,
         SyncJournal(p, fin, full)
  PROVE  PagerInv'
<1>0. full \in BOOLEAN
  BY PagerAssumption
<1>1. /\ st[p] \in {"WRITER_CACHEMOD", "WRITER_DBMOD"} /\ lock[p] = EXCLUSIVE_LOCK
      /\ ZeroNext \in Slots
      /\ jrnl' = [here |-> jrnl.here, durable |-> (full \/ jrnl.durable), slot |-> ZeroNext]
      /\ jDisk' = IF full THEN ZeroNext ELSE jDisk
      /\ ghosts' = IF full THEN {} ELSE ghosts
      /\ w' = WriterOf(p, w.off, w.hdr, w.inJournal, w.needSync, w.dirty, w.todo, fin)
      /\ UNCHANGED <<db, dbLoss, lock, cache, vers, counted, txn, com>>
      /\ st' = [st EXCEPT ![p] = "JOURNAL_HDR"]
  BY <1>0, SyncJournalShape
<1>2. st[p] \in Live /\ st[p] \in Building
  BY <1>1 DEF Live, Building
<1>3. /\ w.proc = p /\ ProcTypes /\ FilesInv /\ jDisk' \in Slots
      /\ txn \in Nat /\ com \in [Page -> Nat] /\ w.needSync \in SUBSET Page /\ jrnl.durable \in BOOLEAN
  BY <1>2, WritingFacts, StepFacts, JournalFields DEF FileTypes, PagerInv, TypeInv
<1>4. /\ w'.proc = p /\ w'.off = w.off /\ w'.hdr = w.hdr /\ w'.fin = fin
      /\ w'.inJournal = w.inJournal /\ w'.needSync = w.needSync /\ w'.dirty = w.dirty
  BY <1>1 DEF WriterOf
<1>5. ZeroedJournal(ZeroNext, jDisk')
  BY <1>1, ZeroedKeeps
<1>6. /\ Before(ZeroNext, w.hdr, com, Synced) /\ Segment(ZeroNext, w.hdr, w.off, txn, com, w.needSync)
      /\ OnDisk(ZeroNext, jDisk', w.hdr, txn) /\ ZeroNext[w.hdr].n = 0 /\ Ended(ZeroNext, jDisk', w.off)
      /\ "PERSIST" \notin Modes =>
           \A i \in (w.hdr + 1)..MaxSlot : ~HasMagic(ZeroNext[i]) /\ ~HasMagic(jDisk'[i])
      /\ Sound(ZeroNext, jDisk', txn)
  BY <1>5 DEF ZeroedJournal
<1>7. jrnl'.slot = ZeroNext /\ jrnl'.here = jrnl.here /\ jrnl'.durable = (full \/ jrnl.durable)
  BY <1>1
<1>8. Synced' = Synced
  BY <1>4 DEF Synced
<1>9. st'[p] = "JOURNAL_HDR" /\ \A q \in Proc \ {p} : st'[q] = st[q]
  BY <1>1, <1>3, NotMine
<1>10. IF fin THEN counted[p] ELSE w.needSync # {}
  <2>1. IF fin THEN counted[p]
               ELSE st[p] = "WRITER_CACHEMOD" \/ w.dirty \cap w.needSync # {}
    BY DEF SyncJournal
  <2>2. st[p] = "WRITER_CACHEMOD" => w.needSync # {}
    BY <1>2, BuildFacts
  <2> QED BY <2>1, <2>2
<1>11. LiveInv(p)'
  <2>1. w.hdr > 1 => ghosts' = {} /\ jrnl'.durable
    BY <1>1, <1>2, <1>7, LiveFacts
  <2> QED BY <1>1, <1>2, <1>4, <1>7, <1>8, <2>1, LiveFacts DEF LiveInv
<1>12. BuildInv(p)'
  BY <1>1, <1>4, <1>6, <1>7, <1>8, <1>9, <1>10 DEF BuildInv
<1>13. ProcInv(p)'
  <2>1. st'[p] \in Building
    BY <1>9 DEF Building, Syncing
  <2> QED BY <1>9, <1>11, <1>12, <2>1, BuildProc
<1>14. FilesInv'
  <2>1. Safe(ZeroNext, jDisk', dbLoss, com)
    <3>1. \A q \in Page \ Synced : dbLoss[q] = {com[q]}
      BY <1>2, LiveFacts
    <3> QED BY <1>1, <1>3, <1>6, <3>1, SafeBuild
  <2>2. jrnl.here
    BY <1>2, LiveFacts
  <2>3. ~jrnl'.durable \/ ghosts' # {} => ~jrnl.durable \/ ghosts # {}
    BY <1>1, <1>3, <1>7
  <2>4. ghosts' \subseteq ghosts
    BY <1>1
  <2> QED BY <1>1, <1>3, <1>6, <1>7, <2>1, <2>2, <2>3, <2>4 DEF FilesInv
<1> QED BY <1>1, <1>3, <1>9, <1>13, <1>14, WriterStep

LEMMA JournalHdrKeeps ==
  ASSUME TypeInv, TypeInv', PagerInv, NEW p \in Proc, JournalHdr(p)
  PROVE  PagerInv'
<1>1. /\ st[p] = "JOURNAL_HDR" /\ st' = [st EXCEPT ![p] = "JOURNAL_SYNC"]
      /\ UNCHANGED <<db, dbLoss, jDisk, ghosts, lock, cache, vers, counted, w, txn, com>>
      /\ \E h \in Sector :
           /\ h.pg = jrnl.slot[w.hdr].pg /\ h.nonce = jrnl.slot[w.hdr].nonce /\ h.n = w.off - w.hdr - 1
           /\ jrnl' = [here |-> jrnl.here, durable |-> jrnl.durable,
                       slot |-> [jrnl.slot EXCEPT ![w.hdr] = h]]
  BY JournalHdrShape
<1>2. PICK h \in Sector :
           /\ h.pg = jrnl.slot[w.hdr].pg /\ h.nonce = jrnl.slot[w.hdr].nonce /\ h.n = w.off - w.hdr - 1
           /\ jrnl' = [here |-> jrnl.here, durable |-> jrnl.durable,
                       slot |-> [jrnl.slot EXCEPT ![w.hdr] = h]]
  BY <1>1
<1>3. st[p] \in Live /\ st[p] \in Building /\ st[p] \in Syncing /\ st[p] # "WRITER_CACHEMOD"
  BY <1>1 DEF Live, Building, Syncing
<1>4. /\ w.proc = p /\ ProcTypes /\ FilesInv /\ lock[p] = EXCLUSIVE_LOCK
      /\ jrnl.slot \in Slots /\ jDisk \in Slots /\ txn \in Nat /\ com \in [Page -> Nat] /\ w.needSync \in SUBSET Page
      /\ w.hdr \in 1..MaxSlot /\ w.off \in (w.hdr + 1)..(MaxSlot + 1) /\ w.hdr \in Nat /\ w.off \in Nat
      /\ MaxSlot \in Nat /\ 1 \in 1..MaxSlot
  BY <1>3, WritingFacts, StepFacts, JournalFields, PagerAssumption DEF FileTypes, PagerInv
<1> DEFINE s == jrnl.slot
           z == jrnl'.slot
<1>5. /\ z = [s EXCEPT ![w.hdr] = h] /\ jrnl'.here = jrnl.here /\ jrnl'.durable = jrnl.durable
  BY <1>2
<1>6. z[w.hdr] = h /\ \A i \in 1..MaxSlot : i # w.hdr => z[i] = s[i]
  BY <1>4, <1>5 DEF Slots
<1>7. z \in Slots
  BY DEF TypeInv, FileTypes, Journals
<1>8. /\ Before(s, w.hdr, com, Synced) /\ Segment(s, w.hdr, w.off, txn, com, w.needSync)
      /\ OnDisk(s, jDisk, w.hdr, txn) /\ Ended(s, jDisk, w.off)
      /\ IF w.fin THEN counted[p] ELSE w.needSync # {}
      /\ "PERSIST" \notin Modes => \A i \in (w.hdr + 1)..MaxSlot : ~HasMagic(s[i]) /\ ~HasMagic(jDisk[i])
  BY <1>3, BuildFacts
<1>9. h.pg = s[w.hdr].pg /\ h.nonce = s[w.hdr].nonce /\ h.n = w.off - w.hdr - 1
  BY <1>2
<1> HIDE DEF s, z
<1>10. Before(z, w.hdr, com, Synced)
  <2>1. \A i \in 1..(w.hdr - 1) : s[i] = z[i]
    BY <1>4, <1>6
  <2> QED BY <1>4, <1>8, <2>1, BeforeSame
<1>11. \A i \in (w.hdr + 1)..MaxSlot : z[i] = s[i] /\ i \in 1..MaxSlot
  BY <1>4, <1>6
<1>12. Segment(z, w.hdr, w.off, txn, com, w.needSync)
  <2>1. /\ s[w.hdr].pg = 0 /\ s[w.hdr].nonce[1] = txn
        /\ \A i \in (w.hdr + 1)..(w.off - 1) : /\ s[i].pg \in w.needSync /\ s[i].v = com[s[i].pg]
                                               /\ s[i].nonce = s[w.hdr].nonce
        /\ \A pg \in w.needSync : \E i \in (w.hdr + 1)..(w.off - 1) : s[i].pg = pg
        /\ \A i \in w.off..MaxSlot : s[i].nonce[1] < txn
    BY <1>8 DEF Segment
  <2>2. /\ \A i \in (w.hdr + 1)..(w.off - 1) : z[i] = s[i]
        /\ \A i \in w.off..MaxSlot : z[i] = s[i]
    BY <1>4, <1>11
  <2> QED BY <1>4, <1>6, <1>9, <2>1, <2>2 DEF Segment
<1>13. OnDisk(z, jDisk, w.hdr, txn)
  <2>1. \A i \in 1..(w.hdr - 1) : jDisk[i] = z[i]
    <3>1. \A i \in 1..(w.hdr - 1) : i \in 1..MaxSlot /\ i # w.hdr
      BY <1>4
    <3> QED BY <1>6, <1>8, <3>1 DEF OnDisk
  <2> QED BY <1>8, <1>11, <2>1 DEF OnDisk
<1>14. Ended(z, jDisk, w.off)
  <2>1. w.off <= MaxSlot => w.off \in (w.hdr + 1)..MaxSlot
    BY <1>4
  <2> QED BY <1>8, <1>11, <2>1 DEF Ended
<1>15. st'[p] = "JOURNAL_SYNC" /\ \A q \in Proc \ {p} : st'[q] = st[q]
  BY <1>1, <1>4, NotMine
<1>16. Synced' = Synced
  BY <1>1 DEF Synced
<1>17. LiveInv(p)'
  BY <1>1, <1>3, <1>5, <1>16, LiveFacts DEF LiveInv
<1>18. BuildInv(p)'
  <2>1. "PERSIST" \notin Modes => \A i \in (w.hdr + 1)..MaxSlot : ~HasMagic(z[i]) /\ ~HasMagic(jDisk[i])
    BY <1>8, <1>11
  <2>2. z[w.hdr].n = w.off - w.hdr - 1
    BY <1>6, <1>9
  <2>3. z = jrnl'.slot
    BY DEF z
  <2> QED BY <1>1, <1>8, <1>10, <1>12, <1>13, <1>14, <1>15, <1>16, <2>1, <2>2, <2>3 DEF BuildInv
<1>19. ProcInv(p)'
  <2>1. st'[p] \in Building
    BY <1>15 DEF Building, Syncing
  <2> QED BY <1>15, <1>17, <1>18, <2>1, BuildProc
<1>20. Safe(z, jDisk, dbLoss, com)
  <2>1. \A q \in Page \ Synced : dbLoss[q] = {com[q]}
    BY <1>3, LiveFacts
  <2>2. z[w.hdr].n = w.off - w.hdr - 1
    BY <1>6, <1>9
  <2> QED BY <1>4, <1>7, <1>10, <1>12, <1>13, <1>14, <2>1, <2>2, SafeBuild
<1>21. Sound(z, jDisk, txn)
  <2>1. Sound(s, jDisk, txn)
    BY <1>4 DEF FilesInv, s
  <2>2. Older(z, txn)
    BY <1>6, <1>9, <2>1 DEF Sound, Older
  <2>3. CASE w.hdr = 1
    <3>1. ~HasMagic(jDisk[1])
      BY <1>13, <2>3 DEF OnDisk
    <3>2. \A i \in 2..MaxSlot : i \in (w.hdr + 1)..MaxSlot
      BY <1>4, <2>3
    <3>3. NoStale(z, jDisk)
      BY <1>8, <1>11, <3>2 DEF NoStale
    <3> QED BY <2>1, <2>2, <3>1, <3>3 DEF Sound
  <2>4. CASE w.hdr # 1
    <3>1. w.hdr \in 2..MaxSlot /\ 1 \in 1..(w.hdr - 1)
      BY <1>4, <2>4
    <3>2. HasMagic(z[1])
      BY <1>7, <1>10, <3>1, FirstMagic
    <3>3. jDisk[1] = z[1]
      BY <1>13, <3>1 DEF OnDisk
    <3> QED BY <2>1, <2>2, <3>2, <3>3 DEF Sound, NoStale
  <2> QED BY <2>3, <2>4
<1>22. FilesInv'
  <2>1. jrnl.here
    BY <1>3, LiveFacts
  <2>2. z = jrnl'.slot
    BY DEF z
  <2> QED BY <1>1, <1>4, <1>5, <1>20, <1>21, <2>1, <2>2 DEF FilesInv
<1> QED BY <1>1, <1>4, <1>15, <1>19, <1>22, WriterStep

(* The final sync: playing the journal back undoes the whole transaction. *)
LEMMA JournalWhole ==
  ASSUME TypeInv, PagerInv, NEW p \in Proc, st[p] \in Building, NEW l,
         Countable(jrnl.slot, jDisk, w.hdr, w.off, l)
  PROVE  Plays(jrnl.slot, l, com, w.inJournal)
<1>1. st[p] \in Live
  BY DEF Live
<1>2. /\ jrnl.slot \in Slots /\ txn \in Nat /\ com \in [Page -> Nat]
      /\ w.needSync \in SUBSET Page /\ w.needSync \subseteq w.inJournal
  BY <1>1, WritingFacts, StepFacts, JournalFields DEF FileTypes
<1>3. Before(jrnl.slot, w.hdr, com, Synced) /\ Segment(jrnl.slot, w.hdr, w.off, txn, com, w.needSync)
  BY BuildFacts
<1>4. Plays(jrnl.slot, l, com, Synced \cup w.needSync)
  BY <1>2, <1>3, WholeRead
<1>5. Synced \cup w.needSync = w.inJournal
  BY <1>2 DEF Synced
<1> QED BY <1>4, <1>5

(* A rollback knows the last header; the journal itself is complete once the  *)
(* header is written.                                                         *)
LEMMA JournalCounts ==
  ASSUME TypeInv, PagerInv, NEW p \in Proc, st[p] \in Building
  PROVE  /\ Countable(jrnl.slot, jDisk, w.hdr, w.off, w.hdr)
         /\ st[p] = "JOURNAL_SYNC" => Countable(jrnl.slot, jDisk, w.hdr, w.off, 0)
<1>1. st[p] \in Live /\ (st[p] = "JOURNAL_SYNC" => st[p] \in Syncing)
  BY DEF Live, Syncing
<1>2. w.hdr # 0
  BY <1>1, WritingFacts
<1>3. /\ jrnl.slot[w.hdr].n = IF st[p] = "JOURNAL_SYNC" THEN w.off - w.hdr - 1 ELSE 0
      /\ st[p] \in Syncing => Ended(jrnl.slot, jDisk, w.off)
  BY BuildFacts
<1> QED BY <1>1, <1>2, <1>3 DEF Countable

(* What is left to show when a transaction is about to commit. *)
LEMMA CloseProc ==
  ASSUME NEW p \in Proc, st'[p] \in Closing, LiveInv(p)', CloseInv(p)'
  PROVE  ProcInv(p)'
<1>1. st'[p] \notin Building /\ st'[p] \in Live
      /\ st'[p] \notin {"WRITER_LOCKED", "UNDO", "PLAYBACK", "CHECKED", "READER", "WRITER_CACHEMOD"}
  BY DEF Building, Syncing, Closing, Live
<1>2. BuildInv(p)' /\ OtherInv(p)' /\ CacheInv(p)'
  BY <1>1 DEF BuildInv, OtherInv, CacheInv
<1> QED BY <1>2 DEF ProcInv

LEMMA FinalSyncKeeps ==
  ASSUME TypeInv, TypeInv', PagerInv, NEW p \in Proc, st[p] = "JOURNAL_SYNC", w.fin,
         jDisk' = jrnl.slot, ghosts' = {}, UNCHANGED <<db, dbLoss, lock, cache, vers, counted, txn, com>>,
         st' = [st EXCEPT ![p] = "COMMIT"],
         jrnl' = [here |-> jrnl.here, durable |-> TRUE, slot |-> jrnl.slot],
         w' = WriterOf(p, w.off, w.hdr, w.inJournal, {}, w.dirty, w.todo, w.fin)
  PROVE  PagerInv'
<1>1. st[p] \in Live /\ st[p] \in Building /\ st[p] \in Syncing
  BY DEF Live, Building, Syncing
<1>2. /\ w.proc = p /\ ProcTypes /\ FilesInv /\ lock[p] = EXCLUSIVE_LOCK
      /\ jrnl.slot \in Slots /\ jDisk \in Slots /\ w.inJournal \subseteq Page
  BY <1>1, WritingFacts, StepFacts, JournalFields DEF FileTypes, PagerInv
<1>3. /\ w'.proc = p /\ w'.off = w.off /\ w'.hdr = w.hdr
      /\ w'.inJournal = w.inJournal /\ w'.needSync = {} /\ w'.dirty = w.dirty
  BY DEF WriterOf
<1>4. jrnl'.slot = jrnl.slot /\ jrnl'.here = jrnl.here /\ jrnl'.durable = TRUE
  OBVIOUS
<1>5. st'[p] = "COMMIT" /\ \A q \in Proc \ {p} : st'[q] = st[q]
  BY <1>2, NotMine
<1>6. Synced' = w.inJournal
  BY <1>3 DEF Synced
<1>7. LiveInv(p)'
  <2>1. \A q \in Page \ w.inJournal : dbLoss[q] = {com[q]}
    BY <1>1, LiveFacts DEF Synced
  <2>2. /\ jrnl.here
        /\ \A pg \in w.inJournal \ w.dirty : db[pg] = cache[p][pg]
        /\ \A pg \in Page \ w.inJournal : cache[p][pg] \in {None, com[pg]}
        /\ counted[p] <=> 1 \in w.inJournal
        /\ 1 \notin w.inJournal => vers[p] = com[1]
        /\ 1 \in w.inJournal => /\ cache[p][1] = com[1] + 1
                                /\ vers[p] = IF 1 \in w.dirty THEN com[1] ELSE com[1] + 1
    BY <1>1, LiveFacts
  <2> QED BY <1>3, <1>4, <1>6, <2>1, <2>2 DEF LiveInv
<1>8. CloseInv(p)'
  <2>1. Plays(jrnl.slot, 0, com, w.inJournal) /\ Plays(jrnl.slot, w.hdr, com, w.inJournal)
    BY <1>1, JournalCounts, JournalWhole
  <2>2. \A l \in {0, w.hdr} : DOMAIN Playback(jrnl.slot, l) = w.inJournal /\ Honest(Playback(jrnl.slot, l), com)
    BY <2>1 DEF Plays
  <2>3. counted[p]
    BY <1>1, BuildFacts
  <2>4. jDisk' = jrnl'.slot /\ counted'[p] /\ com' = com /\ w'.hdr = w.hdr /\ st'[p] # "WRITER_FINISHED"
    BY <1>3, <1>4, <1>5, <2>3
  <2>5. jrnl'.durable /\ ghosts' = {} /\ w'.needSync = {}
    BY <1>3, <1>4
  <2>6. \A l \in {0, w'.hdr} : DOMAIN Playback(jrnl'.slot, l) = w'.inJournal /\ Honest(Playback(jrnl'.slot, l), com')
    BY <1>3, <1>4, <2>2, <2>4
  <2> QED BY <2>4, <2>5, <2>6 DEF CloseInv
<1>9. ProcInv(p)'
  <2>1. st'[p] \in Closing
    BY <1>5 DEF Closing
  <2> QED BY <1>7, <1>8, <2>1, CloseProc
<1>10. FilesInv'
  <2>1. jrnl.here
    BY <1>1, LiveFacts
  <2>2. Safe(jrnl.slot, jrnl.slot, dbLoss, com) /\ Sound(jrnl.slot, jrnl.slot, txn)
    BY <1>2, <2>1, SafeSynced, SoundSynced DEF FilesInv
  <2> QED BY <1>2, <1>4, <2>1, <2>2 DEF FilesInv
<1> QED BY <1>2, <1>5, <1>9, <1>10, WriterStep

(* The journal with a new header at its end. *)
Continued(z) ==
  /\ Before(z, w.off, com, w.inJournal) /\ Segment(z, w.off, w.off + 1, txn, com, {})
  /\ OnDisk(z, jrnl.slot, w.off, txn) /\ z[w.off].n = 0
  /\ "PERSIST" \notin Modes =>
       \A i \in (w.off + 1)..MaxSlot : ~HasMagic(z[i]) /\ ~HasMagic(jrnl.slot[i])
  /\ Sound(z, jrnl.slot, txn)

LEMMA NewHeader ==
  ASSUME TypeInv, PagerInv, NEW p \in Proc, st[p] = "JOURNAL_SYNC", ~w.fin, w.off <= MaxSlot,
         NEW z \in Slots, z = [jrnl.slot EXCEPT ![w.off] = Header(0, <<txn, w.off>>)]
  PROVE  Continued(z)
<1>1. st[p] \in Live /\ st[p] \in Building /\ st[p] \in Syncing
  BY DEF Live, Building, Syncing
<1> DEFINE s == jrnl.slot
           o == w.off
<1>2. /\ s \in Slots /\ jDisk \in Slots /\ txn \in Nat /\ com \in [Page -> Nat] /\ FilesInv
      /\ w.needSync \in SUBSET Page /\ w.needSync \subseteq w.inJournal
      /\ w.hdr \in 1..MaxSlot /\ w.hdr \in Nat /\ o \in Nat /\ o \in 1..MaxSlot /\ o > w.hdr
      /\ MaxSlot \in Nat /\ 1 \in 1..MaxSlot /\ o # 1 /\ o \in (w.hdr + 1)..(MaxSlot + 1)
  BY <1>1, WritingFacts, StepFacts, JournalFields, PagerAssumption DEF FileTypes, PagerInv
<1>3. /\ Before(s, w.hdr, com, Synced) /\ Segment(s, w.hdr, o, txn, com, w.needSync)
      /\ Ended(s, jDisk, o) /\ s[w.hdr].n = o - w.hdr - 1 /\ w.needSync # {}
      /\ "PERSIST" \notin Modes => \A i \in (w.hdr + 1)..MaxSlot : ~HasMagic(s[i]) /\ ~HasMagic(jDisk[i])
  BY <1>1, BuildFacts
<1>4. \E e : /\ e.pg = 0 /\ e.n = 0 /\ e.nonce[1] = txn /\ ~HasMagic(e)
             /\ z = [s EXCEPT ![o] = e]
  <2> DEFINE e == Header(0, <<txn, o>>)
  <2>1. e.pg = 0 /\ e.n = 0 /\ e.nonce = <<txn, o>> /\ ~HasMagic(e)
    BY HeaderFields
  <2>2. e.nonce[1] = txn
    BY <2>1
  <2>3. z = [s EXCEPT ![o] = e]
    OBVIOUS
  <2> HIDE DEF e
  <2> QED BY <2>1, <2>2, <2>3
<1>5. PICK e : /\ e.pg = 0 /\ e.n = 0 /\ e.nonce[1] = txn /\ ~HasMagic(e)
               /\ z = [s EXCEPT ![o] = e]
  BY <1>4
<1>6. z[o] = e /\ \A i \in 1..MaxSlot : i # o => z[i] = s[i]
  BY <1>2, <1>5 DEF Slots
<1>7. Before(z, o, com, w.inJournal)
  <2>1. \A i \in 1..(o - 1) : s[i] = z[i]
    BY <1>2, <1>6
  <2>2. Before(z, o, com, Synced \cup w.needSync)
    <3> HIDE DEF s, o
    <3> QED BY <1>2, <1>3, <2>1, SegBefore
  <2>3. Synced \cup w.needSync = w.inJournal
    BY <1>2 DEF Synced
  <2> QED BY <2>2, <2>3
<1>8. Segment(z, o, o + 1, txn, com, {})
  <2>1. \A i \in (o + 1)..MaxSlot : z[i].nonce[1] < txn
    <3>1. \A i \in o..MaxSlot : s[i].nonce[1] < txn
      BY <1>3 DEF Segment
    <3>2. \A i \in (o + 1)..MaxSlot : i \in o..MaxSlot /\ i # o /\ i \in 1..MaxSlot
      BY <1>2
    <3> QED BY <1>6, <3>1, <3>2
  <2>2. (o + 1)..((o + 1) - 1) = {} /\ o + 1 \in (o + 1)..(MaxSlot + 1)
    BY <1>2
  <2> HIDE DEF o
  <2> QED BY <1>2, <1>5, <1>6, <2>1, <2>2 DEF Segment
<1>9. OnDisk(z, s, o, txn)
  <2>1. ~HasMagic(s[o])
    BY <1>2, <1>3 DEF Ended
  <2>2. /\ \A i \in 1..(o - 1) : s[i] = z[i]
        /\ \A i \in (o + 1)..MaxSlot : s[i] = z[i]
    BY <1>2, <1>6
  <2> HIDE DEF s, o
  <2> QED BY <2>1, <2>2 DEF OnDisk
<1>10. \A i \in 1..MaxSlot : HasMagic(z[i]) => HasMagic(s[i])
  BY <1>5, <1>6
<1>11. "PERSIST" \notin Modes => \A i \in (o + 1)..MaxSlot : ~HasMagic(z[i]) /\ ~HasMagic(s[i])
  <2>1. \A i \in (o + 1)..MaxSlot : i \in (w.hdr + 1)..MaxSlot /\ i \in 1..MaxSlot
    BY <1>2
  <2> QED BY <1>3, <1>10, <2>1
<1>12. Sound(z, s, txn)
  <2>1. Sound(s, jDisk, txn)
    BY <1>2 DEF FilesInv
  <2>2. Older(z, txn)
    BY <1>2, <1>5, <1>6, <2>1 DEF Sound, Older
  <2>3. z[1] = s[1] /\ \A i \in 2..MaxSlot : i \in 1..MaxSlot
    BY <1>2, <1>6
  <2>4. NoStale(z, s)
    BY <1>10, <2>1, <2>3 DEF Sound, NoStale
  <2> QED BY <2>1, <2>2, <2>3, <2>4 DEF Sound
<1>13. z[o].n = 0
  BY <1>5, <1>6
<1> QED BY <1>7, <1>8, <1>9, <1>11, <1>12, <1>13 DEF Continued

LEMMA SpillSyncKeeps ==
  ASSUME TypeInv, TypeInv', PagerInv, NEW p \in Proc, st[p] = "JOURNAL_SYNC", ~w.fin, w.off <= MaxSlot,
         jDisk' = jrnl.slot, ghosts' = {}, UNCHANGED <<db, dbLoss, lock, cache, vers, counted, txn, com>>,
         st' = [st EXCEPT ![p] = "WRITER_DBMOD"], NEW z, z = [jrnl.slot EXCEPT ![w.off] = Header(0, <<txn, w.off>>)],
         jrnl' = [here |-> jrnl.here, durable |-> TRUE, slot |-> z],
         w' = WriterOf(p, w.off + 1, w.off, w.inJournal, {}, w.dirty, w.todo, w.fin)
  PROVE  PagerInv'
<1>1. st[p] \in Live /\ st[p] \in Building /\ st[p] \in Syncing
  BY DEF Live, Building, Syncing
<1>2. /\ w.proc = p /\ ProcTypes /\ FilesInv /\ lock[p] = EXCLUSIVE_LOCK
      /\ jrnl.slot \in Slots /\ jDisk \in Slots /\ w.inJournal \subseteq Page
      /\ txn \in Nat /\ com \in [Page -> Nat] /\ w.off > 1
  BY <1>1, WritingFacts, StepFacts, JournalFields DEF FileTypes, PagerInv
<1>3. /\ w'.proc = p /\ w'.off = w.off + 1 /\ w'.hdr = w.off
      /\ w'.inJournal = w.inJournal /\ w'.needSync = {} /\ w'.dirty = w.dirty
  BY DEF WriterOf
<1>4. jrnl'.slot = z /\ jrnl'.here = jrnl.here /\ jrnl'.durable = TRUE
  OBVIOUS
<1>5. z \in Slots
  BY <1>4 DEF TypeInv, FileTypes, Journals
<1>6. Continued(z)
  BY <1>5, NewHeader
<1>7. /\ Before(z, w.off, com, w.inJournal) /\ Segment(z, w.off, w.off + 1, txn, com, {})
      /\ OnDisk(z, jrnl.slot, w.off, txn) /\ z[w.off].n = 0
      /\ "PERSIST" \notin Modes =>
           \A i \in (w.off + 1)..MaxSlot : ~HasMagic(z[i]) /\ ~HasMagic(jrnl.slot[i])
      /\ Sound(z, jrnl.slot, txn)
  BY <1>6 DEF Continued
<1>8. st'[p] = "WRITER_DBMOD" /\ \A q \in Proc \ {p} : st'[q] = st[q]
  BY <1>2, NotMine
<1>9. Synced' = w.inJournal
  BY <1>3 DEF Synced
<1>10. \A q \in Page \ w.inJournal : dbLoss[q] = {com[q]}
  BY <1>1, LiveFacts DEF Synced
<1>11. LiveInv(p)'
  BY <1>1, <1>3, <1>4, <1>9, <1>10, LiveFacts DEF LiveInv
<1>12. st'[p] \in Building /\ st'[p] \notin Syncing /\ st'[p] # "JOURNAL_SYNC"
  BY <1>8 DEF Building, Syncing
<1>13. BuildInv(p)'
  BY <1>2, <1>3, <1>4, <1>7, <1>8, <1>9, <1>12 DEF BuildInv
<1>14. ProcInv(p)'
  BY <1>8, <1>11, <1>12, <1>13, BuildProc
<1>15. FilesInv'
  <2>1. jrnl.here
    BY <1>1, LiveFacts
  <2>2. Safe(z, jrnl.slot, dbLoss, com)
    <3>1. {} \in SUBSET Page
      OBVIOUS
    <3> QED BY <1>2, <1>5, <1>7, <1>10, <3>1, SafeBuild
  <2> QED BY <1>2, <1>4, <1>7, <2>1, <2>2 DEF FilesInv
<1> QED BY <1>2, <1>8, <1>14, <1>15, WriterStep

LEMMA JournalSyncKeeps ==
  ASSUME TypeInv, TypeInv', PagerInv, NEW p \in Proc, JournalSync(p)
  PROVE  PagerInv'
<1>1. /\ st[p] = "JOURNAL_SYNC" /\ jDisk' = jrnl.slot /\ ghosts' = {}
      /\ UNCHANGED <<db, dbLoss, lock, cache, vers, counted, txn, com>>
      /\ \/ /\ w.fin /\ st' = [st EXCEPT ![p] = "COMMIT"]
            /\ jrnl' = [here |-> jrnl.here, durable |-> TRUE, slot |-> jrnl.slot]
            /\ w' = WriterOf(p, w.off, w.hdr, w.inJournal, {}, w.dirty, w.todo, w.fin)
         \/ /\ ~w.fin /\ w.off <= MaxSlot /\ st' = [st EXCEPT ![p] = "WRITER_DBMOD"]
            /\ jrnl' = [here |-> jrnl.here, durable |-> TRUE,
                        slot |-> [jrnl.slot EXCEPT ![w.off] = Header(0, <<txn, w.off>>)]]
            /\ w' = WriterOf(p, w.off + 1, w.off, w.inJournal, {}, w.dirty, w.todo, w.fin)
  BY JournalSyncShape
<1>2. CASE w.fin
  BY <1>1, <1>2, FinalSyncKeeps
<1>3. CASE ~w.fin
  <2> DEFINE z == [jrnl.slot EXCEPT ![w.off] = Header(0, <<txn, w.off>>)]
  <2>1. /\ w.off <= MaxSlot /\ st' = [st EXCEPT ![p] = "WRITER_DBMOD"]
        /\ jrnl' = [here |-> jrnl.here, durable |-> TRUE, slot |-> z]
        /\ w' = WriterOf(p, w.off + 1, w.off, w.inJournal, {}, w.dirty, w.todo, w.fin)
    BY <1>1, <1>3
  <2>2. z = [jrnl.slot EXCEPT ![w.off] = Header(0, <<txn, w.off>>)]
    OBVIOUS
  <2> HIDE DEF z
  <2> QED BY <1>1, <1>3, <2>1, <2>2, SpillSyncKeeps
<1> QED BY <1>2, <1>3

LEMMA CloseFacts ==
  ASSUME PagerInv, NEW p \in Proc, st[p] \in Closing
  PROVE  /\ jDisk = jrnl.slot /\ jrnl.durable /\ ghosts = {} /\ counted[p] /\ w.needSync = {}
         /\ \A l \in {0, w.hdr} : Plays(jrnl.slot, l, com, w.inJournal)
         /\ Plays(jrnl.slot, 0, com, w.inJournal) /\ Plays(jrnl.slot, w.hdr, com, w.inJournal)
         /\ st[p] = "WRITER_FINISHED" => w.dirty = {} /\ \A pg \in Page : dbLoss[pg] = {db[pg]}
<1>1. CloseInv(p)
  BY DEF PagerInv, ProcInv
<1>2. \A l \in {0, w.hdr} : Plays(jrnl.slot, l, com, w.inJournal)
  BY <1>1 DEF CloseInv, Plays
<1>3. Plays(jrnl.slot, 0, com, w.inJournal) /\ Plays(jrnl.slot, w.hdr, com, w.inJournal)
  BY <1>2
<1> QED BY <1>1, <1>2, <1>3 DEF CloseInv

(* Pages in the journal may be written: the invariant of the files for new    *)
(* contents of the database.                                                  *)
LEMMA LiveFiles ==
  ASSUME TypeInv, PagerInv, NEW p \in Proc, st[p] \in {"WRITER_DBMOD"} \cup Closing,
         UNCHANGED <<jrnl, jDisk, ghosts, txn, com>>,
         \A q \in Page : db'[q] \in dbLoss'[q],
         \A q \in Page \ Synced : dbLoss'[q] = {com[q]}
  PROVE  FilesInv'
<1>1. st[p] \in Live
  BY DEF Live, Building
<1>2. /\ jrnl.slot \in Slots /\ jDisk \in Slots /\ txn \in Nat /\ com \in [Page -> Nat]
      /\ w.needSync \in SUBSET Page /\ FilesInv /\ jrnl.here
  BY <1>1, StepFacts, JournalFields, LiveFacts DEF FileTypes, PagerInv
<1>3. ghosts = {} /\ jrnl.durable /\ Safe(jrnl.slot, jDisk, dbLoss', com)
  <2>1. CASE st[p] = "WRITER_DBMOD"
    <3>1. st[p] \in Building /\ st[p] # "JOURNAL_SYNC"
      BY <2>1 DEF Building
    <3>2. /\ Before(jrnl.slot, w.hdr, com, Synced) /\ OnDisk(jrnl.slot, jDisk, w.hdr, txn)
          /\ Segment(jrnl.slot, w.hdr, w.off, txn, com, w.needSync)
          /\ jrnl.slot[w.hdr].n = 0 /\ w.hdr > 1
      BY <2>1, <3>1, BuildFacts
    <3>3. ghosts = {} /\ jrnl.durable
      BY <1>1, <3>2, LiveFacts
    <3> QED BY <1>2, <3>2, <3>3, SafeBuild
  <2>2. CASE st[p] \in Closing
    <3>1. jDisk = jrnl.slot /\ ghosts = {} /\ jrnl.durable /\ Plays(jrnl.slot, 0, com, w.inJournal)
      BY <2>2, CloseFacts
    <3>2. \A q \in Page \ DOMAIN Playback(jrnl.slot, 0) : dbLoss'[q] = {com[q]}
      BY <3>1 DEF Plays, Synced
    <3> QED BY <1>2, <3>1, <3>2, SafeSame DEF Plays
  <2> QED BY <2>1, <2>2
<1> QED BY <1>2, <1>3 DEF FilesInv

LEMMA WritePageKeeps ==
  ASSUME TypeInv, TypeInv', PagerInv, NEW p \in Proc, NEW pg \in Page, WritePage(p, pg)
  PROVE  PagerInv'
<1>0. PICK v \in Nat : WrotePage(p, pg, v)
  BY WritePageShape
<1>1. /\ v = IF pg = 1 THEN vers[p] + 1 ELSE cache[p][pg]
      /\ st[p] \in {"WRITER_DBMOD", "COMMIT"} /\ pg \in w.dirty \ w.needSync
      /\ db' = [db EXCEPT ![pg] = v] /\ dbLoss' = [dbLoss EXCEPT ![pg] = @ \cup {v}]
      /\ cache' = [cache EXCEPT ![p][pg] = v]
      /\ vers' = [vers EXCEPT ![p] = IF pg = 1 THEN v ELSE @]
      /\ w' = WriterOf(p, w.off, w.hdr, w.inJournal, w.needSync, w.dirty \ {pg}, w.todo, w.fin)
      /\ UNCHANGED <<jrnl, jDisk, ghosts, lock, st, counted, txn, com>>
  BY <1>0 DEF WrotePage
<1>2. st[p] \in Live /\ st[p] \in {"WRITER_DBMOD"} \cup Closing /\ st[p] # "WRITER_CACHEMOD"
  BY <1>1 DEF Live, Building, Closing
<1>3. /\ w.proc = p /\ ProcTypes /\ FilesInv /\ lock[p] = EXCLUSIVE_LOCK /\ 1 \in Page
      /\ db \in [Page -> Nat] /\ dbLoss \in [Page -> SUBSET Nat]
      /\ w.dirty \subseteq w.inJournal /\ w.inJournal \subseteq Page
  BY <1>2, WritingFacts, StepFacts, JournalFields, SectorTypes DEF FileTypes, PagerInv
<1>4. /\ w'.proc = p /\ w'.off = w.off /\ w'.hdr = w.hdr /\ w'.fin = w.fin
      /\ w'.inJournal = w.inJournal /\ w'.needSync = w.needSync /\ w'.dirty = w.dirty \ {pg}
  BY <1>1 DEF WriterOf
<1>5. /\ db'[pg] = v /\ dbLoss'[pg] = dbLoss[pg] \cup {v}
      /\ \A q \in Page \ {pg} : db'[q] = db[q] /\ dbLoss'[q] = dbLoss[q]
  BY <1>1, <1>3
<1>6. /\ cache'[p][pg] = v /\ \A q \in Page \ {pg} : cache'[p][q] = cache[p][q]
      /\ vers'[p] = IF pg = 1 THEN v ELSE vers[p]
      /\ \A q \in Proc \ {p} : cache'[q] = cache[q] /\ vers'[q] = vers[q]
  BY <1>1, <1>3 DEF ProcTypes
<1>7. Synced' = Synced /\ pg \in Synced /\ pg \in w.inJournal /\ pg \in w.dirty
  BY <1>1, <1>3, <1>4 DEF Synced
<1>8. FilesInv'
  <2>1. \A q \in Page : db'[q] \in dbLoss'[q]
    BY <1>3, <1>5 DEF FilesInv
  <2>2. \A q \in Page \ Synced : dbLoss'[q] = {com[q]}
    BY <1>2, <1>5, <1>7, LiveFacts
  <2> QED BY <1>1, <1>2, <2>1, <2>2, LiveFiles
<1>9. LiveInv(p)'
  <2>0. /\ jrnl.here /\ (w.hdr > 1 => ghosts = {} /\ jrnl.durable)
        /\ \A q \in Page \ Synced : dbLoss[q] = {com[q]}
        /\ \A q \in w.inJournal \ w.dirty : db[q] = cache[p][q]
        /\ \A q \in Page \ w.inJournal : cache[p][q] \in {None, com[q]}
        /\ counted[p] <=> 1 \in w.inJournal
        /\ 1 \notin w.inJournal => vers[p] = com[1]
        /\ 1 \in w.inJournal => /\ cache[p][1] = com[1] + 1
                                /\ vers[p] = IF 1 \in w.dirty THEN com[1] ELSE com[1] + 1
    BY <1>2, LiveFacts
  <2>1. \A q \in Page \ Synced' : dbLoss'[q] = {com[q]}
    BY <1>5, <1>7, <2>0
  <2>2. \A q \in w'.inJournal \ w'.dirty : db'[q] = cache'[p][q]
    BY <1>3, <1>4, <1>5, <1>6, <2>0
  <2>3. \A q \in Page \ w'.inJournal : cache'[p][q] \in {None, com[q]}
    BY <1>4, <1>6, <1>7, <2>0
  <2>4. CASE pg = 1
    <3>1. v = com[1] + 1 /\ cache'[p][1] = v /\ vers'[p] = v /\ 1 \notin w'.dirty /\ 1 \in w'.inJournal
      BY <1>1, <1>4, <1>6, <1>7, <2>0, <2>4
    <3>2. jrnl' = jrnl /\ ghosts' = ghosts /\ com' = com /\ counted' = counted /\ w'.hdr = w.hdr
      BY <1>1, <1>4
    <3>3. counted'[p] <=> 1 \in w'.inJournal
      BY <1>4, <2>0, <3>2
    <3> QED BY <2>0, <2>1, <2>2, <2>3, <3>1, <3>2, <3>3 DEF LiveInv
  <2>5. CASE pg # 1
    <3>1. cache'[p][1] = cache[p][1] /\ vers'[p] = vers[p] /\ (1 \in w'.dirty <=> 1 \in w.dirty)
      BY <1>3, <1>4, <1>6, <2>5
    <3> QED BY <1>1, <1>4, <2>0, <2>1, <2>2, <2>3, <3>1 DEF LiveInv
  <2> QED BY <2>4, <2>5
<1>10. ProcInv(p)'
  <2>1. CASE st[p] = "WRITER_DBMOD"
    <3>1. st[p] \in Building /\ st[p] \notin Syncing
      BY <2>1 DEF Building, Syncing
    <3>2. BuildInv(p)'
      BY <1>1, <1>4, <1>7, <2>1, <3>1, BuildFacts DEF BuildInv
    <3> QED BY <1>1, <1>9, <2>1, <3>1, <3>2, BuildProc
  <2>2. CASE st[p] = "COMMIT"
    <3>1. st[p] \in Closing
      BY <2>2 DEF Closing
    <3>2. CloseInv(p)
      BY DEF PagerInv, ProcInv
    <3>3. CloseInv(p)'
      BY <1>1, <1>4, <2>2, <3>1, <3>2 DEF CloseInv
    <3> QED BY <1>1, <1>9, <3>1, <3>3, CloseProc
  <2> QED BY <1>1, <2>1, <2>2
<1> QED BY <1>1, <1>3, <1>6, <1>8, <1>10, WriterStep

LEMMA CommitSyncKeeps ==
  ASSUME TypeInv, TypeInv', PagerInv, NEW p \in Proc, CommitSync(p)
  PROVE  PagerInv'
<1>1. /\ st[p] = "COMMIT" /\ w.dirty = {} /\ dbLoss' = [pg \in Page |-> {db[pg]}] /\ db' = db
      /\ st' = [st EXCEPT ![p] = "WRITER_FINISHED"]
      /\ UNCHANGED <<jrnl, jDisk, ghosts, lock, cache, vers, counted, w, txn, com>>
  BY DEF CommitSync, SyncDb, Goto
<1>2. st[p] \in Live /\ st[p] \in Closing /\ st[p] # "WRITER_CACHEMOD"
  BY <1>1 DEF Live, Closing
<1>3. w.proc = p /\ ProcTypes /\ FilesInv /\ lock[p] = EXCLUSIVE_LOCK
  BY <1>2, WritingFacts, StepFacts DEF PagerInv
<1>4. \A q \in Page : dbLoss'[q] = {db[q]}
  BY <1>1
<1>5. \A q \in Page \ Synced : dbLoss'[q] = {com[q]}
  BY <1>2, <1>4, LiveFacts
<1>6. FilesInv'
  <2>1. \A q \in Page : db'[q] \in dbLoss'[q]
    BY <1>1, <1>4
  <2> QED BY <1>1, <1>2, <1>5, <2>1, LiveFiles
<1>7. st'[p] = "WRITER_FINISHED" /\ \A q \in Proc \ {p} : st'[q] = st[q]
  BY <1>1, <1>3, NotMine
<1>8. Synced' = Synced
  BY <1>1 DEF Synced
<1>9. LiveInv(p)'
  BY <1>1, <1>2, <1>5, <1>8, LiveFacts DEF LiveInv
<1>10. CloseInv(p)'
  <2>1. CloseInv(p)
    BY DEF PagerInv, ProcInv
  <2> QED BY <1>1, <1>2, <1>4, <2>1 DEF CloseInv
<1>11. ProcInv(p)'
  <2>1. st'[p] \in Closing
    BY <1>7 DEF Closing
  <2> QED BY <1>9, <1>10, <2>1, CloseProc
<1> QED BY <1>1, <1>3, <1>6, <1>7, <1>11, WriterStep

-------------------------------------------------------------------------------
(* The end of a transaction. *)

LEMMA SafeEqual ==
  ASSUME NEW s, NEW d, NEW loss, NEW c, NEW loss2, Safe(s, d, loss, c), \A pg \in Page : loss2[pg] = loss[pg]
  PROVE  Safe(s, d, loss2, c)
BY DEF Safe

LEMMA FinalizeKeeps ==
  ASSUME FileTypes, FileTypes', FilesInv, jrnl.here, NEW m \in Modes, NEW hot \in BOOLEAN, Finalize(m, hot),
         txn' = txn, \A pg \in Page : db'[pg] \in dbLoss'[pg], Settled(dbLoss', com'),
         Safe(jrnl.slot, jDisk, dbLoss', com),
         \A g \in ghosts : Safe(g.slot, g.disk, dbLoss', g.com),
         w.off = 0 => ~HasMagic(jrnl.slot[1]) /\ jDisk = jrnl.slot
  PROVE  FilesInv' /\ ~HasMagic(jrnl'.slot[1])
<1>1. /\ jrnl.slot \in Slots /\ jDisk \in Slots /\ txn \in Nat /\ jrnl \in Journals
      /\ jrnl'.slot \in Slots /\ jDisk' \in Slots /\ 1 \in 1..MaxSlot /\ MaxSlot \in Nat
  BY JournalFields, PagerAssumption DEF FileTypes, Journals
<1>2. Sound(jrnl.slot, jDisk, txn) /\ \A g \in ghosts : Sound(g.slot, g.disk, txn)
  BY DEF FilesInv
<1>3. CASE w.off = 0 /\ UNCHANGED <<jrnl, jDisk, ghosts>>
  <2>1. ~HasMagic(jrnl.slot[1]) /\ jDisk = jrnl.slot
    BY <1>3
  <2>2. Safe(jrnl.slot, jrnl.slot, dbLoss', com')
    BY <1>1, <2>1, SafeCold
  <2> QED BY <1>2, <1>3, <2>1, <2>2 DEF FilesInv
<1>4. CASE /\ jrnl' = IF m = "DELETE" THEN NoJournal ELSE [jrnl EXCEPT !.slot = Empty]
           /\ SyncJrnl
           /\ ghosts' = ghosts \cup {[slot |-> jrnl.slot, disk |-> jDisk, com |-> com]}
  <2>1. jrnl'.slot = Empty /\ jDisk' = Empty /\ (~jrnl'.here => jrnl' = NoJournal)
    BY <1>1, <1>4 DEF NoJournal, SyncJrnl, Journals
  <2>2. Sound(Empty, Empty, txn) /\ ~HasMagic(Empty[1])
    BY <1>1, EmptySound
  <2>3. Safe(Empty, Empty, dbLoss', com')
    BY <1>1, <2>1, <2>2, SafeCold
  <2>4. \A g \in ghosts' : Safe(g.slot, g.disk, dbLoss', g.com) /\ Sound(g.slot, g.disk, txn)
    <3> DEFINE n == [slot |-> jrnl.slot, disk |-> jDisk, com |-> com]
    <3>1. n.slot = jrnl.slot /\ n.disk = jDisk /\ n.com = com
      OBVIOUS
    <3>2. Safe(n.slot, n.disk, dbLoss', n.com) /\ Sound(n.slot, n.disk, txn)
      BY <1>2, <3>1
    <3>3. ghosts' = ghosts \cup {n}
      BY <1>4
    <3> HIDE DEF n
    <3> QED BY <1>2, <3>2, <3>3
  <2> QED BY <2>1, <2>2, <2>3, <2>4 DEF FilesInv
<1>5. CASE /\ m = "PERSIST"
           /\ jrnl' = [jrnl EXCEPT !.slot = [jrnl.slot EXCEPT ![1] = Header(0, <<0, 0>>)], !.durable = ~hot \/ @]
           /\ SyncJrnl
           /\ ghosts' = IF hot THEN ghosts ELSE {}
  <2> DEFINE e == Header(0, <<0, 0>>)
             z == [jrnl.slot EXCEPT ![1] = e]
  <2>1. e.nonce = <<0, 0>> /\ ~HasMagic(e)
    BY HeaderFields
  <2>2. e.nonce[1] = 0
    BY <2>1
  <2>3. jrnl'.slot = z /\ jDisk' = z /\ jrnl'.here
    <3>1. jrnl' = [jrnl EXCEPT !.slot = z, !.durable = ~hot \/ @]
      BY <1>5
    <3> HIDE DEF z
    <3> QED BY <1>1, <1>5, <3>1 DEF SyncJrnl, Journals
  <2> HIDE DEF e
  <2>4. z[1] = e /\ \A i \in 1..MaxSlot \ {1} : z[i] = jrnl.slot[i]
    BY <1>1 DEF Slots
  <2> HIDE DEF z
  <2>5. Older(z, txn)
    BY <1>1, <1>2, <2>2, <2>4 DEF Sound, Older
  <2>6. Sound(z, z, txn)
    BY <1>5, <2>5 DEF Sound, NoStale
  <2>7. ~HasMagic(z[1])
    BY <2>1, <2>4
  <2>8. Safe(z, z, dbLoss', com')
    BY <1>1, <2>3, <2>7, SafeCold
  <2>9. ghosts' \subseteq ghosts
    BY <1>5
  <2> QED BY <1>2, <2>3, <2>6, <2>7, <2>8, <2>9 DEF FilesInv
<1> QED BY <1>3, <1>4, <1>5 DEF Finalize

(* The process is a reader again, or about to be one. *)
LEMMA EndKeeps ==
  ASSUME TypeInv, PagerInv, NEW p \in Proc, NEW S \in {"READER", "CHECKED"}, w.proc = p, EndTransaction(p, S),
         com' = com, FilesInv', ~HasMagic(jrnl'.slot[1]),
         \A q \in Proc \ {p} : cache'[q] = cache[q] /\ vers'[q] = vers[q],
         cache'[p][1] # None =>
           /\ vers'[p] <= com[1]
           /\ vers'[p] = com[1] => \A pg \in Page : cache'[p][pg] \in {None, com[pg]},
         S = "READER" => vers'[p] = com[1]
  PROVE  PagerInv'
<1>1. st' = [st EXCEPT ![p] = S] /\ counted' = [counted EXCEPT ![p] = FALSE] /\ ProcTypes
  BY DEF EndTransaction, Goto, TypeInv
<1>2. st'[p] = S /\ \A q \in Proc \ {p} : st'[q] = st[q]
  BY <1>1, NotMine
<1>3. ~counted'[p] /\ \A q \in Proc \ {p} : counted'[q] = counted[q]
  BY <1>1 DEF ProcTypes
<1>4. CacheInv(p)'
  BY <1>2, <1>3 DEF CacheInv
<1>5. ProcInv(p)'
  <2>1. st'[p] \notin Live \cup {"WRITER_LOCKED", "UNDO", "PLAYBACK"}
    BY <1>2, PlainStates
  <2> QED BY <1>4, <2>1, PlainProc
<1> QED BY <1>2, <1>3, <1>5, WriterStep

(* What a rollback reads from the journal, and makes of the cache. *)
LEMMA UndoneFacts ==
  ASSUME TypeInv, PagerInv, NEW p \in Proc, st[p] \in Live,
         cache' = [cache EXCEPT ![p] = Over(Undone, @)],
         vers' = [vers EXCEPT ![p] = IF 1 \in DOMAIN Undone THEN Undone[1] ELSE @]
  PROVE  /\ DOMAIN Undone = w.inJournal /\ Honest(Undone, com)
         /\ \A q \in Proc \ {p} : cache'[q] = cache[q] /\ vers'[q] = vers[q]
         /\ \A pg \in Page : cache'[p][pg] \in {None, com[pg]}
         /\ vers'[p] = com[1]
<1>1. DOMAIN Undone = w.inJournal /\ Honest(Undone, com)
  <2>1. CASE st[p] \in Building
    <3>1. Plays(jrnl.slot, w.hdr, com, w.inJournal)
      BY <2>1, JournalCounts, JournalWhole
    <3> QED BY <3>1 DEF Plays, Undone
  <2>2. CASE st[p] \in Closing
    <3>1. Plays(jrnl.slot, w.hdr, com, w.inJournal)
      BY <2>2, CloseFacts
    <3> QED BY <3>1 DEF Plays, Undone
  <2> QED BY <2>1, <2>2 DEF Live
<1>2. /\ \A q \in Proc \ {p} : cache'[q] = cache[q]
      /\ \A pg \in Page : cache'[p][pg] = IF pg \in DOMAIN Undone THEN Undone[pg] ELSE cache[p][pg]
  BY UndoneTypes
<1>3. vers'[p] = (IF 1 \in DOMAIN Undone THEN Undone[1] ELSE vers[p]) /\ \A q \in Proc \ {p} : vers'[q] = vers[q]
  BY DEF TypeInv, ProcTypes
<1>4. /\ \A pg \in Page \ w.inJournal : cache[p][pg] \in {None, com[pg]}
      /\ 1 \notin w.inJournal => vers[p] = com[1]
  BY LiveFacts
<1>5. \A pg \in Page : cache'[p][pg] \in {None, com[pg]}
  BY <1>1, <1>2, <1>4 DEF Honest
<1>6. vers'[p] = com[1]
  BY <1>1, <1>3, <1>4 DEF Honest
<1> QED BY <1>1, <1>2, <1>3, <1>5, <1>6

LEMMA RollbackCacheKeeps ==
  ASSUME TypeInv, TypeInv', PagerInv, NEW p \in Proc, NEW m \in Modes, RollbackCache(p, m)
  PROVE  PagerInv'
<1>1. /\ st[p] = "WRITER_CACHEMOD" \/ (st[p] \in Syncing /\ w.hdr = 1)
      /\ cache' = [cache EXCEPT ![p] = Over(Undone, @)]
      /\ vers' = [vers EXCEPT ![p] = IF 1 \in DOMAIN Undone THEN Undone[1] ELSE @]
      /\ Finalize(m, FALSE) /\ EndTransaction(p, "READER")
      /\ UNCHANGED <<db, dbLoss, txn, com>>
  BY DEF RollbackCache, SyncFailed, Syncing
<1>2. st[p] \in Live /\ st[p] \in Building
  BY <1>1 DEF Live, Building
<1>3. /\ w.proc = p /\ FilesInv /\ FileTypes /\ FileTypes' /\ w.off # 0 /\ jrnl.here /\ com[1] \in Nat
  <2>1. w.off # 0
    BY <1>2, WritingFacts
  <2> QED BY <1>2, <2>1, WritingFacts, StepFacts, LiveFacts, SectorTypes DEF PagerInv, TypeInv, FileTypes
<1>4. w.hdr = 1
  BY <1>1, <1>2, BuildFacts
<1>5. Synced = {}
  <2>1. Before(jrnl.slot, 1, com, Synced) /\ Before(jrnl.slot, 1, com, {})
    BY <1>2, <1>4, BuildFacts, FirstHeader
  <2> QED BY <2>1 DEF Before
<1>6. Settled(dbLoss, com)
  BY <1>2, <1>5, LiveFacts DEF Settled
<1>7. /\ Safe(jrnl.slot, jDisk, dbLoss, com) /\ \A g \in ghosts : Safe(g.slot, g.disk, dbLoss, g.com)
      /\ \A pg \in Page : db[pg] \in dbLoss[pg]
  BY <1>3 DEF FilesInv
<1>8. FilesInv' /\ ~HasMagic(jrnl'.slot[1])
  BY <1>1, <1>3, <1>6, <1>7, FinalizeKeeps
<1>9. /\ \A q \in Proc \ {p} : cache'[q] = cache[q] /\ vers'[q] = vers[q]
      /\ \A pg \in Page : cache'[p][pg] \in {None, com[pg]}
      /\ vers'[p] = com[1]
  BY <1>1, <1>2, UndoneFacts
<1>10. vers'[p] <= com[1] /\ com' = com
  BY <1>1, <1>3, <1>9
<1> QED BY <1>1, <1>3, <1>8, <1>9, <1>10, EndKeeps

LEMMA CommitKeeps ==
  ASSUME TypeInv, TypeInv', PagerInv, NEW p \in Proc, NEW m \in Modes, Commit(p, m)
  PROVE  PagerInv'
<1>1. /\ st[p] = "WRITER_FINISHED" /\ Finalize(m, FALSE) /\ EndTransaction(p, "READER")
      /\ com' = [pg \in Page |-> IF pg \in w.inJournal THEN cache[p][pg] ELSE com[pg]]
      /\ UNCHANGED <<db, dbLoss, cache, vers, txn>>
  BY DEF Commit
<1>2. st[p] \in Live /\ st[p] \in Closing /\ st[p] # "WRITER_CACHEMOD"
  BY <1>1 DEF Live, Closing
<1>3. /\ w.proc = p /\ FilesInv /\ FileTypes /\ FileTypes' /\ w.off # 0 /\ jrnl.here /\ com[1] \in Nat
      /\ lock[p] = EXCLUSIVE_LOCK /\ 1 \in Page /\ w.inJournal \subseteq Page /\ ProcTypes
  <2>1. w.off # 0
    BY <1>2, WritingFacts
  <2> QED BY <1>2, <2>1, WritingFacts, StepFacts, LiveFacts, JournalFields, SectorTypes DEF PagerInv, TypeInv, FileTypes
<1>4. /\ w.needSync = {} /\ counted[p] /\ w.dirty = {} /\ ghosts = {}
      /\ \A pg \in Page : dbLoss[pg] = {db[pg]}
  BY <1>1, <1>2, CloseFacts
<1>5. Synced = w.inJournal
  BY <1>4 DEF Synced
<1>6. \A pg \in Page : com'[pg] = db[pg]
  BY <1>1, <1>2, <1>4, <1>5, LiveFacts
<1>7. Settled(dbLoss, com')
  BY <1>4, <1>6 DEF Settled
<1>8. /\ Safe(jrnl.slot, jDisk, dbLoss, com) /\ \A pg \in Page : db[pg] \in dbLoss[pg]
  BY <1>3 DEF FilesInv
<1>9. FilesInv' /\ ~HasMagic(jrnl'.slot[1])
  BY <1>1, <1>3, <1>4, <1>7, <1>8, FinalizeKeeps
<1>10. com'[1] = com[1] + 1 /\ vers[p] = com[1] + 1
  BY <1>1, <1>2, <1>3, <1>4, LiveFacts
<1>11. \A pg \in Page : cache[p][pg] \in {None, com'[pg]}
  BY <1>1, <1>2, LiveFacts
<1>12. /\ st' = [st EXCEPT ![p] = "READER"] /\ counted' = [counted EXCEPT ![p] = FALSE]
  BY <1>1 DEF EndTransaction, Goto
<1>13. st'[p] = "READER" /\ \A q \in Proc \ {p} : st'[q] = st[q]
  BY <1>3, <1>12, NotMine
<1>14. ~counted'[p] /\ \A q \in Proc \ {p} : counted'[q] = counted[q]
  BY <1>3, <1>12 DEF ProcTypes
<1>15. ProcInv(p)'
  <2>1. vers'[p] = com'[1] /\ vers'[p] <= com'[1]
    BY <1>1, <1>3, <1>10
  <2>2. CacheInv(p)'
    BY <1>1, <1>9, <1>11, <1>13, <1>14, <2>1 DEF CacheInv
  <2>3. st'[p] \notin Live \cup {"WRITER_LOCKED", "UNDO", "PLAYBACK"}
    BY <1>13, PlainStates DEF Sharing
  <2> QED BY <2>2, <2>3, PlainProc
<1>16. ASSUME NEW q \in Proc, q # p PROVE ProcInv(q)'
  <2>1. st[q] = "OPEN"
    <3>1. Alone(p, q) /\ Locked(q)
      BY <1>16 DEF TypeInv, LockInv
    <3> QED BY <1>3, <3>1 DEF Alone, Locked
  <2>2. st'[q] = "OPEN" /\ cache'[q] = cache[q] /\ vers'[q] = vers[q] /\ counted'[q] = counted[q]
    BY <1>1, <1>13, <1>14, <1>16, <2>1
  <2>3. CacheInv(q) /\ vers[q] \in Nat
    BY <1>3 DEF PagerInv, ProcInv, ProcTypes
  <2>4. cache[q][1] # None => vers[q] <= com[1]
    BY <2>1, <2>3, PlainStates DEF CacheInv
  <2>5. cache[q][1] # None => vers[q] <= com'[1] /\ vers[q] # com'[1]
    BY <1>3, <1>10, <2>3, <2>4
  <2>6. ~counted[q]
    BY <2>1, <2>3, PlainStates DEF CacheInv
  <2>7. CacheInv(q)'
    BY <2>2, <2>5, <2>6 DEF CacheInv
  <2> QED BY <2>2, <2>7, PlainStates, PlainProc
<1> QED BY <1>9, <1>15, <1>16 DEF PagerInv

LEMMA RollbackKeeps ==
  ASSUME TypeInv, PagerInv, NEW p \in Proc, Rollback(p)
  PROVE  PagerInv'
<1>1. /\ st[p] \in Live \ {"WRITER_CACHEMOD"}
      /\ cache' = [cache EXCEPT ![p] = Over(Undone, @)]
      /\ vers' = [vers EXCEPT ![p] = IF 1 \in DOMAIN Undone THEN Undone[1] ELSE @]
      /\ st' = [st EXCEPT ![p] = "UNDO"] /\ UNCHANGED <<files, lock, counted, txn, com>>
      /\ \E t \in Undo : /\ DOMAIN t = DOMAIN Undone \ w.needSync
                         /\ \A pg \in DOMAIN t : t[pg] = Undone[pg]
                         /\ w' = WriterOf(p, w.off, w.hdr, w.inJournal, w.needSync, w.dirty, t, w.fin)
  BY RollbackShape
<1>2. PICK t \in Undo : /\ DOMAIN t = DOMAIN Undone \ w.needSync
                        /\ \A pg \in DOMAIN t : t[pg] = Undone[pg]
                        /\ w' = WriterOf(p, w.off, w.hdr, w.inJournal, w.needSync, w.dirty, t, w.fin)
  BY <1>1
<1>3. /\ w.proc = p /\ FilesInv /\ ProcTypes /\ w.off > 0 /\ jrnl.here /\ com[1] \in Nat
  <2>1. w.off > 0
    BY <1>1, WritingFacts
  <2> QED BY <1>1, <2>1, WritingFacts, StepFacts, LiveFacts, SectorTypes DEF PagerInv, FileTypes
<1>4. /\ DOMAIN Undone = w.inJournal /\ Honest(Undone, com)
      /\ \A q \in Proc \ {p} : cache'[q] = cache[q] /\ vers'[q] = vers[q]
      /\ \A pg \in Page : cache'[p][pg] \in {None, com[pg]}
      /\ vers'[p] = com[1]
  BY <1>1, UndoneFacts
<1>5. w'.todo = t /\ w'.off = w.off
  BY <1>2 DEF WriterOf
<1>6. st'[p] = "UNDO" /\ \A q \in Proc \ {p} : st'[q] = st[q]
  <2>1. ProcTypes /\ st' = [st EXCEPT ![p] = "UNDO"]
    BY <1>1, <1>3
  <2> QED BY <2>1, NotMine
<1>7. /\ db' = db /\ jrnl' = jrnl /\ com' = com /\ counted' = counted
  BY <1>1 DEF files
<1>8. DOMAIN t = Synced /\ Honest(t, com)
  BY <1>2, <1>4 DEF Synced, Honest
<1>9. OtherInv(p)'
  <2>1. \A pg \in Page \ DOMAIN t : db[pg] = com[pg]
    BY <1>1, <1>8, LiveFacts
  <2> QED BY <1>3, <1>5, <1>6, <1>7, <1>8, <2>1 DEF OtherInv
<1>10. CacheInv(p)'
  <2>1. vers'[p] <= com[1]
    BY <1>3, <1>4
  <2> QED BY <1>4, <1>6, <1>7, <2>1 DEF CacheInv
<1>11. ProcInv(p)'
  BY <1>6, <1>9, <1>10, PlainStates DEF ProcInv, LiveInv, BuildInv, CloseInv, Live
<1>12. FilesInv'
  BY <1>1, <1>3 DEF files, FilesInv
<1> QED BY <1>1, <1>3, <1>4, <1>6, <1>7, <1>11, <1>12, WriterStep

LEMMA PlaybackPageKeeps ==
  ASSUME TypeInv, PagerInv, NEW p \in Proc, NEW pg \in Page, PlaybackPage(p, pg)
  PROVE  PagerInv'
<1>1. /\ st[p] \in {"PLAYBACK", "UNDO"} /\ pg \in DOMAIN w.todo /\ w.todo[pg] \in Nat
      /\ db' = [db EXCEPT ![pg] = w.todo[pg]] /\ dbLoss' = [dbLoss EXCEPT ![pg] = @ \cup {w.todo[pg]}]
      /\ UNCHANGED <<jrnl, jDisk, ghosts, procs, txn, com>>
      /\ w.proc = p /\ lock[p] = EXCLUSIVE_LOCK
      /\ \E t \in Undo : /\ DOMAIN t = DOMAIN w.todo \ {pg}
                         /\ \A q \in DOMAIN t : t[q] = w.todo[q]
                         /\ w' = WriterOf(p, w.off, w.hdr, w.inJournal, w.needSync, w.dirty, t, w.fin)
  BY PlaybackPageShape
<1>2. PICK t \in Undo : /\ DOMAIN t = DOMAIN w.todo \ {pg}
                        /\ \A q \in DOMAIN t : t[q] = w.todo[q]
                        /\ w' = WriterOf(p, w.off, w.hdr, w.inJournal, w.needSync, w.dirty, t, w.fin)
  BY <1>1
<1>3. /\ FilesInv /\ OtherInv(p) /\ CacheInv(p) /\ db \in [Page -> Nat] /\ dbLoss \in [Page -> SUBSET Nat]
  BY DEF PagerInv, ProcInv, TypeInv, FileTypes
<1>4. /\ jrnl.here /\ Honest(w.todo, com) /\ \A q \in Page \ DOMAIN w.todo : db[q] = com[q]
      /\ st[p] = "UNDO" => w.off > 0
      /\ st[p] = "PLAYBACK" => jDisk = jrnl.slot /\ (w.off = 0 <=> ~HasMagic(jrnl.slot[1]))
  BY <1>1, <1>3 DEF OtherInv
<1>5. w.todo[pg] = com[pg]
  BY <1>1, <1>4 DEF Honest
<1>6. /\ db'[pg] = com[pg] /\ dbLoss'[pg] = dbLoss[pg] \cup {com[pg]}
      /\ \A q \in Page \ {pg} : db'[q] = db[q] /\ dbLoss'[q] = dbLoss[q]
  BY <1>1, <1>3, <1>5
<1>7. w'.todo = t /\ w'.off = w.off
  BY <1>2 DEF WriterOf
<1>8. /\ jrnl' = jrnl /\ jDisk' = jDisk /\ ghosts' = ghosts /\ txn' = txn /\ com' = com
      /\ lock' = lock /\ st' = st /\ cache' = cache /\ vers' = vers /\ counted' = counted
  BY <1>1 DEF procs
<1>9. Settled(dbLoss, com) => \A q \in Page : dbLoss'[q] = dbLoss[q]
  BY <1>6 DEF Settled
<1>10. Safe(jrnl.slot, jDisk, dbLoss', com)
  <2>1. Safe(jrnl.slot, jDisk, dbLoss, com)
    BY <1>3, <1>4 DEF FilesInv
  <2>2. \A q \in Page : dbLoss[q] = {com[q]} => dbLoss'[q] = {com[q]}
    BY <1>6
  <2> QED BY <2>1, <2>2 DEF Safe
<1>11. ~jrnl.durable \/ ghosts # {} => Settled(dbLoss, com)
  BY <1>3 DEF FilesInv
<1>12. ASSUME NEW g \in ghosts PROVE Safe(g.slot, g.disk, dbLoss', g.com)
  <2>1. Safe(g.slot, g.disk, dbLoss, g.com)
    BY <1>3 DEF FilesInv
  <2>2. \A q \in Page : dbLoss'[q] = dbLoss[q]
    BY <1>9, <1>11
  <2> QED BY <2>1, <2>2, SafeEqual
<1>13. FilesInv'
  <2>1. \A q \in Page : db'[q] \in dbLoss'[q]
    BY <1>3, <1>6 DEF FilesInv
  <2>2. ~jrnl.durable \/ ghosts # {} => Settled(dbLoss', com)
    BY <1>9, <1>11 DEF Settled
  <2> QED BY <1>3, <1>4, <1>8, <1>10, <1>12, <2>1, <2>2 DEF FilesInv
<1>14. OtherInv(p)'
  <2>1. Honest(t, com) /\ \A q \in Page \ DOMAIN t : db'[q] = com[q]
    BY <1>2, <1>4, <1>6 DEF Honest
  <2> QED BY <1>1, <1>4, <1>7, <1>8, <2>1 DEF OtherInv
<1>15. CacheInv(p)'
  BY <1>3, <1>8 DEF CacheInv
<1>16. ProcInv(p)'
  BY <1>1, <1>8, <1>14, <1>15, PlainStates DEF ProcInv, LiveInv, BuildInv, CloseInv, Live
<1> QED BY <1>1, <1>8, <1>13, <1>16, WriterStep

LEMMA PlaybackEndKeeps ==
  ASSUME TypeInv, TypeInv', PagerInv, NEW p \in Proc, NEW m \in Modes, PlaybackEnd(p, m)
  PROVE  PagerInv'
<1> DEFINE S == IF st[p] = "UNDO" THEN "READER" ELSE "CHECKED"
           hot == st[p] = "PLAYBACK"
<1>1. /\ st[p] \in {"PLAYBACK", "UNDO"} /\ DOMAIN w.todo = {}
      /\ dbLoss' = [pg \in Page |-> {db[pg]}] /\ db' = db
      /\ Finalize(m, hot) /\ EndTransaction(p, S) /\ UNCHANGED <<cache, vers, txn, com>>
  BY DEF PlaybackEnd, SyncDb
<1>2. hot \in BOOLEAN /\ S \in {"READER", "CHECKED"} /\ (S = "READER" => st[p] = "UNDO")
  OBVIOUS
<1> HIDE DEF S, hot
<1>3. /\ FilesInv /\ OtherInv(p) /\ CacheInv(p) /\ FileTypes /\ FileTypes'
  BY DEF PagerInv, ProcInv, TypeInv
<1>4. /\ jrnl.here /\ \A q \in Page : db[q] = com[q]
      /\ st[p] = "UNDO" => w.off > 0
      /\ st[p] = "PLAYBACK" => jDisk = jrnl.slot /\ (w.off = 0 <=> ~HasMagic(jrnl.slot[1]))
  BY <1>1, <1>3 DEF OtherInv
<1>5. w.proc = p
  BY <1>1, Owner DEF TypeInv
<1>6. w.off = 0 => ~HasMagic(jrnl.slot[1]) /\ jDisk = jrnl.slot
  BY <1>1, <1>4
<1>7. (\A q \in Page : dbLoss'[q] = {com[q]}) /\ Settled(dbLoss', com) /\ \A q \in Page : db'[q] \in dbLoss'[q]
  BY <1>1, <1>4 DEF Settled
<1>8. Safe(jrnl.slot, jDisk, dbLoss', com)
  <2>1. Safe(jrnl.slot, jDisk, dbLoss, com)
    BY <1>3, <1>4 DEF FilesInv
  <2> QED BY <1>7, <2>1, SafeSettled
<1>9. ASSUME NEW g \in ghosts PROVE Safe(g.slot, g.disk, dbLoss', g.com)
  <2>1. Safe(g.slot, g.disk, dbLoss, g.com) /\ Settled(dbLoss, com)
    BY <1>3 DEF FilesInv
  <2>2. \A q \in Page : dbLoss'[q] = dbLoss[q]
    BY <1>7, <2>1 DEF Settled
  <2> QED BY <2>1, <2>2, SafeEqual
<1>10. com' = com /\ txn' = txn /\ cache' = cache /\ vers' = vers
  BY <1>1
<1>11. FilesInv' /\ ~HasMagic(jrnl'.slot[1])
  BY <1>1, <1>2, <1>3, <1>4, <1>6, <1>7, <1>8, <1>9, <1>10, FinalizeKeeps
<1>12. /\ cache[p][1] # None =>
            /\ vers[p] <= com[1]
            /\ vers[p] = com[1] => \A pg \in Page : cache[p][pg] \in {None, com[pg]}
       /\ S = "READER" => vers[p] = com[1]
  BY <1>1, <1>2, <1>3, PlainStates DEF CacheInv
<1> QED BY <1>1, <1>2, <1>5, <1>10, <1>11, <1>12, EndKeeps

-------------------------------------------------------------------------------
(* A loss of power. *)

LEMMA PowerLossKeeps ==
  ASSUME TypeInv, TypeInv', PagerInv, PowerLoss
  PROVE  PagerInv'
<1>1. /\ jDisk' = jrnl'.slot /\ dbLoss' = [pg \in Page |-> {db'[pg]}] /\ ghosts' = {} /\ txn' = txn
      /\ \A pg \in Page : db'[pg] \in dbLoss[pg]
      /\ st' = [p \in Proc |-> "OPEN"] /\ cache' = [p \in Proc |-> [pg \in Page |-> None]]
      /\ counted' = [p \in Proc |-> FALSE]
  BY DEF PowerLoss, SyncJrnl
<1>2. FileTypes /\ FilesInv /\ 1 \in Page
  BY SectorTypes DEF TypeInv, PagerInv
<1>3. jrnl.slot \in Slots /\ jDisk \in Slots /\ txn \in Nat
  BY <1>2, JournalFields DEF FileTypes
<1>4. ASSUME NEW q \in Proc PROVE ProcInv(q)'
  <2>1. st'[q] = "OPEN" /\ cache'[q][1] = None /\ ~counted'[q]
    BY <1>1, <1>2
  <2>2. CacheInv(q)'
    BY <2>1 DEF CacheInv
  <2> QED BY <2>1, <2>2, PlainStates, PlainProc
<1>5. \A pg \in Page : dbLoss'[pg] = {db'[pg]} /\ db'[pg] \in dbLoss[pg] /\ db'[pg] \in dbLoss'[pg]
  BY <1>1
<1>6. Settled(dbLoss, com) => Settled(dbLoss', com)
  BY <1>5 DEF Settled
<1>7. FilesInv'
  <2>1. CASE ~jrnl.durable /\ jrnl' = NoJournal /\ com' = com
    <3>1. jrnl'.here = FALSE /\ jrnl'.slot = Empty /\ jDisk' = Empty
      BY <1>1, <2>1 DEF NoJournal
    <3>2. Settled(dbLoss', com)
      BY <1>2, <1>6, <2>1 DEF FilesInv
    <3>3. Sound(Empty, Empty, txn)
      BY <1>3, EmptySound
    <3> QED BY <1>1, <1>5, <2>1, <3>1, <3>2, <3>3 DEF FilesInv
  <2>2. CASE /\ com' = com
             /\ \E m \in Mixes(jrnl.slot, jDisk) :
                  jrnl' = [here |-> jrnl.here, durable |-> TRUE, slot |-> m]
    <3>1. PICK m \in Mixes(jrnl.slot, jDisk) : jrnl' = [here |-> jrnl.here, durable |-> TRUE, slot |-> m]
      BY <2>2
    <3>2. jrnl'.slot = m /\ jDisk' = m /\ jrnl'.here = jrnl.here /\ jrnl'.durable = TRUE
      BY <1>1, <3>1
    <3>3. Sound(m, m, txn)
      BY <1>2, <1>3, SoundMix DEF FilesInv
    <3>4. CASE jrnl.here
      <4>1. Safe(m, m, dbLoss', com)
        BY <1>2, <1>3, <1>5, <3>4, SafeMix DEF FilesInv
      <4> QED BY <1>1, <1>5, <2>2, <3>2, <3>3, <3>4, <4>1 DEF FilesInv
    <3>5. CASE ~jrnl.here
      <4>1. jrnl = NoJournal /\ jDisk = Empty /\ Settled(dbLoss, com)
        BY <1>2, <3>5 DEF FilesInv
      <4>2. jrnl.slot = Empty /\ jrnl.here = FALSE
        BY <4>1 DEF NoJournal
      <4>3. m = Empty
        BY <1>3, <4>1, <4>2, MixSame
      <4>4. jrnl' = NoJournal /\ jDisk' = Empty
        BY <3>1, <3>2, <4>2, <4>3 DEF NoJournal
      <4> QED BY <1>1, <1>5, <1>6, <2>2, <3>2, <3>3, <3>5, <4>1, <4>4 DEF FilesInv
    <3> QED BY <3>4, <3>5
  <2>3. ASSUME NEW g \in ghosts, com' = g.com,
               \E m \in Mixes(g.slot, g.disk) : jrnl' = [here |-> TRUE, durable |-> TRUE, slot |-> m]
        PROVE  FilesInv'
    <3>1. PICK m \in Mixes(g.slot, g.disk) : jrnl' = [here |-> TRUE, durable |-> TRUE, slot |-> m]
      BY <2>3
    <3>2. jrnl'.slot = m /\ jDisk' = m /\ jrnl'.here = TRUE /\ jrnl'.durable = TRUE
      BY <1>1, <3>1
    <3>3. g.slot \in Slots /\ g.disk \in Slots
      BY <1>2 DEF FileTypes, Ghosts
    <3>4. Safe(g.slot, g.disk, dbLoss, g.com) /\ Sound(g.slot, g.disk, txn)
      BY <1>2 DEF FilesInv
    <3>5. Sound(m, m, txn)
      BY <3>3, <3>4, SoundMix
    <3>6. Safe(m, m, dbLoss', g.com)
      BY <1>5, <3>3, <3>4, SafeMix
    <3> QED BY <1>1, <1>5, <2>3, <3>2, <3>5, <3>6 DEF FilesInv
  <2> QED BY <1>2, <2>1, <2>2, <2>3, PowerLossShape
<1> QED BY <1>4, <1>7 DEF PagerInv

LEMMA InitKeeps == Init => PagerInv
<1> SUFFICES ASSUME Init PROVE PagerInv
  OBVIOUS
<1>1. /\ \A pg \in Page : db[pg] = 0 /\ dbLoss[pg] = {0} /\ com[pg] = 0
      /\ jrnl = NoJournal /\ jDisk = Empty /\ ghosts = {} /\ txn = 0
      /\ \A p \in Proc : st[p] = "OPEN" /\ ~counted[p] /\ cache[p][1] = None
  BY SectorTypes DEF Init
<1>2. jrnl.here = FALSE /\ jrnl.slot = Empty
  BY <1>1 DEF NoJournal
<1>3. Sound(Empty, Empty, txn)
  BY <1>1, EmptySound
<1>4. Settled(dbLoss, com)
  BY <1>1 DEF Settled
<1>5. FilesInv
  BY <1>1, <1>2, <1>3, <1>4 DEF FilesInv
<1>6. ASSUME NEW p \in Proc PROVE ProcInv(p)
  <2>1. CacheInv(p)
    BY <1>1 DEF CacheInv
  <2>2. LiveInv(p) /\ BuildInv(p) /\ CloseInv(p) /\ OtherInv(p)
    BY <1>1 DEF LiveInv, BuildInv, CloseInv, OtherInv, Live, Building, Syncing, Closing
  <2> QED BY <2>1, <2>2 DEF ProcInv
<1> QED BY <1>5, <1>6 DEF PagerInv

LEMMA StutterKeeps ==
  ASSUME TypeInv, PagerInv, UNCHANGED vars
  PROVE  PagerInv'
<1>1. UNCHANGED <<files, w, txn, com>> /\ st' = st /\ cache' = cache /\ vers' = vers /\ counted' = counted
  BY DEF vars, procs
<1>2. ASSUME NEW q \in Proc PROVE ProcInv(q)'
  BY <1>1, SameProc
<1>3. FilesInv'
  BY <1>1 DEF files, PagerInv, FilesInv
<1> QED BY <1>2, <1>3 DEF PagerInv

LEMMA NextKeeps ==
  ASSUME Ordered, TypeInv, TypeInv', PagerInv, [Next]_vars
  PROVE  PagerInv'
<1>0. Data \subseteq Page
  BY DEF Page
<1>1. ASSUME NEW p \in Proc, ReadStep(p) PROVE PagerInv'
  <2>1. CASE \/ SharedLock(p) \/ JournalExists(p) \/ CheckReserved(p) \/ FirstByte(p)
             \/ HotLock(p) \/ HotRecheck(p) \/ Validate(p)
    BY <2>1, SharedLockKeeps, JournalExistsKeeps, CheckReservedKeeps, FirstByteKeeps,
       HotLockKeeps, HotRecheckKeeps, ValidateKeeps
  <2>2. CASE \E pg \in Data : Read(p, pg)
    BY <1>0, <2>2, ReadKeeps
  <2> QED BY <1>1, <2>1, <2>2 DEF ReadStep
<1>2. ASSUME NEW p \in Proc, WriteStep(p) PROVE PagerInv'
  <2>1. CASE Begin(p) \/ IncrChangeCounter(p) \/ JournalHdr(p) \/ JournalSync(p)
    BY <2>1, BeginKeeps, IncrKeeps, JournalHdrKeeps, JournalSyncKeeps
  <2>2. CASE CommitSync(p) \/ EndUnused(p) \/ Rollback(p)
    BY <2>2, CommitSyncKeeps, EndUnusedKeeps, RollbackKeeps
  <2>3. CASE \E pg \in Data : Write(p, pg)
    BY <2>3, WriteKeeps
  <2>4. CASE \E fin \in BOOLEAN, full \in FullSync : SyncJournal(p, fin, full)
    BY <2>4, SyncJournalKeeps
  <2>5. CASE \E pg \in Page : WritePage(p, pg)
    BY <2>5, WritePageKeeps
  <2>6. CASE \E m \in Modes : Commit(p, m) \/ RollbackCache(p, m)
    BY <2>6, CommitKeeps, RollbackCacheKeeps
  <2> QED BY <1>2, <2>1, <2>2, <2>3, <2>4, <2>5, <2>6 DEF WriteStep
<1>3. ASSUME NEW p \in Proc, EndStep(p) PROVE PagerInv'
  BY <1>3, PlaybackPageKeeps, PlaybackEndKeeps DEF EndStep
<1>4. ASSUME NEW p \in Proc, UnlockError(p) \/ Crash(p) PROVE PagerInv'
  BY <1>4, ForgetKeeps DEF UnlockError, Crash
<1>5. CASE UNCHANGED vars
  BY <1>5, StutterKeeps
<1> QED BY <1>1, <1>2, <1>3, <1>4, <1>5, UnlockKeeps, ExclusiveLockKeeps, IoErrorKeeps, PowerLossKeeps DEF Next

LEMMA AlwaysInv ==
  ASSUME Ordered
  PROVE  SafeSpec => []PagerInv
<1>1. TypeInv /\ TypeInv' /\ PagerInv /\ [Next]_vars => PagerInv'
  BY NextKeeps
<1> QED BY <1>1, InitKeeps, AlwaysTypes, PTL DEF SafeSpec

LEMMA RecoverableFact ==
  ASSUME TypeInv, PagerInv
  PROVE  Recoverable
<1>1. FileTypes /\ FilesInv
  BY DEF TypeInv, PagerInv
<1>2. db \in [Page -> Nat] /\ com \in [Page -> Nat] /\ jrnl.slot \in Slots /\ jDisk \in Slots
  BY <1>1, JournalFields DEF FileTypes
<1>3. CASE jrnl.here
  <2> DEFINE u == Playback(jrnl.slot, 0)
  <2>1. /\ Honest(u, com)
        /\ \A pg \in Page \ DOMAIN u : dbLoss[pg] = {com[pg]}
    BY <1>1, <1>2, <1>3, SafeUse DEF FilesInv
  <2>2. u \in Undo
    BY <1>2, PlaybackType
  <2> HIDE DEF u
  <2>3. /\ Over(u, db) \in [Page -> Nat]
        /\ \A pg \in Page : Over(u, db)[pg] = IF pg \in DOMAIN u THEN u[pg] ELSE db[pg]
    BY <1>2, <2>2, OverType
  <2>4. ASSUME NEW pg \in Page PROVE Over(u, db)[pg] = com[pg]
    <3>1. CASE pg \in DOMAIN u
      BY <2>1, <2>3, <3>1 DEF Honest
    <3>2. CASE pg \notin DOMAIN u
      <4>1. db[pg] \in dbLoss[pg] /\ dbLoss[pg] = {com[pg]}
        BY <1>1, <2>1, <3>2 DEF FilesInv
      <4>2. Over(u, db)[pg] = db[pg]
        BY <2>3, <3>2
      <4> QED BY <4>1, <4>2
    <3> QED BY <3>1, <3>2
  <2>5. Over(u, db) = com
    BY <1>2, <2>3, <2>4
  <2> QED BY <1>3, <2>5 DEF Recoverable, Recovered, u
<1>4. CASE ~jrnl.here
  <2>1. \A pg \in Page : db[pg] = com[pg]
    BY <1>1, <1>4, GoneCold, ColdFacts
  <2>2. db = com
    BY <1>2, <2>1
  <2> QED BY <1>4, <2>2 DEF Recoverable, Recovered
<1> QED BY <1>3, <1>4

LEMMA SnapshotFact ==
  ASSUME TypeInv, PagerInv
  PROVE  Snapshot
<1>1. db \in [Page -> Nat] /\ com \in [Page -> Nat]
  BY DEF TypeInv, FileTypes
<1>2. ASSUME NEW p \in Proc, st[p] \in {"READER", "WRITER_LOCKED"}
      PROVE  db = com /\ \A pg \in Page : cache[p][pg] \in {None, com[pg]}
  <2>1. \A pg \in Page : db[pg] = com[pg] /\ cache[p][pg] \in {None, com[pg]}
    BY <1>2, LockedFacts
  <2> QED BY <1>1, <2>1
<1> QED BY <1>2 DEF Snapshot

(* Atomic commit, for any number of processes, pages, transactions and        *)
(* sectors: after any interleaving of them, with deaths, errors and losses of *)
(* power at any step, what the files hold recovers to the last transaction    *)
(* that was committed.  Ordered leaves out one combination: a connection that *)
(* does not sync the records before the header that counts them, over a       *)
(* journal that is zeroed instead of cut.                                     *)
THEOREM Recovers == Ordered => (SafeSpec => []Recoverable)
<1> SUFFICES ASSUME Ordered PROVE SafeSpec => []Recoverable
  OBVIOUS
<1>1. TypeInv /\ PagerInv => Recoverable
  BY RecoverableFact
<1> QED BY <1>1, AlwaysTypes, AlwaysInv, PTL

(* A read transaction, and a write transaction that has written nothing, has  *)
(* under it the file as the last commit left it, and in its cache pages of    *)
(* that commit only: no hot journal is overlooked and no stale page kept.     *)
THEOREM ReadersSeeCommits == Ordered => (SafeSpec => []Snapshot)
<1> SUFFICES ASSUME Ordered PROVE SafeSpec => []Snapshot
  OBVIOUS
<1>1. TypeInv /\ PagerInv => Snapshot
  BY SnapshotFact
<1> QED BY <1>1, AlwaysTypes, AlwaysInv, PTL

===============================================================================
