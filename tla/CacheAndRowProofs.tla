--------------------------- MODULE CacheAndRowProofs ---------------------------
(***************************************************************************)
(* The two users of the label store, for any labels, policy and bounds:    *)
(* where a cached decision can be stale (AccessVectorCache), and that a    *)
(* row keeps the label that was registered for it and is filtered by that  *)
(* label, asked of SELinux or remembered (RowLevel).                       *)
(***************************************************************************)
EXTENDS RowLevel, LabelStoreProofs

-------------------------------------------------------------------------------
(* The access vector cache *)

(* Division with remainder is unique; compress shifts by 5 and by 8 bits. *)
LEMMA Digits256 ==
  ASSUME NEW x \in Int, NEW y \in Int, NEW i \in Int, NEW j \in Int,
         0 <= x, x <= 255, 0 <= y, y <= 255, x + i * 256 = y + j * 256
  PROVE  i = j /\ x = y
  OBVIOUS

LEMMA Digits32 ==
  ASSUME NEW x \in Int, NEW y \in Int, NEW i \in Int, NEW j \in Int,
         0 <= x, x <= 31, 0 <= y, y <= 31, x + i * 32 = y + j * 32
  PROVE  i = j /\ x = y
  OBVIOUS

(* compress gives different keys to different questions of one subject. *)
LEMMA KeyInjective ==
  ASSUME NEW i \in Ids, NEW j \in Ids, NEW cp \in ClassPerm, NEW cq \in ClassPerm,
         AvcKey(i, cp) = AvcKey(j, cq)
  PROVE  i = j /\ cp = cq
<1>1. PICK c \in 0..7, p \in 0..31 : cp = <<c, p>>
  BY ClassAssumption
<1>2. PICK d \in 0..7, q \in 0..31 : cq = <<d, q>>
  BY ClassAssumption
<1>3. /\ i \in Int /\ 0 <= i /\ i <= 65535
      /\ j \in Int /\ 0 <= j /\ j <= 65535
  BY WidthAssumption, BoundAssumption DEF Ids
<1>4. i % 65536 = i /\ j % 65536 = j
  BY <1>3
<1>5. /\ c \in Int /\ 0 <= c /\ c <= 7 /\ p \in Int /\ 0 <= p /\ p <= 31
      /\ d \in Int /\ 0 <= d /\ d <= 7 /\ q \in Int /\ 0 <= q /\ q <= 31
  OBVIOUS
<1>6. (p + c * 32) + i * 256 = (q + d * 32) + j * 256
  <2> DEFINE s == (SconId % 65536) * 1048576
  <2>1. s \in Int
    BY SubjectAssumption
  <2>2. p + c * 32 + i * 256 + s = q + d * 32 + j * 256 + s
    BY <1>1, <1>2, <1>4 DEF AvcKey, Compress
  <2> HIDE DEF s
  <2> QED BY <1>5, <1>3, <2>1, <2>2
<1>7. i = j /\ p + c * 32 = q + d * 32
  BY <1>3, <1>5, <1>6, Digits256
<1>8. c = d /\ p = q
  BY <1>5, <1>7, Digits32
<1> QED BY <1>1, <1>2, <1>7, <1>8

(* Every step of the cache is a step of the label store, or none. *)
LEMMA StoreStep == [CacheNext]_cacheVars => [Next]_vars
  BY DEF CacheNext, cacheVars, vars, Next, CacheOpenNew, CacheReopen, CacheCrash,
         UserWrite, CacheSavepoint, CacheRollback, ClearAvc, CacheRegister,
         CacheRelease, CacheRollbackTo, CheckAccess

(* The empty cache is sound. *)
LEMMA EmptySound ==
  ASSUME avc' = EmptyAvc
  PROVE  /\ avc' \in [AvcKeys -> {"none", "allow", "deny"}]
         /\ StaleOnlyInFlight'
<1>1. avc' \in [AvcKeys -> {"none", "allow", "deny"}]
  BY DEF EmptyAvc
<1>2. \A i \in Ids, cp \in ClassPerm : avc'[AvcKey(i, cp)] = "none"
  BY DEF EmptyAvc, AvcKeys
<1> QED BY <1>1, <1>2 DEF StaleOnlyInFlight, SoundAt

(* A step that keeps cache, mapping, and the transaction's starting point    *)
(* keeps the invariant, if the transaction is at least as much a writer.     *)
LEMMA KeptSound ==
  ASSUME StaleOnlyInFlight, avc' = avc, key2val' = key2val,
         saved # << >> => saved' # << >> /\ DiskLen' = DiskLen,
         wrote => wrote'
  PROVE  StaleOnlyInFlight'
  BY DEF StaleOnlyInFlight, SoundAt, AvcKey, Compress, Decide

(* The first savepoint survives as long as any does. *)
LEMMA FirstSaved ==
  ASSUME TypeInv, NEW k \in DOMAIN saved, k # 0
  PROVE  /\ SubSeq(saved, 1, k) # << >> /\ SubSeq(saved, 1, k)[1] = saved[1]
         /\ SubSeq(saved, 1, 0) = << >>
<1>1. saved \in Seq(0..MaxId)
  BY DEF TypeInv, TypeOK
<1>2. k \in Nat /\ 1 <= k /\ k <= Len(saved)
  BY <1>1
<1>3. Len(SubSeq(saved, 1, k)) = k /\ SubSeq(saved, 1, k)[1] = saved[1]
  BY <1>1, <1>2
<1>4. SubSeq(saved, 1, k) # << >>
  BY <1>2, <1>3
<1>5. SubSeq(saved, 1, 0) = << >>
  BY <1>1
<1> QED BY <1>3, <1>4, <1>5

(* A decision that is computed is about the label of its own id only. *)
LEMMA CheckAccessSound ==
  ASSUME CacheTypeOK, StaleOnlyInFlight,
         NEW i \in Ids \ {0}, NEW cp \in ClassPerm, CheckAccess(i, cp)
  PROVE  /\ avc' \in [AvcKeys -> {"none", "allow", "deny"}]
         /\ StaleOnlyInFlight'
<1>1. AvcKey(i, cp) \in AvcKeys
  BY DEF AvcKeys
<1>2. Decide(key2val[i], cp) \in {"allow", "deny"}
  BY DEF Decide
<1>3. avc' \in [AvcKeys -> {"none", "allow", "deny"}]
  BY <1>1, <1>2 DEF CheckAccess, CacheTypeOK
<1>4. /\ key2val' = key2val /\ saved' = saved /\ wrote' = wrote /\ table' = table
      /\ avc' = [avc EXCEPT ![AvcKey(i, cp)] = Decide(key2val[i], cp)]
  BY DEF CheckAccess
<1>5. SUFFICES ASSUME NEW j \in Ids \ {0}, NEW cq \in ClassPerm
               PROVE  (SoundAt(j, cq) \/ (saved # << >> /\ wrote /\ j > DiskLen))'
  BY <1>3 DEF StaleOnlyInFlight
<1>6. AvcKey(j, cq) \in AvcKeys
  BY DEF AvcKeys
<1>7. CASE AvcKey(j, cq) = AvcKey(i, cp)
  <2>1. i = j /\ cp = cq
    BY <1>7, KeyInjective
  <2>2. avc'[AvcKey(j, cq)] = Decide(key2val[j], cq)
    BY <1>1, <1>4, <2>1 DEF CacheTypeOK
  <2> QED BY <1>4, <2>2 DEF SoundAt
<1>8. CASE AvcKey(j, cq) # AvcKey(i, cp)
  <2>1. avc'[AvcKey(j, cq)] = avc[AvcKey(j, cq)]
    BY <1>4, <1>6, <1>8 DEF CacheTypeOK
  <2>2. DiskLen' = DiskLen
    BY <1>4 DEF DiskLen
  <2> QED BY <1>4, <2>1, <2>2 DEF StaleOnlyInFlight, SoundAt
<1> QED BY <1>7, <1>8

(* A label registered in a transaction takes an id above the disk's last. *)
LEMMA RegisterSound ==
  ASSUME TypeInv, CacheTypeOK, StaleOnlyInFlight,
         NEW l \in Label, Register(l), saved # << >>, avc' = avc, wrote' = TRUE
  PROVE  StaleOnlyInFlight'
<1> DEFINE n == Len(table) + 1
<1>1. /\ saved' = saved /\ key2val' = [key2val EXCEPT ![n] = l]
      /\ n \in Ids /\ n \in Nat
  BY BoundAssumption DEF Register, BihashInsert, Ids, TypeInv, TypeOK
<1>2. DiskLen' = DiskLen /\ DiskLen \in Nat /\ n > DiskLen
  <2>1. DiskLen' = DiskLen
    BY <1>1 DEF DiskLen
  <2>2. DiskLen \in 0..Len(table) /\ Len(table) \in Nat
    BY DiskPrefix DEF TypeInv, TypeOK
  <2> QED BY <2>1, <2>2
<1>3. SUFFICES ASSUME NEW j \in Ids \ {0}, NEW cq \in ClassPerm
               PROVE  (SoundAt(j, cq) \/ (saved # << >> /\ wrote /\ j > DiskLen))'
  BY DEF StaleOnlyInFlight
<1>4. CASE j = n
  BY <1>1, <1>2, <1>4
<1>5. CASE j # n
  <2>1. key2val'[j] = key2val[j]
    BY <1>1, <1>5 DEF TypeInv, TypeOK
  <2> QED BY <1>1, <1>2, <2>1 DEF StaleOnlyInFlight, SoundAt
<1> QED BY <1>4, <1>5

(* One case per action of the cache. *)
LEMMA CacheInvNext ==
  ASSUME TypeInv, TypeInv', CacheTypeOK, StaleOnlyInFlight, [CacheNext]_cacheVars
  PROVE  CacheTypeOK' /\ StaleOnlyInFlight'
<1> DEFINE CacheOK == /\ avc' \in [AvcKeys -> {"none", "allow", "deny"}]
                      /\ StaleOnlyInFlight'
<1>0. TypeOK' /\ TypeOK /\ avc \in [AvcKeys -> {"none", "allow", "deny"}] /\ wrote \in BOOLEAN
  BY DEF TypeInv, CacheTypeOK
<1>1. wrote' \in BOOLEAN
  BY <1>0 DEF CacheNext, cacheVars, CacheOpenNew, CacheReopen, CacheCrash, UserWrite,
     Written, CacheSavepoint, CacheRollback, ClearAvc, CacheRegister, CacheRelease,
     CacheRollbackTo, CheckAccess
<1>10. SUFFICES CacheOK
  BY <1>0, <1>1 DEF CacheTypeOK
<1>2. ASSUME avc' = EmptyAvc PROVE CacheOK
  BY <1>2, EmptySound
<1>3. CASE UNCHANGED cacheVars
  BY <1>0, <1>3, KeptSound DEF cacheVars, DiskLen
<1>4. CASE CacheSavepoint
  <2>1. saved \in Seq(0..MaxId) /\ Len(table) \in 0..MaxId
    BY <1>0, BoundAssumption DEF TypeOK
  <2>2. saved' = Append(saved, Len(table)) /\ avc' = avc /\ key2val' = key2val /\ wrote' = wrote
    BY <1>4 DEF CacheSavepoint, Savepoint
  <2>3. saved' # << >> /\ (saved # << >> => saved'[1] = saved[1])
    BY <2>1, <2>2
  <2>4. saved # << >> => saved' # << >> /\ DiskLen' = DiskLen
    BY <2>3 DEF DiskLen
  <2> QED BY <1>0, <2>2, <2>4, KeptSound
<1>5. ASSUME NEW k \in 1..MaxDepth, CacheRollbackTo(k) PROVE CacheOK
  <2>1. /\ k \in DOMAIN saved /\ saved' = SubSeq(saved, 1, k)
        /\ avc' = avc /\ key2val' = key2val /\ wrote' = wrote
    BY <1>5 DEF CacheRollbackTo, RollbackTo
  <2>2. saved' # << >> /\ saved'[1] = saved[1]
    BY <2>1, FirstSaved
  <2>3. saved # << >> => saved' # << >> /\ DiskLen' = DiskLen
    BY <2>2 DEF DiskLen
  <2> QED BY <1>0, <2>1, <2>3, KeptSound
<1>6. ASSUME NEW k \in 1..MaxDepth, CacheRelease(k) PROVE CacheOK
  <2>1. /\ k \in DOMAIN saved /\ saved' = SubSeq(saved, 1, k - 1) /\ key2val' = key2val
        /\ avc' = (IF k = 1 /\ wrote THEN EmptyAvc ELSE avc) /\ wrote' = (k # 1 /\ wrote)
    BY <1>6 DEF CacheRelease, Release
  <2>2. CASE k = 1 /\ wrote
    BY <2>1, <2>2, <1>2
  <2>3. CASE k = 1 /\ ~wrote
    <3>1. avc' = avc /\ \A i \in Ids \ {0}, cp \in ClassPerm : SoundAt(i, cp)
      BY <2>1, <2>3 DEF StaleOnlyInFlight
    <3> QED BY <1>0, <2>1, <3>1 DEF StaleOnlyInFlight, SoundAt
  <2>4. CASE k # 1
    <3>1. k - 1 \in DOMAIN saved /\ k - 1 # 0
      BY <1>0, <2>1, <2>4, SavedLengths
    <3>2. saved' # << >> /\ saved'[1] = saved[1]
      BY <2>1, <3>1, FirstSaved
    <3>3. saved # << >> => saved' # << >> /\ DiskLen' = DiskLen
      BY <3>2 DEF DiskLen
    <3>4. avc' = avc /\ (wrote => wrote')
      BY <2>1, <2>4
    <3> QED BY <1>0, <2>1, <3>3, <3>4, KeptSound
  <2> QED BY <2>2, <2>3, <2>4
<1>7. CASE UserWrite
  <2>1. CASE saved = << >>
    BY <1>2, <1>7, <2>1 DEF UserWrite, Written
  <2>2. CASE saved # << >>
    <3>1. avc' = avc /\ wrote' /\ key2val' = key2val /\ saved' = saved /\ DiskLen' = DiskLen
      BY <1>7, <2>2 DEF UserWrite, Written, DiskLen
    <3> QED BY <1>0, <3>1, KeptSound
  <2> QED BY <2>1, <2>2
<1>8. ASSUME NEW l \in Label, CacheRegister(l) PROVE CacheOK
  <2>1. CASE saved = << >>
    BY <1>2, <1>8, <2>1 DEF CacheRegister, Written
  <2>2. CASE saved # << >>
    <3>1. avc' = avc /\ wrote' = TRUE /\ Register(l)
      BY <1>8, <2>2 DEF CacheRegister, Written
    <3> QED BY <1>0, <2>2, <3>1, RegisterSound
  <2> QED BY <2>1, <2>2
<1>9. ASSUME NEW i \in Ids \ {0}, NEW cp \in ClassPerm, CheckAccess(i, cp) PROVE CacheOK
  BY <1>9, CheckAccessSound
<1> QED
  BY <1>2, <1>3, <1>4, <1>5, <1>6, <1>7, <1>8, <1>9
     DEF CacheNext, CacheOpenNew, CacheReopen, CacheCrash, CacheRollback, ClearAvc

(* A stale decision is about a label that the transaction in progress has    *)
(* registered; every step of the connection keeps it so.                     *)
CacheInv == TypeInv /\ MapsInv /\ ~spoiled /\ CacheTypeOK /\ StaleOnlyInFlight

LEMMA CacheInvHolds ==
  /\ CacheInit => CacheInv
  /\ CacheInv /\ [CacheNext]_cacheVars => CacheInv'
<1>1. CacheInit => CacheInv
  <2> SUFFICES ASSUME CacheInit PROVE CacheInv
    OBVIOUS
  <2>1. TypeInv /\ MapsInv /\ ~spoiled
    BY TypeInvInit, MapsInvInit DEF CacheInit, Init
  <2>2. avc = EmptyAvc /\ wrote = FALSE
    BY DEF CacheInit
  <2>3. \A i \in Ids, cp \in ClassPerm : avc[AvcKey(i, cp)] = "none"
    BY <2>2 DEF EmptyAvc, AvcKeys
  <2>4. avc \in [AvcKeys -> {"none", "allow", "deny"}]
    BY <2>2 DEF EmptyAvc
  <2> QED BY <2>1, <2>2, <2>3, <2>4 DEF CacheInv, CacheTypeOK, TypeInv, StaleOnlyInFlight, SoundAt
<1>2. CacheInv /\ [CacheNext]_cacheVars => CacheInv'
  <2> SUFFICES ASSUME CacheInv, [CacheNext]_cacheVars PROVE CacheInv'
    OBVIOUS
  <2>1. [Next]_vars
    BY StoreStep
  <2>2. TypeInv'
    BY <2>1, TypeInvNext DEF CacheInv
  <2>3. MapsInv'
    BY <2>1, <2>2, MapsInvNext DEF CacheInv
  <2>4. ~spoiled'
    BY <2>1, FaultFree, NoFaultAssumption DEF CacheInv
  <2>5. CacheTypeOK' /\ StaleOnlyInFlight'
    BY <2>2, CacheInvNext DEF CacheInv
  <2> QED BY <2>2, <2>3, <2>4, <2>5 DEF CacheInv
<1> QED BY <1>1, <1>2

LEMMA CacheInvariant == CacheSpec => []CacheInv
  BY CacheInvHolds, PTL DEF CacheSpec

(* The cache holds answers of checkAccess and never an error, and a decision *)
(* is stale only about an id above the disk's last one, in a transaction     *)
(* that wrote: the ones the commit and rollback hooks are about to drop.     *)
THEOREM CacheStale == CacheSpec => [](CacheTypeOK /\ StaleOnlyInFlight)
<1>1. CacheInv => CacheTypeOK /\ StaleOnlyInFlight
  BY DEF CacheInv
<1> QED BY <1>1, CacheInvariant, PTL

(* For every policy, set of labels and bound: outside a transaction no cached *)
(* decision of checkAccess is stale, and inside one none about a committed    *)
(* label is.                                                                  *)
THEOREM CacheSound == CacheSpec => [](SoundAtRest /\ SoundForDurable)
<1>1. CacheInv => SoundAtRest
  BY DEF CacheInv, StaleOnlyInFlight, SoundAtRest
<1>2. CacheInv => SoundForDurable
  <2> SUFFICES ASSUME CacheInv, up, NEW i \in 1..DiskLen, NEW cp \in ClassPerm
               PROVE  avc[AvcKey(i, cp)] \in {"none", Decide(Disk[i], cp)}
    BY DEF SoundForDurable
  <2>1. DiskOK
    BY DiskBefore DEF CacheInv
  <2>2. i \in Ids \ {0} /\ ~(i > DiskLen)
    BY <2>1, BoundAssumption DEF CacheInv, DiskOK, Ids, TypeInv, TypeOK
  <2>3. key2val[i] = Disk[i]
    BY <2>1 DEF CacheInv, DiskOK, MapsInv, LabelsAgree
  <2> QED BY <2>2, <2>3 DEF CacheInv, StaleOnlyInFlight, SoundAt
<1> QED BY <1>1, <1>2, CacheInvariant, PTL

-------------------------------------------------------------------------------
(* Rows *)

(* The rows of d that were written with a registered id have ids among the  *)
(* first n rows of selinux_id, and under the label they were given.         *)
Settled(d, t, n) ==
  \A r \in Row : d.rows[r].registered =>
    d.rows[r].id \in 1..n /\ t[d.rows[r].id] = d.rows[r].meant

AllSettled ==
  /\ Settled(data, table, Len(table))
  /\ \A k \in DOMAIN savedData : Settled(savedData[k], table, saved[k])

(* The label an INSERT stores is on disk from the first opening on. *)
TuplePublished ==
  /\ DiskLen > 0 => \E i \in 1..DiskLen : Disk[i] = TupleLabel
  /\ up => DiskLen > 0

RowInv == CacheInv /\ RowTypeOK /\ AllSettled /\ TuplePublished

(* Every step on rows is a step of the cache, or none. *)
LEMMA RowCacheStep ==
  ASSUME RowTypeOK, [RowNext]_rowVars
  PROVE  [CacheNext]_cacheVars
<1>1. ASSUME NEW r \in Row, NEW cp \in TuplePerms, RowCheck(r, cp) PROVE CacheNext
  <2>1. data.rows[r] \in Stored
    BY <1>1 DEF RowCheck, Present, RowTypeOK, Data
  <2>2. data.rows[r].id \in Ids \ {0}
    BY <1>1, <2>1 DEF RowCheck, Stored
  <2>3. cp \in ClassPerm
    BY PermAssumption
  <2>4. CheckAccess(data.rows[r].id, cp)
    BY <1>1 DEF RowCheck
  <2> QED BY <2>2, <2>3, <2>4 DEF CacheNext
<1>2. CASE UNCHANGED rowVars
  BY <1>2 DEF rowVars
<1>3. CASE RowOpen \/ RowSavepoint \/ RowRollback \/ RowCrash \/ AlterAdd \/ OtherWrite
           \/ RowClearAvc
  BY <1>3 DEF RowOpen, RowSavepoint, RowRollback, RowCrash, AlterAdd, OtherWrite,
              RowClearAvc, CacheNext
<1>4. ASSUME NEW r \in Row, Insert(r) \/ Delete(r) PROVE CacheNext
  BY <1>4 DEF Insert, Delete, CacheNext
<1>5. ASSUME NEW l \in Label, RowRegister(l) PROVE CacheNext
  BY <1>5 DEF RowRegister, CacheNext
<1>6. ASSUME NEW r \in Row, NEW l \in Label, RelabelKnown(r, l) \/ RelabelNew(r, l)
      PROVE  CacheNext
  BY <1>6 DEF RelabelKnown, RelabelNew, CacheNext
<1>7. ASSUME NEW k \in 1..MaxDepth, RowRelease(k) \/ RowRollbackTo(k) PROVE CacheNext
  BY <1>7 DEF RowRelease, RowRollbackTo, CacheNext
<1> QED BY <1>1, <1>2, <1>3, <1>4, <1>5, <1>6, <1>7 DEF RowNext

(* Rows settled in a table stay settled when the table keeps those rows. *)
LEMMA SettledKept ==
  ASSUME NEW d, NEW t, NEW u, NEW n \in Nat, NEW m \in Nat, n <= m,
         Settled(d, t, n), \A i \in 1..n : u[i] = t[i]
  PROVE  Settled(d, u, m)
  BY DEF Settled

(* What writing one row does. *)
LEMMA WriteRow ==
  ASSUME data \in Data, NEW r \in Row, NEW x \in Stored \cup {NoRow},
         data' = [data EXCEPT !.rows[r] = x]
  PROVE  /\ data' \in Data
         /\ \A q \in Row : data'.rows[q] = IF q = r THEN x ELSE data.rows[q]
  BY DEF Data

(* ... and what it takes to leave the table settled. *)
LEMMA WriteSettled ==
  ASSUME CacheTypeOK', RowTypeOK, AllSettled, NEW r \in Row, NEW x \in Stored \cup {NoRow},
         data' = [data EXCEPT !.rows[r] = x], savedData' = savedData, saved' = saved,
         Len(table') \in Nat, Len(table) \in Nat, Len(table) <= Len(table'),
         \A i \in 1..Len(table) : table'[i] = table[i],
         \A k \in DOMAIN savedData : saved[k] \in 0..Len(table),
         x.registered => x.id \in 1..Len(table') /\ table'[x.id] = x.meant
  PROVE  RowTypeOK' /\ AllSettled'
<1>1. /\ data' \in Data
      /\ \A q \in Row : data'.rows[q] = IF q = r THEN x ELSE data.rows[q]
  BY WriteRow DEF RowTypeOK
<1>2. RowTypeOK'
  BY <1>1 DEF RowTypeOK
<1>3. Settled(data, table', Len(table'))
  BY SettledKept DEF AllSettled
<1>4. Settled(data', table', Len(table'))
  BY <1>1, <1>3 DEF Settled
<1>5. \A k \in DOMAIN savedData : Settled(savedData[k], table', saved[k])
  <2> SUFFICES ASSUME NEW k \in DOMAIN savedData
               PROVE  Settled(savedData[k], table', saved[k])
    OBVIOUS
  <2>1. \A i \in 1..saved[k] : table'[i] = table[i]
    OBVIOUS
  <2>2. saved[k] \in Nat /\ Settled(savedData[k], table, saved[k])
    BY DEF AllSettled
  <2> QED BY <2>1, <2>2, SettledKept
<1> QED BY <1>2, <1>4, <1>5 DEF AllSettled

(* The stacks of savepoints have equal heights, and none is above the table. *)
LEMMA Stacks ==
  ASSUME RowTypeOK, TypeInv
  PROVE  /\ DOMAIN savedData = DOMAIN saved /\ DOMAIN savedData = 1..Len(saved)
         /\ Len(savedData) = Len(saved) /\ Len(saved) \in Nat
         /\ savedData \in Seq(Data)
         /\ \A k \in DOMAIN savedData : savedData[k] \in Data
         /\ Len(table) \in Nat
         /\ \A k \in DOMAIN savedData : saved[k] \in 0..Len(table)
         /\ savedData = << >> <=> saved = << >>
<1>1. savedData \in Seq(Data) /\ Len(savedData) = Len(saved) /\ TypeOK
  BY DEF RowTypeOK, TypeInv
<1>2. /\ Len(saved) \in Nat /\ DOMAIN saved = 1..Len(saved)
      /\ \A k \in DOMAIN saved : saved[k] \in 0..MaxId
  BY <1>1, SavedLengths
<1>3. DOMAIN savedData = 1..Len(savedData) /\ \A k \in DOMAIN savedData : savedData[k] \in Data
  BY <1>1
<1>4. Len(table) \in Nat
  BY <1>1 DEF TypeOK
<1>5. \A k \in DOMAIN saved : saved[k] \in 0..Len(table)
  BY <1>2, <1>4 DEF TypeInv, Nested
<1>6. savedData = << >> <=> Len(savedData) = 0
  BY <1>1, EmptySeq
<1>7. saved = << >> <=> Len(saved) = 0
  <2>1. saved \in Seq(0..MaxId)
    BY <1>1 DEF TypeOK
  <2> QED BY <2>1, EmptySeq
<1> QED BY <1>1, <1>2, <1>3, <1>4, <1>5, <1>6, <1>7

(* The label of new rows stays on disk: nothing there is ever lost. *)
LEMMA TupleKept ==
  ASSUME TypeInv, TypeInv', TuplePublished, [Next]_vars
  PROVE  TuplePublished'
<1>1. DiskLen <= DiskLen' /\ \A i \in 1..DiskLen : Disk'[i] = Disk[i]
  BY DiskGrows
<1>2. DiskLen \in Nat /\ DiskLen' \in Nat
  BY DiskBefore, DiskAfter DEF DiskOK
<1>3. CASE DiskLen > 0
  <2>1. PICK i \in 1..DiskLen : Disk[i] = TupleLabel
    BY <1>3 DEF TuplePublished
  <2> QED BY <1>1, <1>2, <1>3, <2>1 DEF TuplePublished
<1>4. CASE OpenNew
  <2>1. table' = InitialLabels /\ saved' = << >>
    BY <1>4 DEF OpenNew, TypeInv, Nested
  <2>2. DiskLen' = Len(InitialLabels) /\ Len(InitialLabels) > 0
    BY <2>1, InitialAssumption, BoundAssumption DEF DiskLen
  <2>3. \A i \in 1..DiskLen' : Disk'[i] = InitialLabels[i]
    BY <2>1, DiskAfter DEF DiskOK
  <2>4. PICK i \in DOMAIN InitialLabels : InitialLabels[i] = TupleLabel
    BY TupleAssumption DEF Rows
  <2>5. i \in 1..DiskLen'
    BY <2>2, <2>4, InitialAssumption
  <2> QED BY <2>2, <2>3, <2>4, <2>5 DEF TuplePublished
<1>5. CASE Reopen
  <2>1. table # << >> /\ saved = << >> /\ table \in Seq(Label)
    BY <1>5 DEF Reopen, TypeInv, TypeOK
  <2>2. DiskLen > 0
    BY <2>1, EmptySeq DEF DiskLen
  <2> QED BY <1>3, <2>2
<1>6. CASE ~(DiskLen > 0) /\ ~OpenNew /\ ~Reopen
  <2>1. ~up
    BY <1>6 DEF TuplePublished
  <2>2. UNCHANGED vars
    BY <1>6, <2>1, NoFaultAssumption
       DEF Next, Savepoint, Rollback, Crash, Register, RegisterFails, Miss,
           OtherRegisters, Release, RollbackTo
  <2>3. DiskLen' = DiskLen /\ up' = up
    BY <2>2 DEF vars, DiskLen
  <2> QED BY <1>6, <2>1, <2>3 DEF TuplePublished
<1> QED BY <1>3, <1>4, <1>5, <1>6

-------------------------------------------------------------------------------
(* A rollback takes the rows back together with the labels: the copy of the  *)
(* data that a savepoint keeps is settled in the table it goes with.         *)
LEMMA CutSettled ==
  ASSUME RowTypeOK, TypeInv, TypeInv', AllSettled, NEW k \in DOMAIN saved,
         table' = SubSeq(table, 1, saved[k]), data' = savedData[k]
  PROVE  /\ data' \in Data
         /\ Settled(data', table', Len(table'))
         /\ \A j \in 1..k : Settled(savedData[j], table', saved[j])
<1>1. /\ k \in DOMAIN savedData /\ k \in 1..Len(saved) /\ Len(saved) \in Nat
      /\ DOMAIN savedData = 1..Len(saved) /\ DOMAIN savedData = DOMAIN saved
      /\ \A j \in DOMAIN savedData : savedData[j] \in Data /\ saved[j] \in 0..Len(table)
      /\ table \in Seq(Label)
  BY Stacks DEF TypeInv, TypeOK
<1>2. Len(table') = saved[k] /\ \A i \in 1..saved[k] : table'[i] = table[i]
  BY <1>1, PrefixOfTable
<1>3. Settled(savedData[k], table', saved[k])
  <2>1. Settled(savedData[k], table, saved[k]) /\ saved[k] \in Nat /\ saved[k] <= saved[k]
    BY <1>1 DEF AllSettled
  <2> QED BY <1>2, <2>1, SettledKept
<1>4. ASSUME NEW j \in 1..k PROVE Settled(savedData[j], table', saved[j])
  <2>1. j \in DOMAIN saved /\ j <= k
    BY <1>1
  <2>2. saved[j] <= saved[k] /\ saved[j] \in Nat /\ saved[k] \in Nat
    BY <1>1, <2>1 DEF TypeInv, Nested
  <2>3. Settled(savedData[j], table, saved[j])
    BY <1>1, <2>1 DEF AllSettled
  <2>4. \A i \in 1..saved[j] : table'[i] = table[i]
    BY <1>2, <2>2
  <2>5. saved[j] <= saved[j]
    BY <2>2
  <2> QED BY <2>2, <2>3, <2>4, <2>5, SettledKept
<1> QED BY <1>1, <1>2, <1>3, <1>4

(* Back to what is on disk, by ROLLBACK or by a crash. *)
LEMMA DiskSettled ==
  ASSUME RowTypeOK, TypeInv, TypeInv', CacheTypeOK', AllSettled,
         table' = Disk, saved' = << >>, data' = OnDisk, savedData' = << >>
  PROVE  RowTypeOK' /\ AllSettled'
<1>1. data' \in Data /\ Settled(data', table', Len(table'))
  <2>1. CASE saved = << >>
    <3>1. savedData = << >> /\ table' = SubSeq(table, 1, Len(table)) /\ table \in Seq(Label)
      BY <2>1, Stacks DEF Disk, DiskLen, TypeInv, TypeOK
    <3>2. table' = table
      BY <3>1
    <3> QED BY <3>1, <3>2 DEF OnDisk, RowTypeOK, AllSettled
  <2>2. CASE saved # << >>
    <3>1. /\ savedData # << >> /\ 1 \in DOMAIN saved
          /\ data' = savedData[1] /\ table' = SubSeq(table, 1, saved[1])
      <4>1. savedData # << >> /\ DOMAIN saved = 1..Len(saved) /\ Len(saved) \in Nat
        BY <2>2, Stacks
      <4>2. saved \in Seq(0..MaxId)
        BY DEF TypeInv, TypeOK
      <4>3. Len(saved) # 0
        BY <2>2, <4>2, EmptySeq
      <4>4. 1 \in DOMAIN saved
        BY <4>1, <4>3
      <4>5. data' = savedData[1]
        BY <4>1 DEF OnDisk
      <4>6. table' = SubSeq(table, 1, saved[1])
        BY <2>2 DEF Disk, DiskLen
      <4> QED BY <4>1, <4>4, <4>5, <4>6
    <3> QED BY <3>1, CutSettled
  <2> QED BY <2>1, <2>2
<1>2. RowTypeOK'
  BY <1>1, Stacks DEF RowTypeOK
<1> QED BY <1>1, <1>2 DEF AllSettled

(* One case per action on rows.  The label of an inserted row is on disk, the *)
(* label of a relabelled one is in the table or has just been put there.      *)
LEMMA RowInvNext == RowInv /\ [RowNext]_rowVars => RowInv'
<1> SUFFICES ASSUME RowInv, [RowNext]_rowVars PROVE RowInv'
  OBVIOUS
<1> USE DEF RowInv
<1>1. [CacheNext]_cacheVars /\ [Next]_vars
  BY RowCacheStep, StoreStep
<1>2. CacheInv'
  BY <1>1, CacheInvHolds
<1>0. TypeInv /\ MapsInv /\ ~spoiled /\ TypeInv' /\ CacheTypeOK' /\ TypeOK'
  BY <1>2 DEF CacheInv, TypeInv
<1>3. TuplePublished'
  BY <1>0, <1>1, TupleKept
<1>4. SUFFICES RowTypeOK' /\ AllSettled'
  BY <1>2, <1>3
<1>5. /\ DOMAIN savedData = DOMAIN saved /\ DOMAIN savedData = 1..Len(saved)
      /\ Len(savedData) = Len(saved) /\ Len(saved) \in Nat /\ savedData \in Seq(Data)
      /\ \A k \in DOMAIN savedData : savedData[k] \in Data
      /\ Len(table) \in Nat /\ Len(table) <= MaxId /\ DOMAIN table = 1..Len(table)
      /\ \A k \in DOMAIN savedData : saved[k] \in 0..Len(table)
      /\ savedData = << >> <=> saved = << >>
      /\ data \in Data
  BY <1>0, Stacks DEF TypeInv, TypeOK, RowTypeOK
<1>6. ASSUME UNCHANGED <<table, saved, savedData>>, data' \in Data, data'.rows = data.rows
      PROVE  RowTypeOK' /\ AllSettled'
  BY <1>0, <1>5, <1>6 DEF RowTypeOK, AllSettled, Settled
<1>7. CASE RowOpen /\ CacheReopen
  BY <1>5, <1>6, <1>7 DEF RowOpen, CacheReopen, Reopen
<1>8. CASE RowOpen /\ CacheOpenNew
  <2>1. table = << >> /\ saved = << >> /\ savedData' = << >> /\ data' = data /\ saved' = saved
    BY <1>0, <1>5, <1>8 DEF RowOpen, CacheOpenNew, OpenNew, TypeInv, Nested
  <2>2. Settled(data, table, 0) /\ Len(table') \in Nat
    BY <1>0, <2>1 DEF AllSettled, TypeInv, TypeOK
  <2>3. Settled(data', table', Len(table'))
    BY <2>1, <2>2 DEF Settled
  <2>4. RowTypeOK'
    BY <1>0, <1>5, <2>1 DEF RowTypeOK
  <2> QED BY <2>1, <2>3, <2>4 DEF AllSettled
<1>9. CASE RowSavepoint
  <2>1. /\ table' = table /\ data' = data
        /\ saved' = Append(saved, Len(table)) /\ savedData' = Append(savedData, data)
    BY <1>9 DEF RowSavepoint, CacheSavepoint, Savepoint
  <2>2. /\ savedData' \in Seq(Data) /\ Len(savedData') = Len(savedData) + 1
        /\ \A i \in 1..Len(savedData) : savedData'[i] = savedData[i]
        /\ savedData'[Len(savedData) + 1] = data
    BY <1>5, <2>1, AppendRow
  <2>3. /\ Len(saved') = Len(saved) + 1
        /\ \A i \in 1..Len(saved) : saved'[i] = saved[i]
        /\ saved'[Len(saved) + 1] = Len(table)
    <3>1. saved \in Seq(0..MaxId) /\ Len(table) \in 0..MaxId
      BY <1>0, <1>5, BoundAssumption DEF TypeInv, TypeOK
    <3> QED BY <2>1, <3>1, AppendRow
  <2>4. RowTypeOK'
    BY <1>0, <1>5, <2>1, <2>2, <2>3 DEF RowTypeOK
  <2>5. \A k \in DOMAIN savedData' : Settled(savedData'[k], table', saved'[k])
    BY <1>5, <2>1, <2>2, <2>3 DEF AllSettled
  <2> QED BY <2>1, <2>4, <2>5 DEF AllSettled
<1>10. CASE RowRollback \/ RowCrash
  BY <1>0, <1>10, DiskSettled DEF RowRollback, RowCrash, CacheRollback, CacheCrash, Rollback, Crash
<1>11. CASE AlterAdd
  <2>1. data' \in Data /\ data'.rows = data.rows
    BY <1>5, <1>11 DEF AlterAdd, Data
  <2> QED BY <1>6, <1>11, <2>1 DEF AlterAdd, UserWrite
<1>12. ASSUME NEW l \in Label, Register(l)
       PROVE  /\ Len(table') = Len(table) + 1 /\ saved' = saved
              /\ \A i \in 1..Len(table) : table'[i] = table[i]
              /\ table'[Len(table) + 1] = l /\ Len(table) < MaxId
  BY <1>0, <1>12, AppendRow DEF Register, TypeInv, TypeOK
<1>13. ASSUME NEW l \in Label, RowRegister(l) PROVE RowTypeOK' /\ AllSettled'
  <2>1. Register(l) /\ data' = data /\ savedData' = savedData
    BY <1>13 DEF RowRegister, CacheRegister
  <2>2. /\ Len(table') = Len(table) + 1 /\ saved' = saved
        /\ \A i \in 1..Len(table) : table'[i] = table[i]
    BY <1>12, <2>1
  <2>3. Settled(data, table', Len(table'))
    <3>1. Settled(data, table, Len(table)) /\ Len(table') \in Nat /\ Len(table) <= Len(table')
      BY <1>5, <2>2 DEF AllSettled
    <3> QED BY <1>5, <2>2, <3>1, SettledKept
  <2>4. ASSUME NEW k \in DOMAIN savedData PROVE Settled(savedData[k], table', saved[k])
    <3>1. saved[k] \in Nat /\ Settled(savedData[k], table, saved[k])
          /\ \A i \in 1..saved[k] : table'[i] = table[i]
      BY <1>5, <2>2 DEF AllSettled
    <3> QED BY <3>1, SettledKept
  <2>5. RowTypeOK'
    BY <1>0, <1>5, <2>1, <2>2 DEF RowTypeOK
  <2> QED BY <2>1, <2>2, <2>3, <2>4, <2>5 DEF AllSettled
<1>14. ASSUME NEW r \in Row, NEW x \in Stored \cup {NoRow},
              data' = [data EXCEPT !.rows[r] = x], savedData' = savedData,
              table' = table, saved' = saved,
              x.registered => x.id \in 1..Len(table) /\ table[x.id] = x.meant
       PROVE  RowTypeOK' /\ AllSettled'
  BY <1>0, <1>5, <1>14, WriteSettled
<1>15. ASSUME NEW r \in Row, Insert(r) PROVE RowTypeOK' /\ AllSettled'
  <2>1. up /\ table' = table /\ saved' = saved
    BY <1>15 DEF Insert, UserWrite
  <2>2. PICK i \in 1..DiskLen : Disk[i] = TupleLabel
    BY <2>1 DEF TuplePublished
  <2>3. i \in DOMAIN table /\ table[i] = TupleLabel
    BY <1>0, <2>2, DiskBefore DEF DiskOK
  <2>4. val2key[TupleLabel] = i /\ i \in Ids /\ TupleLabel \in Label
    <3>1. val2key[TupleLabel] = i
      BY <1>0, <2>1, <2>3 DEF MapsInv, LabelsAgree
    <3>2. table \in Seq(Label)
      BY <1>0 DEF TypeInv, TypeOK
    <3> QED BY <1>5, <2>3, <3>1, <3>2, BoundAssumption DEF Ids
  <2>5. CASE Write(r, LookupSecurityContext, TupleLabel, TRUE)
    <3> DEFINE x == [id |-> i, meant |-> TupleLabel, registered |-> TRUE]
    <3>1. x \in Stored /\ x.id \in 1..Len(table) /\ table[x.id] = x.meant
      BY <1>5, <2>3, <2>4 DEF Stored
    <3>2. data' = [data EXCEPT !.rows[r] = x] /\ savedData' = savedData
      BY <2>4, <2>5 DEF Write, LookupSecurityContext
    <3> HIDE DEF x
    <3> QED BY <1>14, <2>1, <3>1, <3>2
  <2>6. ASSUME NEW v \in Ids, Write(r, v, TupleLabel, FALSE)
        PROVE  RowTypeOK' /\ AllSettled'
    <3> DEFINE x == [id |-> v, meant |-> TupleLabel, registered |-> FALSE]
    <3>1. x \in Stored /\ ~x.registered
      BY <2>4 DEF Stored
    <3>2. data' = [data EXCEPT !.rows[r] = x] /\ savedData' = savedData
      BY <2>6 DEF Write
    <3> HIDE DEF x
    <3> QED BY <1>14, <2>1, <3>1, <3>2
  <2> QED BY <1>15, <2>5, <2>6 DEF Insert
<1>16. ASSUME NEW r \in Row, Delete(r) PROVE RowTypeOK' /\ AllSettled'
  <2>1. /\ data' = [data EXCEPT !.rows[r] = NoRow] /\ savedData' = savedData
        /\ table' = table /\ saved' = saved /\ NoRow.registered = FALSE
    BY <1>16 DEF Delete, UserWrite, NoRow
  <2> QED BY <1>14, <2>1
<1>17. ASSUME NEW r \in Row, NEW l \in Label, RelabelKnown(r, l)
       PROVE  RowTypeOK' /\ AllSettled'
  <2> DEFINE x == [id |-> val2key[l], meant |-> l, registered |-> l \in Rows(table)]
  <2>1. up /\ table' = table /\ saved' = saved /\ val2key[l] # NoId
    BY <1>17 DEF RelabelKnown, UserWrite
  <2>2. x \in Stored
    BY <1>0, <2>1 DEF Stored, TypeInv, TypeOK
  <2>3. x.registered => x.id \in 1..Len(table) /\ table[x.id] = x.meant
    <3> SUFFICES ASSUME l \in Rows(table)
                 PROVE  val2key[l] \in 1..Len(table) /\ table[val2key[l]] = l
      OBVIOUS
    <3>1. PICK i \in DOMAIN table : table[i] = l
      BY DEF Rows
    <3> QED BY <1>0, <1>5, <2>1, <3>1 DEF MapsInv, LabelsAgree
  <2>4. data' = [data EXCEPT !.rows[r] = x] /\ savedData' = savedData
    BY <1>17 DEF RelabelKnown, Write
  <2> HIDE DEF x
  <2> QED BY <1>14, <2>1, <2>2, <2>3, <2>4
<1>18. ASSUME NEW r \in Row, NEW l \in Label, RelabelNew(r, l)
       PROVE  RowTypeOK' /\ AllSettled'
  <2> DEFINE x == [id |-> Len(table) + 1, meant |-> l, registered |-> TRUE]
  <2>1. Register(l) /\ data' = [data EXCEPT !.rows[r] = x] /\ savedData' = savedData
    BY <1>18 DEF RelabelNew, CacheRegister, Write
  <2>2. /\ Len(table') = Len(table) + 1 /\ saved' = saved
        /\ \A i \in 1..Len(table) : table'[i] = table[i]
        /\ table'[Len(table) + 1] = l /\ Len(table) < MaxId
    BY <1>12, <2>1
  <2>3. x \in Stored /\ x.id \in 1..Len(table') /\ table'[x.id] = x.meant
    BY <1>5, <2>2, BoundAssumption DEF Stored, Ids
  <2>4. Len(table') \in Nat /\ Len(table) <= Len(table')
    BY <1>5, <2>2
  <2> HIDE DEF x
  <2> QED BY <1>0, <1>5, <2>1, <2>2, <2>3, <2>4, WriteSettled
<1>19. ASSUME NEW k \in 1..MaxDepth, RowRelease(k) PROVE RowTypeOK' /\ AllSettled'
  <2>1. /\ k \in DOMAIN saved /\ table' = table /\ data' = data
        /\ saved' = SubSeq(saved, 1, k - 1) /\ savedData' = SubSeq(savedData, 1, k - 1)
    BY <1>19 DEF RowRelease, CacheRelease, Release
  <2>2. k - 1 \in 0..Len(saved) /\ saved \in Seq(0..MaxId)
    BY <1>0, <1>5, <2>1 DEF TypeInv, TypeOK
  <2>3. /\ savedData' \in Seq(Data) /\ Len(savedData') = k - 1 /\ Len(saved') = k - 1
        /\ \A i \in 1..(k - 1) : savedData'[i] = savedData[i] /\ saved'[i] = saved[i]
    <3>1. /\ savedData' \in Seq(Data) /\ Len(savedData') = k - 1
          /\ \A i \in 1..(k - 1) : savedData'[i] = savedData[i]
      BY <1>5, <2>1, <2>2, PrefixOfTable
    <3>2. Len(saved') = k - 1 /\ \A i \in 1..(k - 1) : saved'[i] = saved[i]
      BY <2>1, <2>2, PrefixOfTable
    <3> QED BY <3>1, <3>2
  <2>4. DOMAIN savedData' = 1..(k - 1) /\ 1..(k - 1) \subseteq DOMAIN savedData
    BY <1>5, <2>1, <2>3
  <2>5. RowTypeOK'
    BY <1>0, <1>5, <2>1, <2>3 DEF RowTypeOK
  <2> QED BY <2>1, <2>3, <2>4, <2>5 DEF AllSettled
<1>20. ASSUME NEW k \in 1..MaxDepth, RowRollbackTo(k) PROVE RowTypeOK' /\ AllSettled'
  <2>1. /\ k \in DOMAIN saved /\ table' = SubSeq(table, 1, saved[k]) /\ data' = savedData[k]
        /\ saved' = SubSeq(saved, 1, k) /\ savedData' = SubSeq(savedData, 1, k)
    BY <1>20 DEF RowRollbackTo, CacheRollbackTo, RollbackTo
  <2>2. k \in 0..Len(saved) /\ saved \in Seq(0..MaxId)
    BY <1>0, <1>5, <2>1 DEF TypeInv, TypeOK
  <2>3. /\ savedData' \in Seq(Data) /\ Len(savedData') = k /\ Len(saved') = k
        /\ \A i \in 1..k : savedData'[i] = savedData[i] /\ saved'[i] = saved[i]
    <3>1. /\ savedData' \in Seq(Data) /\ Len(savedData') = k
          /\ \A i \in 1..k : savedData'[i] = savedData[i]
      BY <1>5, <2>1, <2>2, PrefixOfTable
    <3>2. Len(saved') = k /\ \A i \in 1..k : saved'[i] = saved[i]
      BY <2>1, <2>2, PrefixOfTable
    <3> QED BY <3>1, <3>2
  <2>4. DOMAIN savedData' = 1..k
    BY <2>3
  <2>5. /\ data' \in Data /\ Settled(data', table', Len(table'))
        /\ \A j \in 1..k : Settled(savedData[j], table', saved[j])
    BY <1>0, <2>1, CutSettled
  <2>6. RowTypeOK'
    BY <1>0, <2>3, <2>5 DEF RowTypeOK
  <2> QED BY <2>3, <2>4, <2>5, <2>6 DEF AllSettled
<1>21. CASE UNCHANGED rowVars
  BY <1>5, <1>6, <1>21 DEF rowVars, cacheVars
<1>22. CASE OtherWrite \/ RowClearAvc
  BY <1>5, <1>6, <1>22 DEF OtherWrite, RowClearAvc, UserWrite, ClearAvc
<1>23. ASSUME NEW r \in Row, NEW cp \in TuplePerms, RowCheck(r, cp)
       PROVE  RowTypeOK' /\ AllSettled'
  BY <1>5, <1>6, <1>23 DEF RowCheck, CheckAccess
<1> QED
  BY <1>7, <1>8, <1>9, <1>10, <1>11, <1>13, <1>15, <1>16, <1>17, <1>18, <1>19, <1>20,
     <1>21, <1>22, <1>23 DEF RowNext, RowOpen

LEMMA RowInvInit == RowInit => RowInv
<1> SUFFICES ASSUME RowInit PROVE RowInv
  OBVIOUS
<1>1. CacheInv
  BY CacheInvHolds DEF RowInit
<1>2. /\ table = << >> /\ saved = << >> /\ up = FALSE /\ savedData = << >>
      /\ data = [rows |-> [r \in Row |-> NoRow], last |-> TRUE]
  BY DEF RowInit, CacheInit, Init
<1>3. data \in Data /\ \A r \in Row : data.rows[r].registered = FALSE
  BY <1>2 DEF Data, NoRow
<1>4. RowTypeOK
  BY <1>1, <1>2, <1>3 DEF RowTypeOK, CacheInv
<1>5. AllSettled
  BY <1>2, <1>3 DEF AllSettled, Settled
<1>6. DiskLen = 0
  BY <1>2 DEF DiskLen
<1>7. TuplePublished
  BY <1>2, <1>6 DEF TuplePublished
<1> QED BY <1>1, <1>4, <1>5, <1>7 DEF RowInv

LEMMA RowInvariant == RowSpec => []RowInv
  BY RowInvInit, RowInvNext, PTL DEF RowSpec

-------------------------------------------------------------------------------
(* A row, and every copy of it that a rollback or a crash may bring back,     *)
(* keeps the meaning its id had when the row was written, in selinux_id and   *)
(* in hash_id, and every savepoint has its copy of the data.                  *)
THEOREM RowsKeepMeaning == RowSpec => [](RowTypeOK /\ RowMeaning /\ SavedMeaning)
<1>1. RowInv => RowTypeOK
  BY DEF RowInv
<1>2. RowInv => SavedMeaning
  <2> SUFFICES ASSUME RowInv, NEW k \in DOMAIN savedData, NEW r \in Row,
                      savedData[k].rows[r].registered
               PROVE  /\ savedData[k].rows[r].id \in 1..saved[k]
                      /\ table[savedData[k].rows[r].id] = savedData[k].rows[r].meant
    BY DEF SavedMeaning
  <2> QED BY DEF RowInv, AllSettled, Settled
<1>3. RowInv => RowMeaning
  <2> SUFFICES ASSUME RowInv, NEW r \in Row, data.rows[r].registered
               PROVE  /\ GetconLabel(data.rows[r].id) = data.rows[r].meant
                      /\ up => key2val[data.rows[r].id] = data.rows[r].meant
    BY DEF RowMeaning, Present
  <2>1. /\ data.rows[r].id \in 1..Len(table)
        /\ table[data.rows[r].id] = data.rows[r].meant
    BY DEF RowInv, AllSettled, Settled
  <2>2. DOMAIN table = 1..Len(table)
    BY DEF RowInv, CacheInv, TypeInv, TypeOK
  <2>3. up => key2val[data.rows[r].id] = table[data.rows[r].id]
    BY <2>1, <2>2 DEF RowInv, CacheInv, MapsInv, LabelsAgree
  <2> QED BY <2>1, <2>2, <2>3 DEF GetconLabel
<1> QED BY <1>1, <1>2, <1>3, RowInvariant, PTL

(* For every policy: the check added to SELECT, UPDATE and DELETE lets a row  *)
(* whose label is committed through exactly when the policy grants it on the  *)
(* label the row was given, be the answer remembered or asked for now.        *)
THEOREM FilterDecides == RowSpec => []FilterExact
<1>1. RowInv /\ RowMeaning => FilterExact
  <2> SUFFICES ASSUME RowInv, RowMeaning, up, NEW r \in Present, data.rows[r].registered,
                      data.rows[r].id <= DiskLen, NEW cp \in TuplePerms
               PROVE  Permits(data.rows[r].id, cp) <=> <<data.rows[r].meant, cp>> \in Allowed
    BY DEF FilterExact
  <2> DEFINE i == data.rows[r].id
  <2>1. i \in 1..Len(table) /\ Len(table) \in Nat /\ Len(table) <= MaxId
    BY DEF RowInv, CacheInv, TypeInv, TypeOK, AllSettled, Settled, Present
  <2>2. i \in Ids \ {0} /\ cp \in ClassPerm
    BY <2>1, BoundAssumption, PermAssumption DEF Ids
  <2>3. key2val[i] = data.rows[r].meant
    BY DEF RowMeaning
  <2>4. DiskLen \in Nat /\ ~(i > DiskLen)
    <3>1. DiskLen \in Nat
      BY DiskBefore DEF RowInv, CacheInv, DiskOK
    <3> QED BY <2>1, <3>1
  <2>5. SoundAt(i, cp)
    BY <2>2, <2>4 DEF RowInv, CacheInv, StaleOnlyInFlight
  <2> HIDE DEF i
  <2>6. Permits(i, cp) <=> Decide(key2val[i], cp) = "allow"
    BY <2>5 DEF Permits, SoundAt
  <2>7. Decide(key2val[i], cp) = "allow" <=> <<key2val[i], cp>> \in Allowed
    BY DEF Decide
  <2> QED BY <2>3, <2>6, <2>7 DEF i
<1> QED BY <1>1, RowInvariant, RowsKeepMeaning, PTL

===============================================================================
