-------------------------- MODULE AccessVectorCache --------------------------
(***************************************************************************)
(* The userspace access vector cache (AVC) on top of the label store.      *)
(* checkAccess and the SQL function selinux_check_access turn (subject id, *)
(* label id, class, permission) into one integer key and remember the      *)
(* answer of SELinux under it.  The answer was given for the LABEL that    *)
(* hash_id had under the id; the cache is emptied by the commit hook, the  *)
(* rollback hook and PRAGMA clearavc, and by nothing else.                 *)
(*                                                                         *)
(* The policy and the subject do not change while the cache lives.  What   *)
(* makes hash_id lose track of selinux_id is LabelStore's subject; here    *)
(* nothing does.                                                           *)
(***************************************************************************)
EXTENDS LabelStore

CONSTANTS
  SconId,       \* scon_id, the id of the subject's own label
  ClassPerm,    \* the pairs <<class code, permission code>> that are checked
  Allowed       \* the policy: the pairs <<label, cp>> SELinux grants to scon

ASSUME SubjectAssumption == SconId \in 1..2031
ASSUME ClassAssumption == ClassPerm \subseteq (0..7) \X (0..31)
ASSUME WidthAssumption == MaxId <= 65535
ASSUME NoFaultAssumption == Faults = {}

VARIABLES
  avc,     \* key -> "allow" (avc_allow), "deny" (avc_deny) or "none"
  wrote    \* the open transaction has written to the database

cacheVars == <<table, saved, key2val, val2key, contexts, up, spoiled, avc, wrote>>

-------------------------------------------------------------------------------
(* Mutation: the class is left out of the key. *)
Compress_NoClass(source, target, cp) ==
  cp[2] + (target % 65536) * 256 + (source % 65536) * 1048576

(* compress: both ids are cut to unsigned short, shifted and added.  For a   *)
(* source below 2032 the sum is below 2^31; from 2048 on, source << 20       *)
(* overflows the int that C promotes it to.                                  *)
Compress(source, target, cp) ==
  cp[2] + cp[1] * 32 + (target % 65536) * 256 + (source % 65536) * 1048576

AvcKey(i, cp) == Compress(SconId, i, cp)
AvcKeys == {AvcKey(i, cp) : i \in Ids, cp \in ClassPerm}

EmptyAvc == [k \in AvcKeys |-> "none"]

(* Mutation: a failed check is stored as the error it is. *)
Decide_Error(l, cp) ==
  IF l = NoLabel THEN "error" ELSE IF <<l, cp>> \in Allowed THEN "allow" ELSE "deny"

(* selinux_check_access(scon, label, class, perm); it fails for the NULL    *)
(* label of an id that hash_id does not know, and failure is cached as deny.*)
Decide(l, cp) == IF <<l, cp>> \in Allowed THEN "allow" ELSE "deny"

CacheInit == Init /\ avc = EmptyAvc /\ wrote = FALSE

(* initialize_authorizer allocates a new cache. *)
CacheOpenNew == OpenNew /\ avc' = EmptyAvc /\ wrote' = FALSE
CacheReopen  == Reopen /\ avc' = EmptyAvc /\ wrote' = FALSE
CacheCrash   == Crash /\ avc' = EmptyAvc /\ wrote' = FALSE

(* checkAccess and selinuxCheckAccessFunction: on a miss ask SELinux about   *)
(* the label hash_id has under the id now, and remember the answer.          *)
CheckAccess(i, cp) ==
  /\ up /\ avc[AvcKey(i, cp)] = "none"
  /\ avc' = [avc EXCEPT ![AvcKey(i, cp)] = Decide(key2val[i], cp)]
  /\ UNCHANGED <<table, saved, key2val, val2key, contexts, up, spoiled, wrote>>

(* A statement that writes: by itself it commits and runs the commit hook,  *)
(* inside a transaction it only makes the transaction a writing one.        *)
Written ==
  IF saved = << >> THEN avc' = EmptyAvc /\ wrote' = FALSE
                   ELSE UNCHANGED avc /\ wrote' = TRUE

CacheRegister(l) == Register(l) /\ Written

UserWrite ==
  /\ up /\ Written
  /\ UNCHANGED <<table, saved, key2val, val2key, contexts, up, spoiled>>

CacheSavepoint == Savepoint /\ UNCHANGED <<avc, wrote>>

(* ROLLBACK TO runs no hook; the transaction stays a writing one. *)
CacheRollbackTo(k) == RollbackTo(k) /\ UNCHANGED <<avc, wrote>>

(* Mutation: no commit hook. *)
CacheRelease_NoHook(k) ==
  /\ Release(k)
  /\ avc' = avc
  /\ wrote' = (k # 1 /\ wrote)

(* The release of the first savepoint commits: the commit hook runs if the *)
(* transaction wrote.                                                      *)
CacheRelease(k) ==
  /\ Release(k)
  /\ avc' = IF k = 1 /\ wrote THEN EmptyAvc ELSE avc
  /\ wrote' = (k # 1 /\ wrote)

(* Mutation: no rollback hook. *)
CacheRollback_NoHook == Rollback /\ avc' = avc /\ wrote' = FALSE

(* sqlite3RollbackAll runs the rollback hook. *)
CacheRollback == Rollback /\ avc' = EmptyAvc /\ wrote' = FALSE

(* PRAGMA clearavc *)
ClearAvc ==
  /\ up /\ avc' = EmptyAvc
  /\ UNCHANGED <<table, saved, key2val, val2key, contexts, up, spoiled, wrote>>

CacheNext ==
  \/ CacheOpenNew \/ CacheReopen \/ CacheCrash \/ UserWrite
  \/ CacheSavepoint \/ CacheRollback \/ ClearAvc
  \/ \E l \in Label : CacheRegister(l)
  \/ \E k \in 1..MaxDepth : CacheRelease(k) \/ CacheRollbackTo(k)
  \/ \E i \in Ids \ {0}, cp \in ClassPerm : CheckAccess(i, cp)

CacheSpec == CacheInit /\ [][CacheNext]_cacheVars

-------------------------------------------------------------------------------
(* Properties *)

(* The label store has its types and the cache holds answers, never an error. *)
CacheTypeOK ==
  /\ TypeOK
  /\ avc \in [AvcKeys -> {"none", "allow", "deny"}]
  /\ wrote \in BOOLEAN

(* The cached answer for an id is the policy's answer for the id's label. *)
SoundAt(i, cp) ==
  avc[AvcKey(i, cp)] # "none" => avc[AvcKey(i, cp)] = Decide(key2val[i], cp)

(* Outside a transaction no cached decision is stale: every transaction that *)
(* could have given an id another label empties the cache when it ends.      *)
SoundAtRest ==
  saved = << >> => \A i \in Ids \ {0}, cp \in ClassPerm : SoundAt(i, cp)

(* Inside a transaction too, a cached decision about an id that is on disk   *)
(* is the policy's answer for the label on disk: rows that were committed    *)
(* are filtered by the right answer.                                         *)
SoundForDurable ==
  up => \A i \in 1..DiskLen, cp \in ClassPerm :
          avc[AvcKey(i, cp)] \in {"none", Decide(Disk[i], cp)}

(* The inductive invariant: a stale decision is about an id above the disk's *)
(* last one, in a transaction that wrote.                                    *)
StaleOnlyInFlight ==
  \A i \in Ids \ {0}, cp \in ClassPerm :
    SoundAt(i, cp) \/ (saved # << >> /\ wrote /\ i > DiskLen)

===============================================================================
