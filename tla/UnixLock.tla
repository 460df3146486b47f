------------------------------- MODULE UnixLock -------------------------------
(***************************************************************************)
(* The locks on a database file that os_unix.c builds from POSIX advisory  *)
(* locks.  lock[p] is the level process p holds; the operators say what a  *)
(* request to unixLock gives when nothing but another lock stands in its   *)
(* way.  The levels below are the numbers of os.h.                         *)
(***************************************************************************)
EXTENDS Integers

NO_LOCK == 0
SHARED_LOCK == 1
RESERVED_LOCK == 2
PENDING_LOCK == 3
EXCLUSIVE_LOCK == 4

LockLevel == NO_LOCK..EXCLUSIVE_LOCK

Below(lock, p, level) == \A q \in DOMAIN lock \ {p} : lock[q] < level

(* Mutation: the read lock on PENDING_BYTE is not asked for. *)
GetsShared_NoPending(lock, p) == Below(lock, p, EXCLUSIVE_LOCK)

(* SHARED: a read lock on PENDING_BYTE for a moment, then one on SHARED_FIRST. *)
GetsShared(lock, p) == Below(lock, p, PENDING_LOCK)

(* RESERVED: the write lock on RESERVED_BYTE. *)
GetsReserved(lock, p) == Below(lock, p, RESERVED_LOCK)

(* F_GETLK on RESERVED_BYTE. *)
CheckReservedLock(lock, p) == ~Below(lock, p, RESERVED_LOCK)

(* EXCLUSIVE: a write lock on PENDING_BYTE, unless it is held already, and    *)
(* one on the SHARED range; when the second is refused PENDING stays.         *)
GetsPending(lock, p) == lock[p] = PENDING_LOCK \/ Below(lock, p, PENDING_LOCK)
GetsExclusive(lock, p) == GetsPending(lock, p) /\ Below(lock, p, SHARED_LOCK)

===============================================================================
