---------------------------- MODULE SrtpLibrary ----------------------------
(***************************************************************************)
(* libsrtp is one library for the whole process, initialised for the first *)
(* SrtpSession and shut down after the last, while every RtcWorker thread  *)
(* creates and destroys sessions of its own.  A global mutex protects the  *)
(* usage count; srtp_create and srtp_dealloc run outside of it.            *)
(*                                                                         *)
(* A step is what a thread does between two accesses to what the threads   *)
(* share.  At most one call is under way per session; the sessions of one  *)
(* thread take turns, which is among the interleavings of these steps.     *)
(***************************************************************************)
EXTENDS Integers, FiniteSets

CONSTANTS Sessions, Nobody

ASSUME SessionsAssumption == IsFiniteSet(Sessions) /\ Nobody \notin Sessions

VARIABLES
  pc,       \* where each session's thread is in the session's calls
  inited,   \* SrtpSession::_inited
  session,  \* SrtpSession::_session # nullptr
  lock,     \* who holds g_libsrtp_lock
  count,    \* g_libsrtp_usage_count
  up        \* the library is initialised

srtpVars == <<pc, inited, session, lock, count, up>>

\* fresh: constructed; enter .. count: inside the increment; key: in
\* _do_set_key; keyed: _set_key returned; leave, shutdown: inside the
\* decrement; gone: not constructed.
PCs == {"gone", "fresh", "enter", "init", "install", "count", "key", "keyed",
        "leave", "shutdown"}

SrtpTypeOK ==
  /\ pc \in [Sessions -> PCs]
  /\ inited \in [Sessions -> BOOLEAN]
  /\ session \in [Sessions -> BOOLEAN]
  /\ lock \in Sessions \cup {Nobody}
  /\ count \in Nat
  /\ up \in BOOLEAN

SrtpInit ==
  /\ pc = [s \in Sessions |-> "gone"]
  /\ inited = [s \in Sessions |-> FALSE]
  /\ session = [s \in Sessions |-> FALSE]
  /\ lock = Nobody
  /\ count = 0
  /\ up = FALSE

Go(s, to) == pc' = [pc EXCEPT ![s] = to]

-----------------------------------------------------------------------------
(* SrtpSession *)

\* DtlsSrtpTransport makes a session when a handshake is done.
Construct(s) ==
  /\ pc[s] = "gone"
  /\ Go(s, "fresh")
  /\ UNCHANGED <<inited, session, lock, count, up>>

\* set_send or set_recv of a session without keys
SetKey(s) ==
  /\ pc[s] = "fresh"
  /\ Go(s, "enter")
  /\ UNCHANGED <<inited, session, lock, count, up>>

\* The mutex is taken and the count read.
EnterIncrement(s) ==
  /\ pc[s] = "enter"
  /\ lock = Nobody
  /\ lock' = s
  /\ Go(s, IF count = 0 THEN "init" ELSE "count")
  /\ UNCHANGED <<inited, session, count, up>>

\* The increment gives up: the mutex is released and _set_key returns false.
GiveUp(s) ==
  /\ lock' = Nobody
  /\ Go(s, "keyed")

\* srtp_init
InitLibrary(s) ==
  /\ pc[s] = "init"
  /\ \/ up' = TRUE /\ Go(s, "install") /\ UNCHANGED lock
     \/ GiveUp(s) /\ UNCHANGED up
  /\ UNCHANGED <<inited, session, count>>

\* srtp_install_event_handler; the library stays initialised if it fails
Install(s) ==
  /\ pc[s] = "install"
  /\ \/ Go(s, "count") /\ UNCHANGED lock
     \/ GiveUp(s)
  /\ UNCHANGED <<inited, session, count, up>>

\* ++g_libsrtp_usage_count, and _inited once the mutex is released
Count(s) ==
  /\ pc[s] = "count"
  /\ count' = count + 1
  /\ lock' = Nobody
  /\ inited' = [inited EXCEPT ![s] = TRUE]
  /\ Go(s, "key")
  /\ UNCHANGED <<session, up>>

\* _do_set_key: srtp_create may refuse the policy
CreateSession(s) ==
  /\ pc[s] = "key"
  /\ \E ok \in BOOLEAN : session' = [session EXCEPT ![s] = ok]
  /\ Go(s, "keyed")
  /\ UNCHANGED <<inited, lock, count, up>>

\* A destructor that leaves srtp_dealloc to the end.
DestroyKeepsSession(s) ==
  /\ pc[s] \in {"fresh", "keyed"}
  /\ Go(s, IF inited[s] THEN "leave" ELSE "gone")
  /\ UNCHANGED <<inited, session, lock, count, up>>

\* The destructor up to the mutex: srtp_dealloc
Destroy(s) ==
  /\ pc[s] \in {"fresh", "keyed"}
  /\ session' = [session EXCEPT ![s] = FALSE]
  /\ Go(s, IF inited[s] THEN "leave" ELSE "gone")
  /\ UNCHANGED <<inited, lock, count, up>>

\* The rest of the destructor under the mutex; the object is gone after it.
Decrement(s) ==
  /\ pc[s] = "leave"
  /\ lock = Nobody
  /\ count' = count - 1
  /\ inited' = [inited EXCEPT ![s] = FALSE]
  /\ IF count = 1 THEN lock' = s /\ Go(s, "shutdown")
                  ELSE Go(s, "gone") /\ UNCHANGED lock
  /\ UNCHANGED <<session, up>>

\* srtp_shutdown, which may fail
Shutdown(s) ==
  /\ pc[s] = "shutdown"
  /\ up' \in {FALSE, up}
  /\ lock' = Nobody
  /\ Go(s, "gone")
  /\ UNCHANGED <<inited, session, count>>

SrtpNext ==
  \E s \in Sessions :
    \/ Construct(s) \/ SetKey(s) \/ EnterIncrement(s) \/ InitLibrary(s)
    \/ Install(s) \/ Count(s) \/ CreateSession(s) \/ Destroy(s)
    \/ Decrement(s) \/ Shutdown(s)

SrtpSpec == SrtpInit /\ [][SrtpNext]_srtpVars

-----------------------------------------------------------------------------
(* Properties *)

\* The sessions whose use of the library is counted
Users == {s \in Sessions : inited[s]}

\* Every use is counted once and given back once, whichever of the calls
\* between them fails (_increment_libsrtp_usage_count_and_maybe_init and its
\* counterpart).
UsesAreCounted == count = Cardinality(Users)

\* No thread shuts the library down while another creates, uses or frees a
\* session, nor finds it down when it does (~SrtpSession, _do_set_key).
LibraryOutlivesSessions ==
  \A s \in Sessions : session[s] \/ pc[s] = "key" => up /\ \A r \in Sessions : pc[r] # "shutdown"

=============================================================================
