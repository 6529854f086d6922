---------------------------- MODULE RateLimiter ----------------------------
(***************************************************************************)
(* The rate limiter of the widget's public routes (widget/rate_limiter.py  *)
(* of the chatbot service) for one organization: a sorted set in Redis of  *)
(* the requests of the last window, and one per address.  Requests are     *)
(* numbered in the order of their times; two of the same microsecond,      *)
(* whose entries are one, are left out.  An entry is numbered like its     *)
(* request.  A set expires when all its entries are out of every window.   *)
(***************************************************************************)
EXTENDS Integers, FiniteSets

CONSTANTS
  Requests,   \* requests served at the same time
  MaxTurns,   \* bound of the model: requests
  Addresses,  \* IP addresses of visitors
  OrgKey,
  OrgLimit,   \* _ORG_LIMIT
  IpLimit     \* _IP_ORG_LIMIT

VARIABLES
  last,     \* requests so far
  old,      \* those up to this one began more than _WINDOW_SECONDS ago
  window,   \* key -> entries of its sorted set
  check     \* request -> what it is doing

limiterVars == <<last, old, window, check>>

Keys == Addresses \cup {OrgKey}
LimitOf(k) == IF k = OrgKey THEN OrgLimit ELSE IpLimit

\* since: old when the request took the time, where its window begins.
Idle == [at |-> "idle", key |-> OrgKey, ip |-> OrgKey, entry |-> 0, since |-> 0]

LimiterTypeOK ==
  /\ last \in 0..MaxTurns
  /\ old \in 0..last
  /\ window \in [Keys -> SUBSET (1..last)]
  /\ check \in [Requests -> [at : {"idle", "count", "record"}, key : Keys, ip : Keys,
                             entry : 0..last, since : 0..last]]

LimiterInit ==
  /\ last = 0
  /\ old = 0
  /\ window = [k \in Keys |-> {}]
  /\ check = [p \in Requests |-> Idle]

\* is_allowed: the time is taken, and the organization's key is checked first.
Arrive(p, ip) ==
  /\ check[p].at = "idle"
  /\ last < MaxTurns
  /\ last' = last + 1
  /\ check' = [check EXCEPT ![p] =
       [at |-> "count", key |-> OrgKey, ip |-> ip, entry |-> last', since |-> old]]
  /\ UNCHANGED <<old, window>>

Leave(p) == check' = [check EXCEPT ![p] = Idle]

InWindow(p) == {e \in window[check[p].key] : e > check[p].since}

\* Mutant: one request more passes than the limit says.
CountBeyond(p) ==
  /\ check[p].at = "count"
  /\ window' = [window EXCEPT ![check[p].key] = InWindow(p)]
  /\ IF Cardinality(InWindow(p)) > LimitOf(check[p].key) THEN Leave(p)
     ELSE check' = [check EXCEPT ![p].at = "record"]
  /\ UNCHANGED <<last, old>>

\* _check_and_record, the first pipeline: the set is trimmed and counted.  429 at the limit.
Count(p) ==
  /\ check[p].at = "count"
  /\ window' = [window EXCEPT ![check[p].key] = InWindow(p)]
  /\ IF Cardinality(InWindow(p)) >= LimitOf(check[p].key) THEN Leave(p)
     ELSE check' = [check EXCEPT ![p].at = "record"]
  /\ UNCHANGED <<last, old>>

\* The second records the request; the key of the address is next, then it is allowed.
Record(p) ==
  /\ check[p].at = "record"
  /\ window' = [window EXCEPT ![check[p].key] = @ \cup {check[p].entry}]
  /\ IF check[p].key = OrgKey
     THEN check' = [check EXCEPT ![p].at = "count", ![p].key = check[p].ip]
     ELSE Leave(p)
  /\ UNCHANGED <<last, old>>

\* Redis fails and the request is allowed, or it is cancelled.
FailOpen(p) ==
  /\ check[p].at # "idle"
  /\ Leave(p)
  /\ UNCHANGED <<last, old, window>>

\* Time passes.
Age ==
  /\ old < last
  /\ old' = old + 1
  /\ UNCHANGED <<last, window, check>>

LimiterNext ==
  \/ \E p \in Requests :
       Count(p) \/ Record(p) \/ FailOpen(p) \/ \E ip \in Addresses : Arrive(p, ip)
  \/ Age

-----------------------------------------------------------------------------
(* Properties.                                                             *)

\* Counting and recording are two calls, so requests pass on the same count.  Yet of
\* no window are more recorded than the limit and one less than all requests served at
\* the same time, however they overlap and whatever fails ("Atomic sliding-window check",
\* rate_limiter.py:120, would be no more than the limit).
WindowsHold ==
  \A k \in Keys :
    Cardinality({e \in window[k] : e > old}) < LimitOf(k) + Cardinality(Requests)
=============================================================================
