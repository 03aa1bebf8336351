--------------------------- MODULE KisTokenCache ---------------------------
(***************************************************************************)
(* integration/kis_auth_manager.py KISAuthManager, one in every KISClient, *)
(* and the one cache file they share, .kis_token_cache.json: also clients  *)
(* of the paper and of the live environment share it.  KISClient._request  *)
(* asks for a token for each request.                                      *)
(*                                                                         *)
(* The file is written in place: first it is emptied, then it is written.  *)
(* A token is its environment and the ticks it has left; KIS issues one    *)
(* token in a tick, and refuses more (EGW00133).                           *)
(***************************************************************************)
EXTENDS Integers

CONSTANTS
  Clients,
  Environments,
  Life,         \* ticks of a token when it is issued: expires_in, a day
  Margin,       \* expiry_margin_seconds: 300
  MaxFaults,    \* bounds the crashes and the writes that fail
  None,         \* no token
  Missing, Empty, Torn    \* what the file may be instead of a token

ASSUME TokenAssumption ==
  /\ Life \in Nat /\ Margin \in Nat \ {0} /\ Margin < Life
  /\ MaxFaults \in Nat
  /\ {None, Missing, Empty, Torn} \cap [env : Environments, left : 0 .. Life] = {}

Tokens == [env : Environments, left : 0 .. Life]

VARIABLES
  at,        \* program point of a client
  env,       \* its environment
  forced,    \* KIS_TOKEN_FORCE_REFRESH is set for it
  mem,       \* _in_memory_state
  cached,    \* what _load_cached_state returned in this call
  issued,    \* the token it was given
  waited,    \* ticks since its token was checked or issued
  file,      \* a token, or Missing, Empty, or Torn by two writers
  limited,   \* environments that had a token in this tick
  faults

vars == <<at, env, forced, mem, cached, issued, waited, file, limited, faults>>

TypeOK ==
  /\ at \in [Clients -> {"idle", "issue", "empty", "write", "use"}]
  /\ env \in [Clients -> Environments]
  /\ forced \in [Clients -> BOOLEAN]
  /\ mem \in [Clients -> Tokens \cup {None}]
  /\ cached \in [Clients -> Tokens \cup {None}]
  /\ issued \in [Clients -> Tokens \cup {None}]
  /\ waited \in [Clients -> 0 .. Margin]
  /\ file \in Tokens \cup {Missing, Empty, Torn}
  /\ limited \subseteq Environments
  /\ faults \in 0 .. MaxFaults

Init ==
  /\ at = [c \in Clients |-> "idle"]
  /\ env \in [Clients -> Environments]
  /\ forced \in [Clients -> BOOLEAN]
  /\ mem = [c \in Clients |-> None]
  /\ cached = [c \in Clients |-> None]
  /\ issued = [c \in Clients |-> None]
  /\ waited = [c \in Clients |-> 0]
  /\ file = Missing
  /\ limited = {}
  /\ faults = 0

-----------------------------------------------------------------------------
Goto(c, point) == at' = [at EXCEPT ![c] = point]

\* Mutant: the environment of the token is not looked at.
ValidAnywhere(c, t) == t # None /\ t.left > Margin

\* _is_state_valid
Valid(c, t) == t # None /\ t.env = env[c] /\ t.left > Margin

\* The file parses.
Readable == file \notin {Missing, Empty, Torn}

\* _load_cached_state: the file counts only while there is nothing in memory.
Cached(c) == IF mem[c] # None THEN mem[c] ELSE IF Readable THEN file ELSE None

\* A token for the request, and nothing left of the call.
Serve(c, t) ==
  /\ mem' = [mem EXCEPT ![c] = t]
  /\ cached' = [cached EXCEPT ![c] = None]
  /\ issued' = [issued EXCEPT ![c] = None]
  /\ Goto(c, "use")

\* get_valid_access_token
AskServed(c) ==
  /\ at[c] = "idle"
  /\ ~forced[c]
  /\ Valid(c, Cached(c))
  /\ Serve(c, Cached(c))
  /\ waited' = [waited EXCEPT ![c] = 0]
  /\ UNCHANGED <<env, forced, file, limited, faults>>

\* Mutant: a file that does not parse is an error.
AskReadable(c) ==
  /\ at[c] = "idle"
  /\ forced[c] \/ ~Valid(c, Cached(c))
  /\ mem[c] = None /\ file # Missing => Readable
  /\ cached' = [cached EXCEPT ![c] = Cached(c)]
  /\ Goto(c, "issue")
  /\ UNCHANGED <<env, forced, mem, issued, waited, file, limited, faults>>

Ask(c) ==
  /\ at[c] = "idle"
  /\ forced[c] \/ ~Valid(c, Cached(c))
  /\ cached' = [cached EXCEPT ![c] = Cached(c)]
  /\ Goto(c, "issue")
  /\ UNCHANGED <<env, forced, mem, issued, waited, file, limited, faults>>

\* Mutant: the margin is added to the life of the token.
IssueWithMargin(c) ==
  /\ at[c] = "issue"
  /\ env[c] \notin limited
  /\ limited' = limited \cup {env[c]}
  /\ issued' = [issued EXCEPT ![c] = [env |-> env[c], left |-> Life + Margin]]
  /\ waited' = [waited EXCEPT ![c] = 0]
  /\ Goto(c, "empty")
  /\ UNCHANGED <<env, forced, mem, cached, file, faults>>

\* _issue_new_access_token
Issue(c) ==
  /\ at[c] = "issue"
  /\ env[c] \notin limited
  /\ limited' = limited \cup {env[c]}
  /\ issued' = [issued EXCEPT ![c] = [env |-> env[c], left |-> Life]]
  /\ waited' = [waited EXCEPT ![c] = 0]
  /\ Goto(c, "empty")
  /\ UNCHANGED <<env, forced, mem, cached, file, faults>>

\* Mutant: the token at hand is used whether it is valid or not.
RefusedAnyway(c) ==
  /\ at[c] = "issue"
  /\ env[c] \in limited
  /\ cached[c] # None
  /\ Serve(c, cached[c])
  /\ waited' = [waited EXCEPT ![c] = 0]
  /\ UNCHANGED <<env, forced, file, limited, faults>>

\* EGW00133, and the cached token is valid still.
RefusedCached(c) ==
  /\ at[c] = "issue"
  /\ env[c] \in limited
  /\ Valid(c, cached[c])
  /\ Serve(c, cached[c])
  /\ waited' = [waited EXCEPT ![c] = 0]
  /\ UNCHANGED <<env, forced, file, limited, faults>>

\* EGW00133 without one, or any other failure: the request raises.
IssueFails(c) ==
  /\ at[c] = "issue"
  /\ cached' = [cached EXCEPT ![c] = None]
  /\ Goto(c, "idle")
  /\ UNCHANGED <<env, forced, mem, issued, waited, file, limited, faults>>

\* _persist_state: write_text opens the file ...
EmptyFile(c) ==
  /\ at[c] = "empty"
  /\ file' = Empty
  /\ Goto(c, "write")
  /\ UNCHANGED <<env, forced, mem, cached, issued, waited, limited, faults>>

\* ... and writes it.  Over what another one wrote meanwhile, the longer of the
\* two leaves its end.
WriteFile(c) ==
  /\ at[c] = "write"
  /\ file' \in {issued[c]} \cup (IF file = Empty THEN {} ELSE {Torn})
  /\ Serve(c, issued[c])
  /\ UNCHANGED <<env, forced, waited, limited, faults>>

\* The request ends.
Finish(c) ==
  /\ at[c] = "use"
  /\ Goto(c, "idle")
  /\ UNCHANGED <<env, forced, mem, cached, issued, waited, file, limited, faults>>

\* An OSError of _persist_state, which nothing catches: the token that was
\* issued is lost, and the file is as it was, emptied, or half written.
WriteFails(c) ==
  /\ at[c] \in {"empty", "write"}
  /\ faults < MaxFaults
  /\ faults' = faults + 1
  /\ file' \in {file} \cup (IF at[c] = "empty" THEN {} ELSE {Torn})
  /\ cached' = [cached EXCEPT ![c] = None]
  /\ issued' = [issued EXCEPT ![c] = None]
  /\ Goto(c, "idle")
  /\ UNCHANGED <<env, forced, mem, waited, limited>>

\* The process dies, and another takes its place.
Crash(c) ==
  /\ faults < MaxFaults
  /\ faults' = faults + 1
  /\ Goto(c, "idle")
  /\ mem' = [mem EXCEPT ![c] = None]
  /\ cached' = [cached EXCEPT ![c] = None]
  /\ issued' = [issued EXCEPT ![c] = None]
  /\ UNCHANGED <<env, forced, waited, file, limited>>

-----------------------------------------------------------------------------
Older(t) == IF t \in Tokens /\ t.left > 0 THEN [t EXCEPT !.left = @ - 1] ELSE t

\* Between the check or the issue of a token and the end of its request less
\* time passes than the margin: requests have a timeout of 15 seconds.
Tick ==
  /\ \A c \in Clients : at[c] \in {"empty", "write", "use"} => waited[c] < Margin
  /\ waited' = [c \in Clients |-> IF at[c] \in {"empty", "write", "use"}
                                  THEN waited[c] + 1 ELSE 0]
  /\ mem' = [c \in Clients |-> Older(mem[c])]
  /\ cached' = [c \in Clients |-> Older(cached[c])]
  /\ issued' = [c \in Clients |-> Older(issued[c])]
  /\ file' = Older(file)
  /\ limited' = {}
  /\ UNCHANGED <<at, env, forced, faults>>

Call(c) ==
  \/ AskServed(c) \/ Ask(c) \/ Issue(c) \/ RefusedCached(c) \/ IssueFails(c)
  \/ EmptyFile(c) \/ WriteFile(c) \/ Finish(c)

Next == Tick \/ \E c \in Clients : Call(c) \/ WriteFails(c) \/ Crash(c)

Spec == Init /\ [][Next]_vars

\* Time passes, and clients ask again and again, also while KIS has not just
\* issued a token to another one; it grants a token to one who keeps asking, and
\* the file can be written at last.
FairSpec ==
  /\ Spec
  /\ WF_vars(Tick)
  /\ \A c \in Clients :
       /\ WF_vars(Call(c))
       /\ SF_vars(env[c] \notin limited /\ (Ask(c) \/ AskServed(c)))
       /\ SF_vars(Issue(c))

-----------------------------------------------------------------------------
(* Properties *)

\* No client goes to the broker with a token of the other environment, although
\* both write to the same file.
OwnEnvironment == \A c \in Clients : mem[c] # None => mem[c].env = env[c]

\* A token does not expire while it is in use.
TokenOutlivesRequest == \A c \in Clients : at[c] = "use" => mem[c].left > 0

\* Every client gets a token again and again: no expired token in memory, no
\* token of the other environment, and no file that a crash or two writers left
\* unreadable locks it out.
ClientsAreServed == \A c \in Clients : []<>(at[c] = "use")

=============================================================================
