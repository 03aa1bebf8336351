------------------------- MODULE KisTokenCacheProofs -------------------------
(***************************************************************************)
(* Proofs about the token cache, for any number of clients and             *)
(* environments, any life of a token and any margin below it.              *)
(***************************************************************************)
EXTENDS KisTokenCache, TLAPS

\* The margin covers the time since the token was checked or issued.
Lasts(c, t) == t \in Tokens /\ t.env = env[c] /\ t.left + waited[c] > Margin

\* What a client holds is its own environment's, and what it uses, or is about
\* to write and use, outlives the margin.
Holdings ==
  \A c \in Clients :
    /\ mem[c] # None => mem[c].env = env[c]
    /\ at[c] = "use" => Lasts(c, mem[c])
    /\ at[c] \in {"empty", "write"} => Lasts(c, issued[c])

TokenInv == TypeOK /\ Holdings

\* A token is a record, and none of the markers is one.
LEMMA TokenFacts ==
  /\ None \notin Tokens /\ Missing \notin Tokens /\ Empty \notin Tokens /\ Torn \notin Tokens
  /\ Life \in Nat /\ Margin \in Nat \ {0} /\ Margin < Life
BY TokenAssumption DEF TokenAssumption, Tokens

\* Time takes a tick from a token that has one.
LEMMA OlderToken ==
  ASSUME NEW t \in Tokens
  PROVE  /\ Older(t) \in Tokens
         /\ Older(t).env = t.env
         /\ Older(t).left >= t.left - 1
BY TokenAssumption DEF Older, Tokens, TokenAssumption

\* What is no token stays as it is.
LEMMA OlderNothing == ASSUME NEW t, t \notin Tokens PROVE Older(t) = t
BY DEF Older

\* Initially nobody holds a token.
LEMMA TokenInit == Init => TokenInv
BY TokenFacts, TokenAssumption DEF Init, TokenInv, TypeOK, Holdings, TokenAssumption

\* A token that is served is kept and used.
LEMMA ServeStep ==
  ASSUME TokenInv, NEW c \in Clients, NEW t \in Tokens, Serve(c, t),
         NEW n \in 0 .. Margin, waited' = [waited EXCEPT ![c] = n],
         t.env = env[c], t.left + n > Margin,
         UNCHANGED <<env, forced, limited, faults>>, file' \in Tokens \cup {Missing, Empty, Torn}
  PROVE  TokenInv'
BY TokenFacts DEF TokenInv, TypeOK, Holdings, Serve, Goto, Lasts

\* Time passes: nobody uses a token for longer than the margin.
LEMMA TickStep == ASSUME TokenInv, Tick PROVE TokenInv'
<1> USE DEF TokenInv, TypeOK, Tick
<1>1. \A t \in Tokens \cup {None} : Older(t) \in Tokens \cup {None}
  BY OlderToken, OlderNothing, TokenFacts
<1>2. file' \in Tokens \cup {Missing, Empty, Torn}
  BY OlderToken, OlderNothing, TokenFacts
<1>3. waited' \in [Clients -> 0 .. Margin]
  BY TokenFacts
<1>4. TypeOK'
  BY <1>1, <1>2, <1>3
<1>5. ASSUME NEW c \in Clients PROVE
        /\ mem'[c] # None => mem'[c].env = env'[c]
        /\ at'[c] = "use" => Lasts(c, mem[c])'
        /\ at'[c] \in {"empty", "write"} => Lasts(c, issued[c])'
  <2>1. mem'[c] = Older(mem[c]) /\ issued'[c] = Older(issued[c]) /\ at'[c] = at[c]
        /\ env'[c] = env[c]
    OBVIOUS
  <2>2. at[c] \in {"empty", "write", "use"} => waited'[c] = waited[c] + 1
    OBVIOUS
  <2>3. waited[c] \in Nat /\ \A t \in Tokens : t.left \in Nat
    BY TokenFacts DEF Tokens
  <2>4. ASSUME NEW t \in Tokens, Lasts(c, t), at[c] \in {"empty", "write", "use"}
        PROVE  /\ Older(t).env = env'[c]
               /\ Older(t).left + waited'[c] > Margin
    <3>1. Older(t) \in Tokens /\ Older(t).env = t.env /\ Older(t).left >= t.left - 1
      BY OlderToken
    <3>2. QED
      BY <2>1, <2>2, <2>3, <2>4, <3>1, TokenFacts DEF Lasts
  <2>5. mem'[c] # None => mem'[c].env = env'[c]
    <3>1. CASE mem[c] = None
      BY <2>1, <3>1, OlderNothing, TokenFacts
    <3>2. CASE mem[c] # None
      BY <2>1, <3>2, OlderToken DEF Holdings
    <3>3. QED
      BY <3>1, <3>2
  <2>6. at'[c] = "use" => Lasts(c, mem[c])'
    BY <2>1, <2>4, OlderToken DEF Holdings, Lasts
  <2>7. at'[c] \in {"empty", "write"} => Lasts(c, issued[c])'
    BY <2>1, <2>4, OlderToken DEF Holdings, Lasts
  <2>8. QED
    BY <2>5, <2>6, <2>7
<1>6. QED
  BY <1>4, <1>5 DEF Holdings

\* Every step keeps the invariant.
LEMMA TokenStep == TokenInv /\ [Next]_vars => TokenInv'
<1> SUFFICES ASSUME TokenInv, [Next]_vars PROVE TokenInv'
  OBVIOUS
<1>0. Margin \in Nat \ {0} /\ Life \in Nat /\ Margin < Life /\ None \notin Tokens
  BY TokenFacts
<1> USE DEF TokenInv, TypeOK
<1>1. ASSUME NEW c \in Clients, NEW t \in Tokens \cup {None}, Valid(c, t)
      PROVE  t \in Tokens /\ t.env = env[c] /\ t.left + 0 > Margin
  BY <1>0, <1>1 DEF Valid, Tokens
<1>2. ASSUME NEW c \in Clients PROVE Cached(c) \in Tokens \cup {None}
  BY DEF Cached, Readable
<1>3. ASSUME NEW c \in Clients, AskServed(c) PROVE TokenInv'
  <2>1. Cached(c) \in Tokens /\ Cached(c).env = env[c] /\ Cached(c).left + 0 > Margin
    BY <1>1, <1>2, <1>3 DEF AskServed
  <2>2. /\ Serve(c, Cached(c)) /\ waited' = [waited EXCEPT ![c] = 0] /\ 0 \in 0 .. Margin
        /\ UNCHANGED <<env, forced, limited, faults>>
        /\ file' \in Tokens \cup {Missing, Empty, Torn}
    BY <1>0, <1>3 DEF AskServed
  <2> HIDE DEF TokenInv
  <2>3. QED
    BY <2>1, <2>2, ServeStep
<1>4. ASSUME NEW c \in Clients, Ask(c) PROVE TokenInv'
  BY <1>2, <1>4 DEF Ask, Goto, Holdings, Lasts
<1>5. ASSUME NEW c \in Clients, Issue(c) PROVE TokenInv'
  <2> DEFINE t == [env |-> env[c], left |-> Life]
  <2>1. t \in Tokens /\ t.env = env[c] /\ t.left + 0 > Margin
    BY <1>0 DEF Tokens
  <2>2. /\ at' = [at EXCEPT ![c] = "empty"] /\ issued' = [issued EXCEPT ![c] = t]
        /\ waited' = [waited EXCEPT ![c] = 0] /\ limited' = limited \cup {env[c]}
        /\ at[c] = "issue" /\ UNCHANGED <<env, forced, mem, cached, file, faults>>
    BY <1>5 DEF Issue, Goto
  <2> HIDE DEF t
  <2>3. TypeOK'
    BY <1>0, <2>1, <2>2
  <2>4. Holdings'
    BY <1>0, <2>1, <2>2 DEF Holdings, Lasts
  <2>5. QED
    BY <2>3, <2>4
<1>6. ASSUME NEW c \in Clients, RefusedCached(c) PROVE TokenInv'
  <2>1. cached[c] \in Tokens /\ cached[c].env = env[c] /\ cached[c].left + 0 > Margin
    BY <1>1, <1>6 DEF RefusedCached
  <2>2. /\ Serve(c, cached[c]) /\ waited' = [waited EXCEPT ![c] = 0] /\ 0 \in 0 .. Margin
        /\ UNCHANGED <<env, forced, limited, faults>>
        /\ file' \in Tokens \cup {Missing, Empty, Torn}
    BY <1>0, <1>6 DEF RefusedCached
  <2> HIDE DEF TokenInv
  <2>3. QED
    BY <2>1, <2>2, ServeStep
<1>7. ASSUME NEW c \in Clients, IssueFails(c) \/ Finish(c) PROVE TokenInv'
  BY <1>7 DEF IssueFails, Finish, Goto, Holdings, Lasts
<1>8. ASSUME NEW c \in Clients, EmptyFile(c) PROVE TokenInv'
  BY <1>8 DEF EmptyFile, Goto, Holdings, Lasts
<1>9. ASSUME NEW c \in Clients, WriteFile(c) PROVE TokenInv'
  <2>1. issued[c] \in Tokens /\ issued[c].env = env[c] /\ issued[c].left + waited[c] > Margin
    BY <1>9 DEF WriteFile, Holdings, Lasts
  <2>2. waited' = [waited EXCEPT ![c] = waited[c]] /\ waited[c] \in 0 .. Margin
    BY <1>9 DEF WriteFile
  <2>3. file' \in Tokens \cup {Missing, Empty, Torn}
    BY <1>9, <2>1 DEF WriteFile
  <2>4. Serve(c, issued[c]) /\ UNCHANGED <<env, forced, limited, faults>>
    BY <1>9 DEF WriteFile
  <2> HIDE DEF TokenInv
  <2>5. QED
    BY <2>1, <2>2, <2>3, <2>4, ServeStep
<1>10. ASSUME NEW c \in Clients, Crash(c) PROVE TokenInv'
  BY <1>10, TokenAssumption DEF Crash, Goto, Holdings, Lasts, TokenAssumption
<1>11. ASSUME NEW c \in Clients, WriteFails(c) PROVE TokenInv'
  <2>1. file' \in Tokens \cup {Missing, Empty, Torn} /\ faults' \in 0 .. MaxFaults
    BY <1>11, TokenAssumption DEF WriteFails, TokenAssumption
  <2>2. /\ at' = [at EXCEPT ![c] = "idle"] /\ cached' = [cached EXCEPT ![c] = None]
        /\ issued' = [issued EXCEPT ![c] = None]
        /\ UNCHANGED <<env, forced, mem, waited, limited>>
    BY <1>11 DEF WriteFails, Goto
  <2>3. QED
    BY <2>1, <2>2 DEF Holdings, Lasts
<1>12. CASE Tick
  BY <1>12, TickStep
<1>13. CASE UNCHANGED vars
  BY <1>13 DEF vars, Holdings, Lasts
<1> HIDE DEF TokenInv
<1>14. QED
  BY <1>3, <1>4, <1>5, <1>6, <1>7, <1>8, <1>9, <1>10, <1>11, <1>12, <1>13 DEF Next, Call

\* The types of the clients, the file and the clock.
THEOREM TokenTypesCorrect == Spec => []TypeOK
<1>1. TokenInv => TypeOK
  BY DEF TokenInv
<1>2. QED
  BY TokenInit, TokenStep, <1>1, PTL DEF Spec

\* No client uses a token of another environment (_is_state_valid), however
\* many write to the one file.
THEOREM OwnEnvironmentCorrect == Spec => []OwnEnvironment
<1>1. TokenInv => OwnEnvironment
  BY DEF TokenInv, Holdings, OwnEnvironment
<1>2. QED
  BY TokenInit, TokenStep, <1>1, PTL DEF Spec

\* No token expires in use (expiry_margin_seconds), as long as a request is
\* shorter than the margin.
THEOREM TokenOutlivesRequestCorrect == Spec => []TokenOutlivesRequest
<1>1. TokenInv => TokenOutlivesRequest
  <2> SUFFICES ASSUME TokenInv, NEW c \in Clients, at[c] = "use" PROVE mem[c].left > 0
    BY DEF TokenOutlivesRequest
  <2>1. mem[c].left + waited[c] > Margin /\ waited[c] \in 0 .. Margin /\ mem[c].left \in Nat
    BY DEF TokenInv, Holdings, Lasts, TypeOK, Tokens
  <2>2. QED
    BY <2>1, TokenFacts
<1>2. QED
  BY TokenInit, TokenStep, <1>1, PTL DEF Spec

=============================================================================
