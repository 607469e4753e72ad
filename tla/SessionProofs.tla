---------------------------- MODULE SessionProofs ----------------------------
(***************************************************************************)
(* Proofs about sessions, for any number of browsers, tabs and tokens: what  *)
(* holds whatever fails, that a logout is final and a stored token good       *)
(* where the rules of use are kept, and that the tokens of a login are then   *)
(* a chain of one-time tokens.                                               *)
(***************************************************************************)
EXTENDS SessionRules, TLAPS

\* Steps of a refresh that has issued a token, and of one that has not yet.
HasIssued == {"lookup", "revoke", "granted"}
Before == {"find", "reuse", "user", "issue"}

\* Every row goes back to a login whose row is there; logins that ended, stored
\* tokens and the tokens of a refresh are rows.
RowsInv ==
    /\ \A t \in Tokens : token[t].exists =>
            token[t].login \in Tokens /\ token[token[t].login].exists
    /\ \A t \in ended : token[t].exists
    /\ \A b \in Browsers : store[b] # None => token[store[b]].exists

\* What a refresh in flight holds, and what it has issued goes back to.
CallInv(call) ==
    /\ call.step = "idle" => call = Idle
    /\ call.step # "idle" => call.given \in Tokens /\ token[call.given].exists
    /\ call.step \in Before => call.new = None /\ call.stored = None
    /\ call.step \in HasIssued =>
            /\ call.new \in Tokens /\ call.new # call.given
            /\ token[call.new].exists
            /\ token[call.new].parent = call.given
            /\ token[call.new].login = token[call.given].login
            /\ call.stored \in {None, call.new}

\* This holds whatever fails and however refreshes race.
RaceInv ==
    /\ TypeOK
    /\ RowsInv
    /\ \A w \in Tabs : CallInv(tab[w])

\* Browsers do not share a login, and a refresh holds the token its browser stores.
OwnLogin ==
    /\ \A b, c \in Browsers :
        (b # c /\ store[b] # None /\ store[c] # None)
            => token[store[b]].login # token[store[c]].login
    /\ \A w \in Tabs : tab[w].step # "idle" => tab[w].given = store[w[1]]

\* Nothing that a logout ended is active, or about to be exchanged.
EndedInv ==
    /\ \A t \in Tokens : Active(t) => token[t].login \notin ended
    /\ \A w \in Tabs : tab[w].step \in {"user", "issue"} =>
            token[tab[w].given].login \notin ended

\* Of the tokens of one login two are active only while a refresh has issued the
\* one and not yet revoked the other; a refresh that is about to issue one has the
\* only one.
OneLive ==
    /\ \A t, u \in Tokens :
        (t # u /\ Active(t) /\ Active(u) /\ token[t].login = token[u].login)
            => \E w \in Tabs : /\ tab[w].step \in {"lookup", "revoke"}
                               /\ {tab[w].given, tab[w].new} = {t, u}
    /\ \A w \in Tabs : tab[w].step \in {"user", "issue"} =>
        \A u \in Tokens :
            (Active(u) /\ token[u].login = token[tab[w].given].login) => u = tab[w].given

\* The token that was issued outlives the one it replaces.
NewOutlives ==
    \A w \in Tabs : tab[w].step \in {"lookup", "revoke"} =>
        /\ token[tab[w].new].revoked => token[tab[w].given].revoked
        /\ token[tab[w].new].expired => token[tab[w].given].expired

Turns == TakeTurns /\ OwnLogin /\ EndedInv /\ OneLive /\ NewOutlives

TurnsInv == rule # "none" => Turns

\* A stored token is revoked only between the revocation and the answer that
\* brings its successor, which is not revoked.
Calm ==
    /\ \A b \in Browsers : (store[b] # None /\ token[store[b]].revoked)
            => \E w \in Tabs : w[1] = b /\ tab[w].step = "granted"
    /\ \A w \in Tabs : /\ tab[w].step # "reuse"
                       /\ tab[w].step \in HasIssued => ~token[tab[w].new].revoked

CalmInv == rule = "calm" => Calm

-----------------------------------------------------------------------------
\* What every step keeps.

\* Rows stay, and with them the login and the parent they have.
RowsStay ==
    \A t \in Tokens : token[t].exists =>
        token'[t].exists /\ token'[t].login = token[t].login /\ token'[t].parent = token[t].parent

\* What a refresh may hold once the rows are written.
CallAfter(call) ==
    /\ call.step = "idle" => call = Idle
    /\ call.step # "idle" => call.given \in Tokens /\ token'[call.given].exists
    /\ call.step \in Before => call.new = None /\ call.stored = None
    /\ call.step \in HasIssued =>
            /\ call.new \in Tokens /\ call.new # call.given
            /\ token'[call.new].exists
            /\ token'[call.new].parent = call.given
            /\ token'[call.new].login = token'[call.given].login
            /\ call.stored \in {None, call.new}

LEMMA IdleType == Idle \in Call
BY DEF Idle, Call, Steps

\* A step of one refresh that leaves rows, stores and logins alone.
LEMMA CallMoves ==
    ASSUME RaceInv, NEW w \in Tabs, NEW call \in Call,
           tab' = [tab EXCEPT ![w] = call], CallInv(call),
           UNCHANGED <<active, token, store, ended>>
    PROVE  RaceInv'
<1>1. TypeOK' /\ RowsInv'
    BY DEF RaceInv, TypeOK, RowsInv
<1>2. ASSUME NEW v \in Tabs PROVE CallInv(tab[v])'
    <2>1. tab'[v] = call \/ tab'[v] = tab[v]
        BY DEF RaceInv, TypeOK
    <2>2. CallInv(tab[v])
        BY DEF RaceInv
    <2> QED
        BY <2>1, <2>2 DEF CallInv
<1> QED
    BY <1>1, <1>2 DEF RaceInv

\* A refresh that issues no token.
LEMMA RefreshRace ==
    ASSUME RaceInv, NEW w \in Tabs,
           \/ Refresh(w) \/ FindStored(w) \/ ReadUser(w) \/ LookupNew(w)
           \/ Fail(w) \/ LoseAnswer(w)
    PROVE  RaceInv'
<1>0. tab[w] \in Call /\ CallInv(tab[w])
    BY DEF RaceInv, TypeOK
<1> SUFFICES \E call \in Call : /\ tab' = [tab EXCEPT ![w] = call] /\ CallInv(call)
                                /\ UNCHANGED <<active, token, store, ended>>
    BY CallMoves
<1>1. CASE Refresh(w)
    <2> DEFINE call == [Idle EXCEPT !.step = "find", !.given = store[w[1]]]
    <2>1. store[w[1]] \in Tokens /\ token[store[w[1]]].exists
        BY <1>1, SessionsAssumption DEF Refresh, RaceInv, TypeOK, RowsInv
    <2>2. call \in Call /\ CallInv(call)
        BY <2>1 DEF Idle, Call, Steps, CallInv, HasIssued, Before
    <2> QED
        BY <1>1, <2>2 DEF Refresh
<1>2. CASE FindStored(w) \/ ReadUser(w)
    <2>1. PICK to \in {"user", "reuse", "denied", "issue"} :
            /\ tab[w].step \in {"find", "user"}
            /\ tab' = [tab EXCEPT ![w].step = to]
            /\ UNCHANGED <<active, token, store, ended>>
        BY <1>2 DEF FindStored, ReadUser, Step
    <2> DEFINE call == [tab[w] EXCEPT !.step = to]
    <2>2. call \in Call /\ CallInv(call) /\ tab' = [tab EXCEPT ![w] = call]
        BY <1>0, <2>1 DEF Call, Steps, CallInv, HasIssued, Before
    <2> QED
        BY <2>1, <2>2
<1>3. CASE LookupNew(w)
    <2> DEFINE found == IF Active(tab[w].new) THEN tab[w].new ELSE None
    <2> DEFINE call == [tab[w] EXCEPT !.step = "revoke", !.stored = found]
    <2>1. call \in Call /\ CallInv(call)
        BY <1>0, <1>3 DEF LookupNew, Call, Steps, CallInv, HasIssued, Before
    <2>2. tab' = [tab EXCEPT ![w] = call]
        BY <1>3 DEF LookupNew
    <2> QED
        BY <1>3, <2>1, <2>2 DEF LookupNew
<1>4. CASE Fail(w) \/ LoseAnswer(w)
    <2>1. CASE tab' = [tab EXCEPT ![w] = Idle]
        <3>1. CallInv(Idle)
            BY DEF CallInv, Idle, HasIssued, Before
        <3> QED
            BY <1>4, <2>1, <3>1, IdleType DEF Fail, LoseAnswer
    <2>2. CASE tab' = [tab EXCEPT ![w].step = "denied"] /\ Fail(w)
        <3> DEFINE call == [tab[w] EXCEPT !.step = "denied"]
        <3>1. call \in Call /\ CallInv(call) /\ tab' = [tab EXCEPT ![w] = call]
            BY <1>0, <2>2 DEF Fail, Serving, Call, Steps, CallInv, HasIssued, Before
        <3> QED
            BY <2>2, <3>1 DEF Fail
    <2> QED
        BY <1>4, <2>1, <2>2 DEF Fail, LoseAnswer
<1> QED
    BY <1>1, <1>2, <1>3, <1>4

\* A step that writes rows, and perhaps the call of one tab.
LEMMA RowsMove ==
    ASSUME RaceInv, RowsStay, token' \in [Tokens -> TokenRow], tab' \in [Tabs -> Call],
           active' \in BOOLEAN, ended' \subseteq Tokens,
           store' \in [Browsers -> Tokens \cup {None}], RowsInv',
           \A w \in Tabs : tab'[w] = tab[w] \/ CallAfter(tab'[w])
    PROVE  RaceInv'
<1>1. TypeOK'
    BY DEF TypeOK
<1>2. ASSUME NEW w \in Tabs PROVE CallInv(tab[w])'
    <2>1. CASE tab'[w] = tab[w]
        <3>1. tab[w] \in Call /\ CallInv(tab[w])
            BY DEF RaceInv, TypeOK
        <3>2. CallAfter(tab[w])
            BY <3>1 DEF CallInv, CallAfter, RowsStay, HasIssued, Before
        <3> QED
            BY <2>1, <3>2 DEF CallInv, CallAfter
    <2> QED
        BY <2>1 DEF CallInv, CallAfter
<1> QED
    BY <1>1, <1>2 DEF RaceInv

\* The other steps, one by one.
LEMMA IssueRace ==
    ASSUME RaceInv, NEW w \in Tabs, IssueTokens(w)
    PROVE  RaceInv'
<1> DEFINE g == tab[w].given
<1>1. PICK t \in Tokens :
        /\ ~token[t].exists
        /\ token' = [token EXCEPT ![t] = [NoToken EXCEPT !.exists = TRUE, !.parent = g,
                                                         !.login = token[g].login]]
        /\ tab' = [tab EXCEPT ![w].step = "lookup", ![w].new = t]
    BY DEF IssueTokens
<1>2. tab[w] \in Call /\ CallInv(tab[w]) /\ tab[w].step = "issue"
    BY DEF RaceInv, TypeOK, IssueTokens
<1>3. g \in Tokens /\ token[g].exists /\ token[g].login \in Tokens /\ t # g
      /\ token[token[g].login].exists
    BY <1>1, <1>2 DEF CallInv, RaceInv, RowsInv
<1>4. token' \in [Tokens -> TokenRow]
    BY <1>1, <1>3 DEF RaceInv, TypeOK, TokenRow, NoToken
<1>5. RowsStay
    BY <1>1 DEF RowsStay, RaceInv, TypeOK
<1>6. /\ token'[t].exists /\ token'[t].parent = g /\ token'[t].login = token[g].login
      /\ token'[g] = token[g] /\ token[g].login # t
    BY <1>1, <1>3 DEF RaceInv, TypeOK, NoToken
<1>7. RowsInv'
    <2>1. \A u \in Tokens : token'[u].exists =>
                token'[u].login \in Tokens /\ token'[token'[u].login].exists
        BY <1>1, <1>3, <1>5, <1>6 DEF RaceInv, RowsInv, TypeOK, RowsStay
    <2>2. /\ \A u \in ended' : token'[u].exists
          /\ \A b \in Browsers : store'[b] # None => token'[store'[b]].exists
        BY <1>5 DEF IssueTokens, RaceInv, RowsInv, TypeOK, RowsStay
    <2> QED
        BY <2>1, <2>2 DEF RowsInv
<1> DEFINE call == [tab[w] EXCEPT !.step = "lookup", !.new = t]
<1>8. tab' = [tab EXCEPT ![w] = call] /\ call \in Call
    BY <1>1, <1>2 DEF Call, Steps
<1>9. CallAfter(call)
    <2>1. call.step = "lookup" /\ call.given = g /\ call.new = t /\ call.stored = tab[w].stored
        BY <1>2 DEF Call
    <2>2. tab[w].stored = None
        BY <1>2 DEF CallInv, Before
    <2> HIDE DEF call
    <2> QED
        BY <1>3, <1>6, <2>1, <2>2 DEF CallAfter, Before
<1>10. ASSUME NEW v \in Tabs PROVE tab'[v] = tab[v] \/ CallAfter(tab'[v])
    <2>1. tab'[v] = tab[v] \/ tab'[v] = call
        BY <1>8 DEF RaceInv, TypeOK
    <2> QED
        BY <1>9, <2>1
<1>11. tab' \in [Tabs -> Call]
    BY <1>8 DEF RaceInv, TypeOK
<1> QED
    BY <1>4, <1>5, <1>7, <1>10, <1>11, RowsMove DEF IssueTokens, RaceInv, TypeOK

\* Rows that are only marked revoked or expired.
Marked ==
    /\ token' \in [Tokens -> TokenRow]
    /\ \A t \in Tokens : /\ token'[t].exists = token[t].exists
                         /\ token'[t].login = token[t].login
                         /\ token'[t].parent = token[t].parent

LEMMA MarkedRows ==
    ASSUME RaceInv, Marked, ended' = ended \/ ended' = {token[t].login : t \in {u \in Tokens : token[u].exists}},
           \A b \in Browsers : store'[b] \in {store[b], None}
    PROVE  RowsStay /\ RowsInv' /\ ended' \subseteq Tokens
<1>1. RowsStay
    BY DEF Marked, RowsStay
<1>2. \A u \in ended' : u \in Tokens /\ token'[u].exists
    BY DEF RaceInv, RowsInv, TypeOK, Marked
<1>3. \A u \in Tokens : token'[u].exists =>
            token'[u].login \in Tokens /\ token'[token'[u].login].exists
    BY DEF RaceInv, RowsInv, Marked
<1>4. \A b \in Browsers : store'[b] # None => token'[store'[b]].exists
    BY DEF RaceInv, RowsInv, TypeOK, Marked
<1> QED
    BY <1>1, <1>2, <1>3, <1>4 DEF RowsInv

LEMMA RevokeAllMarks ==
    ASSUME RaceInv, RevokeAllForUser
    PROVE  Marked /\ \A t \in Tokens : token'[t].exists => token'[t].revoked
<1> DEFINE row(t) == [token[t] EXCEPT !.revoked = token[t].revoked \/ token[t].exists]
<1>1. token' = [t \in Tokens |-> row(t)]
    BY DEF RevokeAllForUser
<1>2. ASSUME NEW t \in Tokens
      PROVE  /\ row(t) \in TokenRow /\ row(t).exists = token[t].exists
             /\ row(t).login = token[t].login /\ row(t).parent = token[t].parent
             /\ row(t).exists => row(t).revoked
    <2>1. token[t] \in TokenRow
        BY DEF RaceInv, TypeOK
    <2>2. (token[t].revoked \/ token[t].exists) \in BOOLEAN
        OBVIOUS
    <2> QED
        BY <2>1, <2>2 DEF TokenRow
<1> HIDE DEF row
<1> QED
    BY <1>1, <1>2 DEF Marked

LEMMA ReusedRace ==
    ASSUME RaceInv, NEW w \in Tabs, RevokeReused(w)
    PROVE  RaceInv'
<1>1. Marked
    BY RevokeAllMarks DEF RevokeReused
<1>2. RowsStay /\ RowsInv' /\ ended' \subseteq Tokens
    BY <1>1, MarkedRows DEF RevokeReused
<1> DEFINE call == [tab[w] EXCEPT !.step = "denied"]
<1>3. /\ tab' = [tab EXCEPT ![w] = call] /\ call \in Call /\ tab[w].step = "reuse"
      /\ CallInv(tab[w])
    BY DEF RevokeReused, Step, RaceInv, TypeOK, Call, Steps
<1>4. CallAfter(call)
    BY <1>1, <1>3 DEF CallAfter, CallInv, HasIssued, Before, Marked, Call
<1>5. ASSUME NEW v \in Tabs PROVE tab'[v] = tab[v] \/ CallAfter(tab'[v])
    <2>1. tab'[v] = tab[v] \/ tab'[v] = call
        BY <1>3 DEF RaceInv, TypeOK
    <2> QED
        BY <1>4, <2>1
<1> QED
    BY <1>1, <1>2, <1>3, <1>5, RowsMove DEF RevokeReused, RaceInv, TypeOK, Marked

LEMMA RevokeOldRace ==
    ASSUME RaceInv, NEW w \in Tabs, RevokeOld(w)
    PROVE  RaceInv'
<1> DEFINE g == tab[w].given
<1> DEFINE call == [tab[w] EXCEPT !.step = "granted"]
<1>1. /\ tab' = [tab EXCEPT ![w] = call] /\ call \in Call /\ tab[w].step = "revoke"
      /\ CallInv(tab[w]) /\ tab[w] \in Call
    BY DEF RevokeOld, Step, RaceInv, TypeOK, Call, Steps
<1>2. Marked
    <2>1. /\ g \in Tokens /\ tab[w].stored \in Tokens \cup {None}
          /\ token' = [token EXCEPT ![g].revoked = TRUE, ![g].replacedBy = tab[w].stored]
        BY <1>1 DEF RevokeOld, CallInv, HasIssued, Before, Call
    <2> QED
        <3> DEFINE row == [token[g] EXCEPT !.revoked = TRUE, !.replacedBy = tab[w].stored]
        <3>1. token' = [token EXCEPT ![g] = row]
            BY <2>1
        <3>2. /\ row \in TokenRow /\ row.exists = token[g].exists
              /\ row.login = token[g].login /\ row.parent = token[g].parent
            BY <2>1 DEF RaceInv, TypeOK, TokenRow
        <3> HIDE DEF row
        <3> QED
            BY <2>1, <3>1, <3>2 DEF Marked, RaceInv, TypeOK
<1>3. RowsStay /\ RowsInv' /\ ended' \subseteq Tokens
    BY <1>2, MarkedRows DEF RevokeOld
<1>4. CallAfter(call)
    BY <1>1, <1>2 DEF CallAfter, CallInv, HasIssued, Before, Marked, Call
<1>5. ASSUME NEW v \in Tabs PROVE tab'[v] = tab[v] \/ CallAfter(tab'[v])
    <2>1. tab'[v] = tab[v] \/ tab'[v] = call
        BY <1>1 DEF RaceInv, TypeOK
    <2> QED
        BY <1>4, <2>1
<1> QED
    BY <1>1, <1>2, <1>3, <1>5, RowsMove DEF RevokeOld, RaceInv, TypeOK, Marked

\* The tab is answered, and stores the new pair or clears the session.
LEMMA AnswerRace ==
    ASSUME RaceInv, NEW w \in Tabs, SetTokens(w) \/ ClearSession(w)
    PROVE  RaceInv'
<1>1. /\ tab' = [tab EXCEPT ![w] = Idle]
      /\ UNCHANGED <<active, token, ended>>
      /\ tab[w] \in Call /\ CallInv(tab[w])
    BY DEF SetTokens, ClearSession, RaceInv, TypeOK
<1>2. /\ store' \in [Browsers -> Tokens \cup {None}]
      /\ \A b \in Browsers : store'[b] # None => token[store'[b]].exists
    BY <1>1, SessionsAssumption
    DEF SetTokens, ClearSession, RaceInv, TypeOK, RowsInv, CallInv, HasIssued, Before
<1>3. RowsInv' /\ RowsStay
    BY <1>1, <1>2 DEF RaceInv, RowsInv, RowsStay
<1>4. CallAfter(Idle)
    BY DEF CallAfter, Idle, HasIssued, Before
<1>5. ASSUME NEW v \in Tabs PROVE tab'[v] = tab[v] \/ CallAfter(tab'[v])
    <2>1. tab'[v] = tab[v] \/ tab'[v] = Idle
        BY <1>1 DEF RaceInv, TypeOK
    <2> QED
        BY <1>4, <2>1
<1> QED
    BY <1>1, <1>2, <1>3, <1>5, RowsMove, IdleType DEF RaceInv, TypeOK

LEMMA LoginRace ==
    ASSUME RaceInv, NEW b \in Browsers, Login(b)
    PROVE  RaceInv'
<1>1. PICK t \in Tokens :
        /\ ~token[t].exists
        /\ token' = [token EXCEPT ![t] = [NoToken EXCEPT !.exists = TRUE, !.login = t]]
        /\ store' = [store EXCEPT ![b] = t]
    BY DEF Login
<1>2. token' \in [Tokens -> TokenRow]
    BY <1>1 DEF RaceInv, TypeOK, TokenRow, NoToken
<1>3. RowsStay /\ token'[t].exists /\ token'[t].login = t
    BY <1>1 DEF RowsStay, RaceInv, TypeOK, NoToken
<1>4. RowsInv'
    <2>1. \A u \in Tokens : token'[u].exists =>
                token'[u].login \in Tokens /\ token'[token'[u].login].exists
        BY <1>1, <1>3 DEF RaceInv, RowsInv, TypeOK, RowsStay
    <2>2. /\ \A u \in ended' : token'[u].exists
          /\ \A c \in Browsers : store'[c] # None => token'[store'[c]].exists
        BY <1>1, <1>3 DEF Login, RaceInv, RowsInv, TypeOK, RowsStay
    <2> QED
        BY <2>1, <2>2 DEF RowsInv
<1> QED
    BY <1>1, <1>2, <1>3, <1>4, RowsMove DEF Login, RaceInv, TypeOK

LEMMA LogoutRace ==
    ASSUME RaceInv, NEW b \in Browsers, Logout(b)
    PROVE  RaceInv'
<1>1. Marked
    BY RevokeAllMarks DEF Logout
<1>2. RowsStay /\ RowsInv' /\ ended' \subseteq Tokens
    BY <1>1, MarkedRows DEF Logout, RaceInv, TypeOK
<1> QED
    BY <1>1, <1>2, RowsMove DEF Logout, RaceInv, TypeOK, Marked

LEMMA ExpireRace ==
    ASSUME RaceInv, NEW t \in Tokens, Expire(t)
    PROVE  RaceInv'
<1>1. Marked
    BY DEF Expire, Marked, RaceInv, TypeOK, TokenRow
<1>2. RowsStay /\ RowsInv' /\ ended' \subseteq Tokens
    BY <1>1, MarkedRows DEF Expire
<1> QED
    BY <1>1, <1>2, RowsMove DEF Expire, RaceInv, TypeOK, Marked

LEMMA UpdateUserRace == RaceInv /\ UpdateUser => RaceInv'
<1> SUFFICES ASSUME RaceInv, UpdateUser PROVE RaceInv'
    OBVIOUS
<1>1. TypeOK' /\ RowsInv' /\ \A w \in Tabs : CallInv(tab[w])'
    BY DEF UpdateUser, RaceInv, TypeOK, RowsInv, CallInv
<1> QED
    BY <1>1 DEF RaceInv

\* The steps there are, whatever the rule.
LEMMA RuledSteps ==
    ASSUME RuledNext
    PROVE  \/ \E w \in Tabs : RefreshStep(w) \/ Fail(w) \/ LoseAnswer(w)
           \/ \E b \in Browsers : Login(b) \/ Logout(b)
           \/ UpdateUser
           \/ \E t \in Tokens : Expire(t)
BY DEF RuledNext, Next, SessionStep, CalmNext

LEMMA RaceStep == RaceInv /\ [RuledNext]_<<vars, rule>> => RaceInv'
<1> SUFFICES ASSUME RaceInv, [RuledNext]_<<vars, rule>> PROVE RaceInv'
    OBVIOUS
<1>1. CASE UNCHANGED <<vars, rule>>
    <2>1. TypeOK' /\ RowsInv' /\ \A w \in Tabs : CallInv(tab[w])'
        BY <1>1 DEF vars, RaceInv, TypeOK, RowsInv, CallInv
    <2> QED
        BY <2>1 DEF RaceInv
<1>2. CASE RuledNext
    BY <1>2, RuledSteps, RefreshRace, IssueRace, ReusedRace, RevokeOldRace, AnswerRace,
       LoginRace, LogoutRace, UpdateUserRace, ExpireRace DEF RefreshStep
<1> QED
    BY <1>1, <1>2

LEMMA RaceInit == RuledInit => RaceInv
<1> SUFFICES ASSUME Init PROVE RaceInv
    BY DEF RuledInit
<1>1. TypeOK
    BY IdleType DEF Init, TypeOK, NoToken, TokenRow
<1>2. RowsInv
    BY DEF Init, RowsInv, NoToken
<1>3. \A w \in Tabs : CallInv(tab[w])
    BY DEF Init, CallInv, Idle, HasIssued, Before
<1> QED
    BY <1>1, <1>2, <1>3 DEF RaceInv

\* Every row, browser and call holds a value of its type, whatever fails, for any
\* number of browsers, tabs and tokens.
THEOREM SessionsTyped == RuledSpec => []TypeOK
<1>1. RaceInv => TypeOK
    BY DEF RaceInv
<1> QED
    BY <1>1, RaceInit, RaceStep, PTL DEF RuledSpec

-----------------------------------------------------------------------------
\* What the steps keep where tabs take turns.

\* Two refreshes in flight are of two browsers, so they are of two logins.
LEMMA OtherLogin ==
    ASSUME RaceInv, Turns, NEW v \in Tabs, NEW w \in Tabs, v # w,
           tab[v].step # "idle", tab[w].step # "idle"
    PROVE  /\ v[1] # w[1]
           /\ token[tab[v].given].login # token[tab[w].given].login
<1>1. tab[v] # Idle /\ tab[w] # Idle
    BY DEF Idle
<1>2. v[1] # w[1]
    BY <1>1 DEF Turns, TakeTurns
<1>3. /\ tab[v].given = store[v[1]] /\ tab[w].given = store[w[1]]
      /\ tab[v].given \in Tokens /\ tab[w].given \in Tokens
    BY DEF Turns, OwnLogin, RaceInv, CallInv
<1> QED
    BY <1>2, <1>3, SessionsAssumption DEF Turns, OwnLogin

\* A step of one refresh that writes no row.
LEMMA QuietTurns ==
    ASSUME RaceInv, Turns, TakeTurns', NEW w \in Tabs,
           Refresh(w) \/ FindStored(w) \/ ReadUser(w) \/ LookupNew(w) \/ LoseAnswer(w)
    PROVE  Turns'
<1>1. UNCHANGED <<token, store, ended>>
    BY DEF Refresh, FindStored, ReadUser, LookupNew, LoseAnswer
<1>2. ASSUME NEW v \in Tabs, v # w PROVE tab'[v] = tab[v]
    BY <1>2 DEF Refresh, FindStored, ReadUser, LookupNew, LoseAnswer, Step, RaceInv, TypeOK
<1>3. tab[w] \in Call /\ CallInv(tab[w])
    BY DEF RaceInv, TypeOK
<1>4. /\ tab'[w].step # "idle" => tab'[w].given = store[w[1]]
      /\ tab[w].step \in {"lookup", "revoke"} => 
            /\ tab'[w].step = "revoke" /\ tab'[w].given = tab[w].given /\ tab'[w].new = tab[w].new
      /\ tab'[w].step \in {"lookup", "revoke"} => tab[w].step \in {"lookup", "revoke"}
      /\ tab'[w].step \in {"user", "issue"} =>
            /\ tab'[w].given = tab[w].given
            /\ tab[w].step = "user" \/ (tab[w].step = "find" /\ Active(tab[w].given))
    <2>1. tab \in [Tabs -> Call] /\ (tab[w].step # "idle" => tab[w].given = store[w[1]])
        BY DEF RaceInv, TypeOK, Turns, OwnLogin
    <2>2. CASE Refresh(w)
        BY <2>1, <2>2 DEF Refresh, Idle
    <2>3. CASE FindStored(w)
        BY <2>1, <2>3 DEF FindStored, Step, Call
    <2>4. CASE ReadUser(w)
        BY <2>1, <2>4 DEF ReadUser, Step, Call
    <2>5. CASE LookupNew(w)
        BY <2>1, <2>5 DEF LookupNew, Call
    <2>6. CASE LoseAnswer(w)
        BY <2>1, <2>6 DEF LoseAnswer, Idle
    <2> QED
        BY <2>2, <2>3, <2>4, <2>5, <2>6
<1>5. OwnLogin'
    BY <1>1, <1>2, <1>4 DEF Turns, OwnLogin
<1>6. EndedInv'
    BY <1>1, <1>2, <1>3, <1>4 DEF Turns, EndedInv, Active, CallInv
<1>7. NewOutlives'
    BY <1>1, <1>2, <1>4 DEF Turns, NewOutlives
<1>8. ASSUME NEW t \in Tokens, NEW u \in Tokens, t # u, Active(t), Active(u),
             token[t].login = token[u].login
      PROVE  \E v \in Tabs : /\ tab'[v].step \in {"lookup", "revoke"}
                              /\ {tab'[v].given, tab'[v].new} = {t, u}
    <2>1. PICK v \in Tabs : /\ tab[v].step \in {"lookup", "revoke"}
                            /\ {tab[v].given, tab[v].new} = {t, u}
        BY <1>8 DEF Turns, OneLive
    <2> QED
        BY <1>2, <1>4, <2>1
<1>9. ASSUME tab[w].step = "find", Active(tab[w].given), NEW u \in Tokens, Active(u),
             token[u].login = token[tab[w].given].login, u # tab[w].given
      PROVE  FALSE
    <2>1. PICK v \in Tabs : /\ tab[v].step \in {"lookup", "revoke"}
                            /\ {tab[v].given, tab[v].new} = {u, tab[w].given}
        BY <1>3, <1>9 DEF Turns, OneLive, CallInv
    <2>2. token[tab[v].new].login = token[tab[v].given].login
        BY <2>1 DEF RaceInv, CallInv, HasIssued
    <2>3. token[tab[v].given].login # token[tab[w].given].login
        BY <1>9, <2>1, OtherLogin
    <2> QED
        BY <1>9, <2>1, <2>2, <2>3
<1>10. OneLive'
    <2>1. ASSUME NEW v \in Tabs, tab'[v].step \in {"user", "issue"}, NEW u \in Tokens, Active(u),
                 token[u].login = token[tab'[v].given].login
          PROVE  u = tab'[v].given
        BY <1>2, <1>4, <1>9, <2>1 DEF Turns, OneLive
    <2> QED
        BY <1>1, <1>8, <2>1 DEF OneLive, Active
<1> QED
    BY <1>5, <1>6, <1>7, <1>10 DEF Turns

LEMMA IssueTurns ==
    ASSUME RaceInv, Turns, TakeTurns', NEW w \in Tabs, IssueTokens(w)
    PROVE  Turns'
<1> DEFINE g == tab[w].given
<1>1. PICK t \in Tokens :
        /\ ~token[t].exists
        /\ token' = [token EXCEPT ![t] = [NoToken EXCEPT !.exists = TRUE, !.parent = g,
                                                         !.login = token[g].login]]
        /\ tab' = [tab EXCEPT ![w].step = "lookup", ![w].new = t]
    BY DEF IssueTokens
<1>2. tab[w] \in Call /\ CallInv(tab[w]) /\ tab[w].step = "issue"
    BY DEF RaceInv, TypeOK, IssueTokens
<1>3. g \in Tokens /\ token[g].exists /\ token[g].login \in Tokens /\ t # g
    BY <1>1, <1>2 DEF CallInv, RaceInv, RowsInv
<1>4. /\ ~token'[t].revoked /\ ~token'[t].expired /\ token'[t].login = token[g].login
      /\ \A u \in Tokens : u # t => token'[u] = token[u]
    BY <1>1, <1>3 DEF RaceInv, TypeOK, NoToken
<1>5. /\ tab'[w].step = "lookup" /\ tab'[w].given = g /\ tab'[w].new = t
      /\ \A v \in Tabs : v # w => tab'[v] = tab[v]
      /\ UNCHANGED <<store, ended>>
    BY <1>1, <1>2 DEF RaceInv, TypeOK, IssueTokens, Call
<1>6. \A b \in Browsers : store[b] # None => store[b] \in Tokens /\ store[b] # t
    BY <1>1 DEF RaceInv, RowsInv, TypeOK
<1>7. \A v \in Tabs : tab[v].step # "idle" =>
        /\ tab[v].given \in Tokens /\ tab[v].given # t
        /\ tab[v].step \in HasIssued => tab[v].new \in Tokens /\ tab[v].new # t
    BY <1>1 DEF RaceInv, CallInv, HasIssued
<1>8. OwnLogin'
    <2>1. \A b, c \in Browsers :
            (b # c /\ store'[b] # None /\ store'[c] # None)
                => token'[store'[b]].login # token'[store'[c]].login
        BY <1>4, <1>5, <1>6 DEF Turns, OwnLogin
    <2>2. \A v \in Tabs : tab'[v].step # "idle" => tab'[v].given = store'[v[1]]
        BY <1>2, <1>5 DEF Turns, OwnLogin
    <2> QED
        BY <2>1, <2>2 DEF OwnLogin
<1>9. EndedInv'
    <2>1. ASSUME NEW u \in Tokens, Active(u)' PROVE token'[u].login \notin ended'
        BY <1>2, <1>4, <1>5, <2>1 DEF Turns, EndedInv, Active
    <2>2. ASSUME NEW v \in Tabs, tab'[v].step \in {"user", "issue"}
          PROVE  token'[tab'[v].given].login \notin ended'
        BY <1>2, <1>4, <1>5, <1>7, <2>2 DEF Turns, EndedInv
    <2> QED
        BY <2>1, <2>2 DEF EndedInv
<1>10. NewOutlives'
    BY <1>4, <1>5, <1>7 DEF Turns, NewOutlives, HasIssued
<1>11. \A u \in Tokens : (u # t /\ Active(u)' /\ token'[u].login = token[g].login) => u = g
    BY <1>2, <1>4 DEF Turns, OneLive, Active
<1>12. OneLive'
    <2>1. ASSUME NEW u \in Tokens, NEW x \in Tokens, u # x, Active(u)', Active(x)',
                 token'[u].login = token'[x].login
          PROVE  \E v \in Tabs : /\ tab'[v].step \in {"lookup", "revoke"}
                                  /\ {tab'[v].given, tab'[v].new} = {u, x}
        <3>1. CASE u = t \/ x = t
            BY <1>4, <1>5, <1>11, <2>1, <3>1
        <3>2. CASE u # t /\ x # t
            <4>1. PICK v \in Tabs : /\ tab[v].step \in {"lookup", "revoke"}
                                    /\ {tab[v].given, tab[v].new} = {u, x}
                BY <1>4, <2>1, <3>2 DEF Turns, OneLive, Active
            <4> QED
                BY <1>2, <1>5, <4>1
        <3> QED
            BY <3>1, <3>2
    <2>2. ASSUME NEW v \in Tabs, tab'[v].step \in {"user", "issue"}, NEW u \in Tokens,
                 Active(u)', token'[u].login = token'[tab'[v].given].login
          PROVE  u = tab'[v].given
        <3>1. v # w /\ tab'[v] = tab[v] /\ tab[v].given \in Tokens /\ tab[v].given # t
            BY <1>5, <1>7, <2>2
        <3>2. token[tab[v].given].login # token[g].login
            BY <1>2, <2>2, <3>1, OtherLogin
        <3> QED
            BY <1>4, <2>2, <3>1, <3>2 DEF Turns, OneLive, Active
    <2> QED
        BY <2>1, <2>2 DEF OneLive
<1> QED
    BY <1>8, <1>9, <1>10, <1>12 DEF Turns

LEMMA ReusedTurns ==
    ASSUME RaceInv, Turns, TakeTurns', NEW w \in Tabs, RevokeReused(w)
    PROVE  Turns'
<1>1. /\ Marked /\ \A t \in Tokens : token'[t].exists => token'[t].revoked
      /\ \A t \in Tokens : token'[t].expired = token[t].expired
    BY RevokeAllMarks DEF RevokeReused, RevokeAllForUser, RaceInv, TypeOK, TokenRow
<1>2. /\ tab'[w].step = "denied" /\ tab'[w].given = tab[w].given /\ tab[w].step = "reuse"
      /\ \A v \in Tabs : v # w => tab'[v] = tab[v]
      /\ UNCHANGED <<store, ended>>
    BY DEF RevokeReused, Step, RaceInv, TypeOK, Call
<1>3. \A t \in Tokens : ~Active(t)'
    BY <1>1 DEF Active
<1>4. OwnLogin'
    BY <1>1, <1>2 DEF Turns, OwnLogin, Marked, RaceInv, TypeOK
<1>5. EndedInv'
    BY <1>1, <1>2, <1>3 DEF Turns, EndedInv, Marked, RaceInv, CallInv
<1>6. OneLive'
    BY <1>3 DEF OneLive
<1>7. NewOutlives'
    BY <1>1, <1>2 DEF Turns, NewOutlives, Marked, RaceInv, CallInv, HasIssued
<1> QED
    BY <1>4, <1>5, <1>6, <1>7 DEF Turns

\* The row that a refresh was given is revoked, and no other row.
LEMMA RevokedOld ==
    ASSUME RaceInv, NEW w \in Tabs, RevokeOld(w)
    PROVE  /\ Marked
           /\ token'[tab[w].given].revoked
           /\ \A t \in Tokens \ {tab[w].given} : token'[t] = token[t]
<1> DEFINE g == tab[w].given
<1> DEFINE row == [token[g] EXCEPT !.revoked = TRUE, !.replacedBy = tab[w].stored]
<1>1. g \in Tokens /\ tab[w].stored \in Tokens \cup {None} /\ token' = [token EXCEPT ![g] = row]
    BY DEF RevokeOld, Step, RaceInv, TypeOK, CallInv, HasIssued
<1>2. /\ row \in TokenRow /\ row.exists = token[g].exists /\ row.revoked = TRUE
      /\ row.login = token[g].login /\ row.parent = token[g].parent
      /\ row.expired = token[g].expired
    <2>1. token[g] \in TokenRow
        BY <1>1 DEF RaceInv, TypeOK
    <2> QED
        BY <1>1, <2>1 DEF TokenRow
<1> HIDE DEF row
<1> QED
    BY <1>1, <1>2 DEF Marked, RaceInv, TypeOK

LEMMA RevokeOldTurns ==
    ASSUME RaceInv, Turns, TakeTurns', NEW w \in Tabs, RevokeOld(w)
    PROVE  Turns'
<1> DEFINE g == tab[w].given
<1>1. Marked /\ token'[g].revoked
    BY RevokedOld
<1>0. \A t \in Tokens \ {g} : token'[t] = token[t]
    BY RevokedOld
<1>2. /\ tab'[w].step = "granted" /\ tab'[w].given = g /\ tab[w].step = "revoke"
      /\ \A v \in Tabs : v # w => tab'[v] = tab[v]
      /\ UNCHANGED <<store, ended>>
      /\ g \in Tokens
    BY DEF RevokeOld, Step, RaceInv, TypeOK, Call, CallInv
<1>3. ASSUME NEW t \in Tokens, Active(t)' PROVE Active(t) /\ t # g
    <2>1. t # g
        BY <1>1, <1>3 DEF Active
    <2> QED
        BY <1>0, <1>3, <2>1 DEF Active
<1>4. OwnLogin'
    BY <1>1, <1>2 DEF Turns, OwnLogin, Marked, RaceInv, TypeOK
<1>5. EndedInv'
    BY <1>1, <1>2, <1>3 DEF Turns, EndedInv, Marked, RaceInv, CallInv
<1>6. OneLive'
    <2>1. ASSUME NEW t \in Tokens, NEW u \in Tokens, t # u, Active(t)', Active(u)',
                 token'[t].login = token'[u].login
          PROVE  \E v \in Tabs : /\ tab'[v].step \in {"lookup", "revoke"}
                                  /\ {tab'[v].given, tab'[v].new} = {t, u}
        <3>1. PICK v \in Tabs : /\ tab[v].step \in {"lookup", "revoke"}
                                /\ {tab[v].given, tab[v].new} = {t, u}
            <4>1. Active(t) /\ Active(u) /\ token[t].login = token[u].login
                BY <1>1, <1>3, <2>1 DEF Marked
            <4> QED
                BY <2>1, <4>1 DEF Turns, OneLive
        <3> QED
            BY <1>2, <1>3, <2>1, <3>1
    <2>2. ASSUME NEW v \in Tabs, tab'[v].step \in {"user", "issue"}, NEW u \in Tokens,
                 Active(u)', token'[u].login = token'[tab'[v].given].login
          PROVE  u = tab'[v].given
        <3>1. v # w /\ tab'[v] = tab[v] /\ tab[v].given \in Tokens
            BY <1>2, <2>2 DEF RaceInv, CallInv
        <3> QED
            BY <1>1, <1>3, <2>2, <3>1 DEF Turns, OneLive, Marked
    <2> QED
        BY <2>1, <2>2 DEF OneLive
<1>7. NewOutlives'
    <2>1. ASSUME NEW v \in Tabs, tab'[v].step \in {"lookup", "revoke"}
          PROVE  /\ token'[tab'[v].new].revoked => token'[tab'[v].given].revoked
                 /\ token'[tab'[v].new].expired => token'[tab'[v].given].expired
        <3>1. v # w /\ tab'[v] = tab[v]
            BY <1>2, <2>1
        <3>2. /\ tab[v].given \in Tokens /\ tab[v].new \in Tokens
              /\ token[tab[v].new].login = token[tab[v].given].login
            BY <2>1, <3>1 DEF RaceInv, CallInv, HasIssued
        <3>3. token[tab[v].given].login # token[g].login
            BY <1>2, <2>1, <3>1, OtherLogin
        <3>4. token'[tab[v].new] = token[tab[v].new] /\ token'[tab[v].given] = token[tab[v].given]
            BY <1>0, <3>2, <3>3
        <3> QED
            BY <2>1, <3>1, <3>4 DEF Turns, NewOutlives
    <2> QED
        BY <2>1 DEF NewOutlives
<1> QED
    BY <1>4, <1>5, <1>6, <1>7 DEF Turns

LEMMA AnswerTurns ==
    ASSUME RaceInv, Turns, TakeTurns', NEW w \in Tabs, SetTokens(w) \/ ClearSession(w)
    PROVE  Turns'
<1>1. /\ tab'[w] = Idle /\ tab[w].step \in {"granted", "denied"}
      /\ \A v \in Tabs : v # w => tab'[v] = tab[v]
      /\ UNCHANGED <<token, ended>>
      /\ \A b \in Browsers : b # w[1] => store'[b] = store[b]
      /\ tab[w] \in Call /\ CallInv(tab[w])
    BY DEF SetTokens, ClearSession, RaceInv, TypeOK
<1>2. store'[w[1]] # None => 
        /\ store[w[1]] # None
        /\ token[store'[w[1]]].login = token[store[w[1]]].login
    <2>1. CASE SetTokens(w)
        <3>1. store'[w[1]] = tab[w].new
            BY <2>1, SessionsAssumption DEF SetTokens, RaceInv, TypeOK
        <3>2. /\ tab[w].given = store[w[1]] /\ tab[w].given \in Tokens
              /\ token[tab[w].new].login = token[tab[w].given].login
            BY <1>1, <2>1 DEF SetTokens, Turns, OwnLogin, CallInv, HasIssued
        <3> QED
            BY <3>1, <3>2, SessionsAssumption
    <2>2. CASE ClearSession(w)
        BY <2>2, SessionsAssumption DEF ClearSession, RaceInv, TypeOK
    <2> QED
        BY <2>1, <2>2
<1>3. ASSUME NEW v \in Tabs, tab'[v].step # "idle"
      PROVE  v # w /\ tab'[v] = tab[v] /\ v[1] # w[1] /\ v[1] \in Browsers
    <2>1. v # w
        BY <1>1, <1>3 DEF Idle
    <2> QED
        BY <1>1, <1>3, <2>1, OtherLogin, SessionsAssumption
<1>4. OwnLogin'
    <2>1. \A b, c \in Browsers :
            (b # c /\ store'[b] # None /\ store'[c] # None)
                => token'[store'[b]].login # token'[store'[c]].login
        BY <1>1, <1>2 DEF Turns, OwnLogin
    <2>2. \A v \in Tabs : tab'[v].step # "idle" => tab'[v].given = store'[v[1]]
        BY <1>1, <1>3 DEF Turns, OwnLogin
    <2> QED
        BY <2>1, <2>2 DEF OwnLogin
<1>5. EndedInv'
    BY <1>1, <1>3 DEF Turns, EndedInv, Active
<1>6. OneLive'
    <2>1. ASSUME NEW t \in Tokens, NEW u \in Tokens, t # u, Active(t)', Active(u)',
                 token'[t].login = token'[u].login
          PROVE  \E v \in Tabs : /\ tab'[v].step \in {"lookup", "revoke"}
                                  /\ {tab'[v].given, tab'[v].new} = {t, u}
        <3>1. PICK v \in Tabs : /\ tab[v].step \in {"lookup", "revoke"}
                                /\ {tab[v].given, tab[v].new} = {t, u}
            BY <1>1, <2>1 DEF Turns, OneLive, Active
        <3> QED
            BY <1>1, <3>1
    <2>2. ASSUME NEW v \in Tabs, tab'[v].step \in {"user", "issue"}, NEW u \in Tokens,
                 Active(u)', token'[u].login = token'[tab'[v].given].login
          PROVE  u = tab'[v].given
        BY <1>1, <1>3, <2>2 DEF Turns, OneLive, Active
    <2> QED
        BY <2>1, <2>2 DEF OneLive
<1>7. NewOutlives'
    BY <1>1, <1>3 DEF Turns, NewOutlives
<1> QED
    BY <1>4, <1>5, <1>6, <1>7 DEF Turns

LEMMA LoginTurns ==
    ASSUME RaceInv, Turns, TakeTurns', NEW b \in Browsers, Undisturbed(b), Login(b)
    PROVE  Turns'
<1>1. PICK t \in Tokens :
        /\ ~token[t].exists
        /\ token' = [token EXCEPT ![t] = [NoToken EXCEPT !.exists = TRUE, !.login = t]]
        /\ store' = [store EXCEPT ![b] = t]
    BY DEF Login
<1>2. /\ token'[t].exists /\ token'[t].login = t /\ store'[b] = t
      /\ \A u \in Tokens : u # t => token'[u] = token[u]
      /\ \A c \in Browsers : c # b => store'[c] = store[c]
      /\ UNCHANGED <<tab, ended>>
    BY <1>1 DEF RaceInv, TypeOK, NoToken, Login
<1>3. \A u \in Tokens : token[u].exists => token[u].login # t /\ u # t
    BY <1>1 DEF RaceInv, RowsInv
<1>4. \A c \in Browsers : store[c] # None => store[c] \in Tokens /\ token[store[c]].exists
    BY DEF RaceInv, RowsInv, TypeOK
<1>5. \A v \in Tabs : tab[v].step # "idle" =>
        /\ tab[v].given \in Tokens /\ token[tab[v].given].exists
        /\ tab[v].step \in HasIssued => tab[v].new \in Tokens /\ token[tab[v].new].exists
        /\ v[1] # b /\ v[1] \in Browsers
    BY SessionsAssumption DEF RaceInv, CallInv, HasIssued, Undisturbed, Idle
<1>6. OwnLogin'
    <2>1. \A c, d \in Browsers :
            (c # d /\ store'[c] # None /\ store'[d] # None)
                => token'[store'[c]].login # token'[store'[d]].login
        BY <1>2, <1>3, <1>4 DEF Turns, OwnLogin
    <2>2. \A v \in Tabs : tab'[v].step # "idle" => tab'[v].given = store'[v[1]]
        BY <1>2, <1>5 DEF Turns, OwnLogin
    <2> QED
        BY <2>1, <2>2 DEF OwnLogin
<1>7. EndedInv'
    <2>1. ASSUME NEW u \in Tokens, Active(u)' PROVE token'[u].login \notin ended'
        <3>1. CASE u = t
            BY <1>1, <1>2, <3>1 DEF RaceInv, RowsInv
        <3>2. CASE u # t
            BY <1>2, <2>1, <3>2 DEF Turns, EndedInv, Active
        <3> QED
            BY <3>1, <3>2
    <2>2. ASSUME NEW v \in Tabs, tab'[v].step \in {"user", "issue"}
          PROVE  token'[tab'[v].given].login \notin ended'
        BY <1>2, <1>3, <1>5, <2>2 DEF Turns, EndedInv
    <2> QED
        BY <2>1, <2>2 DEF EndedInv
<1>8. \A u \in Tokens : (u # t /\ Active(u)') => Active(u) /\ token'[u].login # t
    BY <1>2, <1>3 DEF Active
<1>9. OneLive'
    <2>1. ASSUME NEW x \in Tokens, NEW u \in Tokens, x # u, Active(x)', Active(u)',
                 token'[x].login = token'[u].login
          PROVE  \E v \in Tabs : /\ tab'[v].step \in {"lookup", "revoke"}
                                  /\ {tab'[v].given, tab'[v].new} = {x, u}
        BY <1>2, <1>8, <2>1 DEF Turns, OneLive
    <2>2. ASSUME NEW v \in Tabs, tab'[v].step \in {"user", "issue"}, NEW u \in Tokens,
                 Active(u)', token'[u].login = token'[tab'[v].given].login
          PROVE  u = tab'[v].given
        BY <1>2, <1>3, <1>5, <1>8, <2>2 DEF Turns, OneLive
    <2> QED
        BY <2>1, <2>2 DEF OneLive
<1>10. NewOutlives'
    BY <1>2, <1>3, <1>5 DEF Turns, NewOutlives, HasIssued
<1> QED
    BY <1>6, <1>7, <1>9, <1>10 DEF Turns

LEMMA LogoutTurns ==
    ASSUME RaceInv, Turns, TakeTurns', NEW b \in Browsers,
           \A c \in Browsers : Undisturbed(c), Logout(b)
    PROVE  Turns'
<1>1. Marked /\ \A t \in Tokens : token'[t].exists => token'[t].revoked
    BY RevokeAllMarks DEF Logout
<1>2. \A v \in Tabs : tab'[v].step = "idle"
    BY SessionsAssumption DEF Logout, Undisturbed, Idle
<1>3. \A t \in Tokens : ~Active(t)'
    BY <1>1 DEF Active
<1>4. \A c \in Browsers : store'[c] # None => store'[c] = store[c] /\ store[c] \in Tokens
    BY DEF Logout, RaceInv, TypeOK
<1>5. OwnLogin'
    BY <1>1, <1>2, <1>4 DEF Turns, OwnLogin, Marked
<1>6. EndedInv' /\ OneLive' /\ NewOutlives'
    BY <1>2, <1>3 DEF EndedInv, OneLive, NewOutlives
<1> QED
    BY <1>5, <1>6 DEF Turns

LEMMA ExpireTurns ==
    ASSUME RaceInv, Turns, TakeTurns', NEW t \in Tokens, Expire(t)
    PROVE  Turns'
<1>1. /\ Marked
      /\ \A u \in Tokens : /\ token'[u].revoked = token[u].revoked
                            /\ token'[u].expired <=> (token[u].expired \/ u = t)
      /\ UNCHANGED <<store, tab, ended>>
    BY DEF Expire, Marked, RaceInv, TypeOK, TokenRow
<1>2. ASSUME NEW u \in Tokens, Active(u)' PROVE Active(u)
    <2>1. u # t
        BY <1>1, <1>2 DEF Active
    <2>2. token'[u] = token[u]
        BY <2>1 DEF Expire, RaceInv, TypeOK
    <2> QED
        BY <1>2, <2>2 DEF Active
<1>3. \A b \in Browsers : store[b] # None => store[b] \in Tokens
    BY DEF RaceInv, TypeOK
<1>4. \A v \in Tabs : tab[v].step # "idle" => tab[v].given \in Tokens
    BY DEF RaceInv, CallInv
<1>5. OwnLogin'
    BY <1>1, <1>3 DEF Turns, OwnLogin, Marked
<1>6. EndedInv'
    BY <1>1, <1>2, <1>4 DEF Turns, EndedInv, Marked
<1>7. OneLive'
    <2>1. ASSUME NEW x \in Tokens, NEW u \in Tokens, x # u, Active(x)', Active(u)',
                 token'[x].login = token'[u].login
          PROVE  \E v \in Tabs : /\ tab'[v].step \in {"lookup", "revoke"}
                                  /\ {tab'[v].given, tab'[v].new} = {x, u}
        <3>1. Active(x) /\ Active(u) /\ token[x].login = token[u].login
            BY <1>1, <1>2, <2>1 DEF Marked
        <3> QED
            BY <1>1, <2>1, <3>1 DEF Turns, OneLive
    <2>2. ASSUME NEW v \in Tabs, tab'[v].step \in {"user", "issue"}, NEW u \in Tokens,
                 Active(u)', token'[u].login = token'[tab'[v].given].login
          PROVE  u = tab'[v].given
        BY <1>1, <1>2, <1>4, <2>2 DEF Turns, OneLive, Marked
    <2> QED
        BY <2>1, <2>2 DEF OneLive
<1>8. NewOutlives'
    <2>1. ASSUME NEW v \in Tabs, tab'[v].step \in {"lookup", "revoke"}
          PROVE  /\ token'[tab'[v].new].revoked => token'[tab'[v].given].revoked
                 /\ token'[tab'[v].new].expired => token'[tab'[v].given].expired
        <3>1. /\ tab'[v] = tab[v] /\ tab[v].given \in Tokens /\ tab[v].new \in Tokens
              /\ token[tab[v].new].parent = tab[v].given
              /\ token[tab[v].new].revoked => token[tab[v].given].revoked
              /\ token[tab[v].new].expired => token[tab[v].given].expired
            BY <1>1, <2>1 DEF RaceInv, CallInv, HasIssued, Turns, NewOutlives
        <3>2. /\ token[tab[v].given].expired => token'[tab[v].given].expired
              /\ token[tab[v].given].revoked => token'[tab[v].given].revoked
              /\ token'[tab[v].new].revoked => token[tab[v].new].revoked
            BY <3>1 DEF Expire, RaceInv, TypeOK, TokenRow
        <3>3. CASE tab[v].new = t
            <4>1. token[tab[v].given].expired
                BY <3>1, <3>3, SessionsAssumption DEF Expire
            <4> QED
                BY <3>1, <3>2, <4>1
        <3>4. CASE tab[v].new # t
            <4>1. token'[tab[v].new] = token[tab[v].new]
                BY <3>1, <3>4 DEF Expire, RaceInv, TypeOK
            <4> QED
                BY <3>1, <3>2, <4>1
        <3> QED
            BY <3>3, <3>4
    <2> QED
        BY <2>1 DEF NewOutlives
<1> QED
    BY <1>5, <1>6, <1>7, <1>8 DEF Turns

\* A step is one of these where the rule is not "none".
LEMMA TurnsSteps ==
    ASSUME RuledNext, rule # "none"
    PROVE  /\ TakeTurns'
           /\ \/ \E w \in Tabs : RefreshStep(w) \/ (rule = "turns" /\ LoseAnswer(w))
              \/ \E b \in Browsers : Undisturbed(b) /\ Login(b)
              \/ \E b \in Browsers :
                    /\ \A c \in Browsers : Undisturbed(c)
                    /\ Logout(b)
                    /\ rule = "calm" => \A c \in Browsers \ {b} : store[c] = None
              \/ UpdateUser
              \/ \E t \in Tokens : Expire(t)
BY DEF RuledNext, CalmNext, LastBrowser

LEMMA TurnsInit == RuledInit => TurnsInv
<1> SUFFICES ASSUME Init PROVE Turns
    BY DEF RuledInit, TurnsInv
<1>1. \A w \in Tabs : tab[w] = Idle /\ tab[w].step = "idle"
    BY DEF Init, Idle
<1>2. (\A t \in Tokens : ~Active(t)) /\ (\A b \in Browsers : store[b] = None) /\ ended = {}
    BY DEF Init, Active, NoToken
<1> QED
    BY <1>1, <1>2 DEF Turns, TakeTurns, OwnLogin, EndedInv, OneLive, NewOutlives

LEMMA TurnsStep == RaceInv /\ TurnsInv /\ [RuledNext]_<<vars, rule>> => TurnsInv'
<1> SUFFICES ASSUME RaceInv, TurnsInv, [RuledNext]_<<vars, rule>>, rule' # "none" PROVE Turns'
    BY DEF TurnsInv
<1>1. rule' = rule /\ Turns
    BY DEF RuledNext, TurnsInv
<1>2. CASE UNCHANGED vars
    BY <1>1, <1>2 DEF vars, Turns, TakeTurns, OwnLogin, EndedInv, OneLive, NewOutlives, Active
<1>3. CASE RuledNext
    <2>1. TakeTurns'
        BY <1>1, <1>3, TurnsSteps
    <2>2. ASSUME UpdateUser PROVE Turns'
        BY <1>1, <2>2 DEF UpdateUser, Turns, TakeTurns, OwnLogin, EndedInv, OneLive, NewOutlives, Active
    <2> QED
        BY <1>1, <1>3, <2>1, <2>2, TurnsSteps, QuietTurns, IssueTurns, ReusedTurns, RevokeOldTurns,
           AnswerTurns, LoginTurns, LogoutTurns, ExpireTurns DEF RefreshStep
<1> QED
    BY <1>2, <1>3 DEF vars

\* USE-CASES.md, AUTH-08: after a logout that meets no refresh in flight, no token
\* that goes back to a login before it is active, in any browser, for any number of
\* browsers, tabs and tokens, and whether or not answers are lost.
THEOREM LogoutFinal == RuledSpec => []LogoutIsFinal
<1>1. TurnsInv => LogoutIsFinal
    BY DEF TurnsInv, Turns, EndedInv, LogoutIsFinal
<1> QED
    BY <1>1, RaceInit, RaceStep, TurnsInit, TurnsStep, PTL DEF RuledSpec

-----------------------------------------------------------------------------
\* What the steps keep where no answer is lost either.

\* A step of one refresh that writes no row.
LEMMA QuietCalm ==
    ASSUME RaceInv, Turns, Calm, NEW w \in Tabs,
           Refresh(w) \/ FindStored(w) \/ ReadUser(w) \/ LookupNew(w)
    PROVE  Calm'
<1>1. /\ UNCHANGED <<token, store>>
      /\ tab \in [Tabs -> Call] /\ CallInv(tab[w])
      /\ tab[w].step # "idle" => tab[w].given = store[w[1]]
    BY DEF Refresh, FindStored, ReadUser, LookupNew, RaceInv, TypeOK, Turns, OwnLogin
<1>2. ASSUME NEW v \in Tabs, v # w PROVE tab'[v] = tab[v]
    BY <1>2 DEF Refresh, FindStored, ReadUser, LookupNew, Step, RaceInv, TypeOK
<1>3. /\ tab[w].step # "granted"
      /\ tab'[w].step \in HasIssued => tab[w].step \in HasIssued /\ tab'[w].new = tab[w].new
    <2>1. CASE Refresh(w)
        BY <1>1, <2>1 DEF Refresh, Idle, HasIssued
    <2>2. CASE FindStored(w)
        BY <1>1, <2>2 DEF FindStored, Step, Call, HasIssued
    <2>3. CASE ReadUser(w)
        BY <1>1, <2>3 DEF ReadUser, Step, Call, HasIssued
    <2>4. CASE LookupNew(w)
        BY <1>1, <2>4 DEF LookupNew, Call, HasIssued
    <2> QED
        BY <2>1, <2>2, <2>3, <2>4
<1>4. tab'[w].step # "reuse"
    <2>1. CASE FindStored(w)
        <3>1. SUFFICES ASSUME tab'[w].step = "reuse" PROVE FALSE
            OBVIOUS
        <3>2. tab[w].given \in Tokens /\ token[tab[w].given].exists /\ tab[w].step = "find"
            BY <1>1, <2>1 DEF CallInv, FindStored, Step
        <3>3. token[tab[w].given].revoked /\ store[w[1]] # None
            BY <1>1, <2>1, <3>1, <3>2, SessionsAssumption DEF FindStored, Step, Active
        <3>4. PICK v \in Tabs : v[1] = w[1] /\ tab[v].step = "granted"
            BY <1>1, <3>2, <3>3, SessionsAssumption DEF Calm
        <3> QED
            BY <3>2, <3>4, OtherLogin
    <2>2. CASE Refresh(w) \/ ReadUser(w) \/ LookupNew(w)
        BY <1>1, <2>2 DEF Refresh, ReadUser, LookupNew, Step, Idle, Call
    <2> QED
        BY <2>1, <2>2
<1> QED
    BY <1>1, <1>2, <1>3, <1>4 DEF Calm

LEMMA IssueCalm ==
    ASSUME RaceInv, Turns, Calm, NEW w \in Tabs, IssueTokens(w)
    PROVE  Calm'
<1> DEFINE g == tab[w].given
<1>1. PICK t \in Tokens :
        /\ ~token[t].exists
        /\ token' = [token EXCEPT ![t] = [NoToken EXCEPT !.exists = TRUE, !.parent = g,
                                                         !.login = token[g].login]]
        /\ tab' = [tab EXCEPT ![w].step = "lookup", ![w].new = t]
    BY DEF IssueTokens
<1>2. /\ ~token'[t].revoked
      /\ \A u \in Tokens : u # t => token'[u] = token[u]
      /\ tab'[w].step = "lookup" /\ tab'[w].new = t /\ tab[w].step = "issue"
      /\ \A v \in Tabs : v # w => tab'[v] = tab[v]
      /\ UNCHANGED store
    BY <1>1 DEF RaceInv, TypeOK, NoToken, IssueTokens, Call
<1>3. \A b \in Browsers : store[b] # None => store[b] \in Tokens /\ store[b] # t
    BY <1>1 DEF RaceInv, RowsInv, TypeOK
<1>4. \A v \in Tabs : tab[v].step \in HasIssued => tab[v].new \in Tokens /\ tab[v].new # t
    BY <1>1 DEF RaceInv, CallInv, HasIssued
<1>5. ASSUME NEW b \in Browsers, store'[b] # None, token'[store'[b]].revoked
      PROVE  \E v \in Tabs : v[1] = b /\ tab'[v].step = "granted"
    BY <1>2, <1>3, <1>5 DEF Calm
<1>6. ASSUME NEW v \in Tabs
      PROVE  /\ tab'[v].step # "reuse"
             /\ tab'[v].step \in HasIssued => ~token'[tab'[v].new].revoked
    <2>1. CASE v = w
        BY <1>2, <2>1
    <2>2. CASE v # w
        BY <1>2, <1>4, <2>2 DEF Calm
    <2> QED
        BY <2>1, <2>2
<1> QED
    BY <1>5, <1>6 DEF Calm

LEMMA RevokeOldCalm ==
    ASSUME RaceInv, Turns, Calm, NEW w \in Tabs, RevokeOld(w)
    PROVE  Calm'
<1> DEFINE g == tab[w].given
<1>1. \A t \in Tokens \ {g} : token'[t] = token[t]
    BY RevokedOld
<1>2. /\ tab'[w].step = "granted" /\ tab'[w].new = tab[w].new /\ tab[w].step = "revoke"
      /\ \A v \in Tabs : v # w => tab'[v] = tab[v]
      /\ UNCHANGED store
      /\ g \in Tokens /\ g = store[w[1]]
    BY DEF RevokeOld, Step, RaceInv, TypeOK, Call, CallInv, Turns, OwnLogin
<1>3. \A v \in Tabs : tab[v].step \in HasIssued =>
        /\ tab[v].given \in Tokens /\ tab[v].new \in Tokens /\ tab[v].new # tab[v].given
        /\ token[tab[v].new].login = token[tab[v].given].login
    BY DEF RaceInv, CallInv, HasIssued
<1>4. ASSUME NEW b \in Browsers, store'[b] # None, token'[store'[b]].revoked
      PROVE  \E v \in Tabs : v[1] = b /\ tab'[v].step = "granted"
    <2>1. CASE store[b] = g
        BY <1>2, <1>4, <2>1, SessionsAssumption DEF Turns, OwnLogin
    <2>2. CASE store[b] # g
        <3>1. store[b] \in Tokens /\ token'[store[b]] = token[store[b]]
            BY <1>1, <1>2, <1>4, <2>2 DEF RaceInv, TypeOK
        <3> QED
            BY <1>2, <1>4, <3>1 DEF Calm
    <2> QED
        BY <2>1, <2>2
<1>5. ASSUME NEW v \in Tabs, tab'[v].step \in HasIssued
      PROVE  ~token'[tab'[v].new].revoked
    <2>1. tab[v].step \in HasIssued /\ tab'[v].new = tab[v].new
        BY <1>2, <1>5 DEF HasIssued
    <2>2. tab[v].new # g
        <3>1. CASE v = w
            BY <1>3, <2>1, <3>1
        <3>2. CASE v # w
            <4>1. token[tab[v].given].login # token[g].login
                BY <1>2, <2>1, <3>2, OtherLogin DEF HasIssued
            <4> QED
                BY <1>3, <2>1, <4>1
        <3> QED
            BY <3>1, <3>2
    <2>3. token'[tab[v].new] = token[tab[v].new]
        BY <1>1, <1>3, <2>1, <2>2
    <2> QED
        BY <2>1, <2>3 DEF Calm
<1> QED
    BY <1>2, <1>4, <1>5 DEF Calm

LEMMA AnswerCalm ==
    ASSUME RaceInv, Turns, Calm, NEW w \in Tabs, SetTokens(w) \/ ClearSession(w)
    PROVE  Calm'
<1>1. /\ tab'[w] = Idle /\ tab[w].step # "idle"
      /\ \A v \in Tabs : v # w => tab'[v] = tab[v]
      /\ UNCHANGED token
      /\ \A b \in Browsers : b # w[1] => store'[b] = store[b]
      /\ w[1] \in Browsers
    BY SessionsAssumption DEF SetTokens, ClearSession, RaceInv, TypeOK
<1>2. store'[w[1]] # None => ~token[store'[w[1]]].revoked
    <2>1. CASE SetTokens(w)
        <3>1. store'[w[1]] = tab[w].new
            BY <1>1, <2>1 DEF SetTokens, RaceInv, TypeOK
        <3> QED
            BY <2>1, <3>1 DEF SetTokens, Calm, HasIssued
    <2>2. CASE ClearSession(w)
        BY <1>1, <2>2 DEF ClearSession, RaceInv, TypeOK
    <2> QED
        BY <2>1, <2>2
<1>3. ASSUME NEW b \in Browsers, store'[b] # None, token'[store'[b]].revoked
      PROVE  \E v \in Tabs : v[1] = b /\ tab'[v].step = "granted"
    BY <1>1, <1>2, <1>3 DEF Calm
<1>4. \A v \in Tabs : /\ tab'[v].step # "reuse"
                      /\ tab'[v].step \in HasIssued => ~token'[tab'[v].new].revoked
    BY <1>1 DEF Calm, Idle, HasIssued
<1> QED
    BY <1>3, <1>4 DEF Calm

LEMMA LoginCalm ==
    ASSUME RaceInv, Turns, Calm, NEW b \in Browsers, Login(b)
    PROVE  Calm'
<1>1. PICK t \in Tokens :
        /\ ~token[t].exists
        /\ token' = [token EXCEPT ![t] = [NoToken EXCEPT !.exists = TRUE, !.login = t]]
        /\ store' = [store EXCEPT ![b] = t]
    BY DEF Login
<1>2. /\ ~token'[t].revoked /\ store'[b] = t
      /\ \A u \in Tokens : u # t => token'[u] = token[u]
      /\ \A c \in Browsers : c # b => store'[c] = store[c]
      /\ UNCHANGED tab
    BY <1>1 DEF RaceInv, TypeOK, NoToken, Login
<1>3. \A c \in Browsers : store[c] # None => store[c] \in Tokens /\ store[c] # t
    BY <1>1 DEF RaceInv, RowsInv, TypeOK
<1>4. \A v \in Tabs : tab[v].step \in HasIssued => tab[v].new \in Tokens /\ tab[v].new # t
    BY <1>1 DEF RaceInv, CallInv, HasIssued
<1>5. ASSUME NEW c \in Browsers, store'[c] # None, token'[store'[c]].revoked
      PROVE  \E v \in Tabs : v[1] = c /\ tab'[v].step = "granted"
    BY <1>2, <1>3, <1>5 DEF Calm
<1>6. \A v \in Tabs : /\ tab'[v].step # "reuse"
                      /\ tab'[v].step \in HasIssued => ~token'[tab'[v].new].revoked
    BY <1>2, <1>4 DEF Calm
<1> QED
    BY <1>5, <1>6 DEF Calm

LEMMA LogoutCalm ==
    ASSUME RaceInv, Calm, NEW b \in Browsers, \A c \in Browsers : Undisturbed(c), Logout(b),
           \A c \in Browsers \ {b} : store[c] = None
    PROVE  Calm'
<1>1. \A v \in Tabs : tab'[v].step = "idle"
    BY SessionsAssumption DEF Logout, Undisturbed, Idle
<1>2. \A c \in Browsers : store'[c] = None
    BY DEF Logout, RaceInv, TypeOK
<1> QED
    BY <1>1, <1>2 DEF Calm, HasIssued

LEMMA ExpireCalm ==
    ASSUME RaceInv, Calm, NEW t \in Tokens, Expire(t)
    PROVE  Calm'
<1>1. \A u \in Tokens : token'[u].revoked => token[u].revoked
    BY DEF Expire, RaceInv, TypeOK, TokenRow
<1>2. \A b \in Browsers : store[b] # None => store[b] \in Tokens
    BY DEF RaceInv, TypeOK
<1>3. \A v \in Tabs : tab[v].step \in HasIssued => tab[v].new \in Tokens
    BY DEF RaceInv, CallInv
<1> QED
    BY <1>1, <1>2, <1>3 DEF Calm, Expire

LEMMA CalmInit == RuledInit => CalmInv
<1>1. Init => Calm
    BY DEF Init, Calm, Idle, HasIssued
<1> QED
    BY <1>1 DEF RuledInit, CalmInv

LEMMA CalmStep == RaceInv /\ TurnsInv /\ CalmInv /\ [RuledNext]_<<vars, rule>> => CalmInv'
<1> SUFFICES ASSUME RaceInv, TurnsInv, CalmInv, [RuledNext]_<<vars, rule>>, rule' = "calm"
             PROVE  Calm'
    BY DEF CalmInv
<1>1. rule' = rule /\ Turns /\ Calm
    BY DEF RuledNext, TurnsInv, CalmInv
<1>2. CASE UNCHANGED vars
    BY <1>1, <1>2 DEF vars, Calm
<1>3. CASE RuledNext
    <2>1. ASSUME NEW w \in Tabs, RevokeReused(w) PROVE FALSE
        BY <1>1, <2>1 DEF RevokeReused, Step, Calm
    <2>2. ASSUME UpdateUser PROVE Calm'
        BY <1>1, <2>2 DEF UpdateUser, Calm
    <2> QED
        BY <1>1, <1>3, <2>1, <2>2, TurnsSteps, QuietCalm, IssueCalm, RevokeOldCalm, AnswerCalm,
           LoginCalm, LogoutCalm, ExpireCalm DEF RefreshStep
<1> QED
    BY <1>2, <1>3 DEF vars

\* Where no answer is lost and a user logs out of the last browser, a browser with
\* no refresh in flight never holds a token that the server would take for reused,
\* so a refresh never throws the user out of all sessions.
THEOREM StoreLive == RuledSpec => []StoreIsLive
<1>1. RaceInv /\ CalmInv => StoreIsLive
    BY DEF CalmInv, Calm, StoreIsLive, Undisturbed, Idle
<1> QED
    BY <1>1, RaceInit, RaceStep, TurnsInit, TurnsStep, CalmInit, CalmStep, PTL DEF RuledSpec

-----------------------------------------------------------------------------
\* The chain of one-time tokens.

\* A refresh that was refused has issued nothing.
RefusalInv ==
    rule # "none" => \A w \in Tabs : tab[w].step = "denied" => tab[w].new = None

LEMMA RefusalStep == RaceInv /\ RefusalInv /\ [RuledNext]_<<vars, rule>> => RefusalInv'
<1> SUFFICES ASSUME RaceInv, RefusalInv, [RuledNext]_<<vars, rule>>, rule' # "none",
                    NEW v \in Tabs, tab'[v].step = "denied", tab'[v] # tab[v]
             PROVE  tab'[v].new = None
    BY DEF RuledNext, RefusalInv, vars
<1>1. RuledNext /\ rule # "none"
    BY DEF RuledNext, vars
<1>2. PICK w \in Tabs : RefreshStep(w) \/ LoseAnswer(w)
    BY <1>1, TurnsSteps DEF Login, Logout, UpdateUser, Expire
<1>3. tab[w] \in Call /\ (tab[w].step \in Before => tab[w].new = None) /\ tab \in [Tabs -> Call]
    BY DEF RaceInv, TypeOK, CallInv
<1>4. CASE FindStored(w) \/ ReadUser(w) \/ RevokeReused(w)
    BY <1>3, <1>4 DEF FindStored, ReadUser, RevokeReused, Step, Before, Call
<1>5. CASE Refresh(w) \/ SetTokens(w) \/ ClearSession(w) \/ LoseAnswer(w)
    <2>1. tab'[w].step \in {"find", "idle"} /\ (v # w => tab'[v] = tab[v])
        <3>1. CASE Refresh(w)
            BY <1>3, <3>1 DEF Refresh, Idle
        <3>2. CASE tab' = [tab EXCEPT ![w] = Idle]
            BY <1>3, <3>2 DEF Idle
        <3> QED
            BY <1>5, <3>1, <3>2 DEF SetTokens, ClearSession, LoseAnswer
    <2> QED
        BY <2>1
<1>6. CASE IssueTokens(w)
    <2>1. PICK t \in Tokens : tab' = [tab EXCEPT ![w].step = "lookup", ![w].new = t]
        BY <1>6 DEF IssueTokens
    <2>2. tab'[w].step = "lookup" /\ (v # w => tab'[v] = tab[v])
        BY <1>3, <2>1 DEF Call
    <2> QED
        BY <2>2
<1>7. CASE LookupNew(w)
    BY <1>3, <1>7 DEF LookupNew, Call
<1>8. CASE RevokeOld(w)
    BY <1>3, <1>8 DEF RevokeOld, Step, Call
<1> QED
    BY <1>2, <1>4, <1>5, <1>6, <1>7, <1>8 DEF RefreshStep

ChainInv == RaceInv /\ TurnsInv /\ RefusalInv

LEMMA ChainInit == RuledInit => ChainInv
<1>1. Init => \A w \in Tabs : tab[w].step # "denied"
    BY DEF Init, Idle
<1> QED
    BY <1>1, RaceInit, TurnsInit DEF ChainInv, RefusalInv, RuledInit

LEMMA ChainStep == ChainInv /\ [RuledNext]_<<vars, rule>> => ChainInv'
BY RaceStep, TurnsStep, RefusalStep DEF ChainInv

\* The token of its login that is good is the active one that no refresh is about
\* to revoke.
IsGood(t) ==
    /\ Active(t)
    /\ \A w \in Tabs : tab[w].step \in {"lookup", "revoke"} => tab[w].given # t

GoodOnes ==
    \A l \in Tokens :
        /\ Good(l) \in Tokens \cup {None}
        /\ \A t \in Tokens : Good(l) = t <=> (IsGood(t) /\ token[t].login = l)

LEMMA GoodIsGood == ChainInv /\ rule # "none" => GoodOnes
<1> SUFFICES ASSUME ChainInv, rule # "none", NEW l \in Tokens
             PROVE  /\ Good(l) \in Tokens \cup {None}
                    /\ \A t \in Tokens : Good(l) = t <=> (IsGood(t) /\ token[t].login = l)
    BY DEF GoodOnes
<1> DEFINE live == {t \in Chained(l) : Active(t)}
<1> DEFINE new == live \cap {tab[w].new : w \in Tabs}
<1>1. RaceInv /\ Turns /\ \A w \in Tabs : tab[w].step = "denied" => tab[w].new = None
    BY DEF ChainInv, TurnsInv, RefusalInv
<1>2. Good(l) = IF live = {} THEN None ELSE CHOOSE t \in IF new = {} THEN live ELSE new : TRUE
    BY DEF Good
<1>3. \A t \in Tokens : t \in live <=> (Active(t) /\ token[t].login = l)
    BY DEF Chained, Active
<1>4. live \subseteq Tokens /\ new \subseteq live
    BY DEF Chained
<1>5. ASSUME NEW w \in Tabs, tab[w].step \in {"lookup", "revoke"}, tab[w].given \in live
      PROVE  tab[w].new \in new
    <2>1. /\ tab[w].given \in Tokens /\ tab[w].new \in Tokens /\ token[tab[w].new].exists
          /\ token[tab[w].new].login = token[tab[w].given].login
        BY <1>1, <1>5 DEF RaceInv, CallInv, HasIssued
    <2>2. Active(tab[w].new) /\ token[tab[w].new].login = l
        BY <1>1, <1>3, <1>5, <2>1 DEF Turns, NewOutlives, Active
    <2> QED
        BY <1>3, <2>1, <2>2
<1>6. ASSUME NEW x \in new, NEW w \in Tabs, tab[w].step \in {"lookup", "revoke"}, tab[w].given = x
      PROVE  FALSE
    <2>1. PICK v \in Tabs : tab[v].new = x
        OBVIOUS
    <2>2. x \in Tokens /\ x # None
        BY <1>4, SessionsAssumption
    <2>3. tab[v] \in Call /\ CallInv(tab[v])
        BY <1>1 DEF RaceInv, TypeOK
    <2>4. tab[v].step \in HasIssued
        BY <1>1, <2>1, <2>2, <2>3 DEF CallInv, HasIssued, Before, Call, Steps, Idle
    <2>5. /\ tab[v].given # x
          /\ token[x].login = token[tab[v].given].login
        BY <2>1, <2>3, <2>4 DEF CallInv
    <2>6. token[tab[v].given].login # token[x].login
        BY <1>1, <1>6, <2>4, <2>5, OtherLogin DEF HasIssued
    <2> QED
        BY <2>5, <2>6
<1>7. ASSUME NEW t \in live, NEW u \in live, t # u
      PROVE  \E w \in Tabs : /\ tab[w].step \in {"lookup", "revoke"}
                             /\ {tab[w].given, tab[w].new} = {t, u}
    <2>1. /\ t \in Tokens /\ u \in Tokens /\ Active(t) /\ Active(u)
          /\ token[t].login = token[u].login
        BY <1>3, <1>4, <1>7
    <2> QED
        BY <1>1, <1>7, <2>1 DEF Turns, OneLive
<1> HIDE DEF live, new
<1> DEFINE pool == IF new = {} THEN live ELSE new
<1>8. ASSUME NEW x \in pool, NEW t \in live
      PROVE  t = x <=> \A w \in Tabs : tab[w].step \in {"lookup", "revoke"} => tab[w].given # t
    <2>1. x \in live
        BY <1>4
    <2>2. CASE t = x
        BY <1>5, <1>6, <2>1, <2>2
    <2>3. CASE t # x
        <3>1. PICK w \in Tabs : /\ tab[w].step \in {"lookup", "revoke"}
                                /\ {tab[w].given, tab[w].new} = {t, x}
            BY <1>7, <2>1, <2>3
        <3>2. tab[w].given # x
            BY <1>5, <1>6, <2>1, <3>1
        <3>3. tab[w].given = t
            BY <3>1, <3>2
        <3> QED
            BY <2>3, <3>1, <3>3
    <2> QED
        BY <2>2, <2>3
<1>9. CASE live = {}
    BY <1>2, <1>3, <1>9, SessionsAssumption DEF IsGood
<1>10. CASE live # {}
    <2>1. pool # {} /\ Good(l) = CHOOSE t \in pool : TRUE
        BY <1>2, <1>10
    <2>2. Good(l) \in pool
        BY <2>1
    <2>3. Good(l) \in live /\ Good(l) \in Tokens
        BY <1>4, <2>2
    <2> HIDE DEF pool
    <2>4. ASSUME NEW t \in Tokens
          PROVE  Good(l) = t <=> (IsGood(t) /\ token[t].login = l)
        <3>1. CASE t \in live
            BY <1>3, <1>8, <2>2, <3>1 DEF IsGood
        <3>2. CASE t \notin live
            BY <1>3, <2>3, <3>2 DEF IsGood
        <3> QED
            BY <3>1, <3>2
    <2> QED
        BY <2>3, <2>4
<1> QED
    BY <1>9, <1>10

\* One login begins a chain, exchanges a token, or nothing but ends happen.
LEMMA OnlyEnds ==
    ASSUME GoodOnes, GoodOnes', rule' = rule, rule # "none", Marked,
           \A t \in Tokens : IsGood(t)' => IsGood(t)
    PROVE  [Chain!Next]_(Chain!chain)
<1>1. \A l \in Tokens : Chained(l)' = Chained(l) /\ None \notin Chained(l)
    BY SessionsAssumption DEF Chained, Marked
<1>2. \A l \in Tokens : Good(l)' = Good(l) \/ Good(l)' = None
    BY DEF GoodOnes, Marked
<1>3. \A l \in Tokens : Good(l) # None => Good(l) \in Chained(l)
    BY DEF GoodOnes, IsGood, Active, Chained
<1> DEFINE ls == {l \in Tokens : Good(l) # None /\ Good(l)' = None}
<1>4. CASE ls = {}
    <2>1. \A l \in Tokens : Good(l)' = Good(l)
        BY <1>2, <1>4
    <2>2. [l \in Tokens |-> IF rule' = "none" THEN None ELSE Good(l)']
            = [l \in Tokens |-> IF rule = "none" THEN None ELSE Good(l)]
        BY <2>1
    <2>3. [l \in Tokens |-> IF rule' = "none" THEN {} ELSE Chained(l)' \ {Good(l)'}]
            = [l \in Tokens |-> IF rule = "none" THEN {} ELSE Chained(l) \ {Good(l)}]
        BY <1>1, <2>1
    <2> QED
        BY <2>2, <2>3 DEF Chain!chain
<1>5. CASE ls # {}
    <2>1. Chain!End(ls)
        <3>1. \A l \in ls : [k \in Tokens |-> IF rule = "none" THEN None ELSE Good(k)][l] # None
            OBVIOUS
        <3>2. [l \in Tokens |-> IF rule' = "none" THEN None ELSE Good(l)']
                = [l \in Tokens |-> IF l \in ls THEN None
                     ELSE [k \in Tokens |-> IF rule = "none" THEN None ELSE Good(k)][l]]
            BY <1>2
        <3>3. \A l \in Tokens : Chained(l)' \ {Good(l)'} =
                IF l \in ls THEN (Chained(l) \ {Good(l)}) \cup {Good(l)} ELSE Chained(l) \ {Good(l)}
            BY <1>1, <1>2, <1>3
        <3>4. [l \in Tokens |-> IF rule' = "none" THEN {} ELSE Chained(l)' \ {Good(l)'}]
                = [l \in Tokens |->
                     IF l \in ls
                     THEN [k \in Tokens |-> IF rule = "none" THEN {} ELSE Chained(k) \ {Good(k)}][l]
                            \cup {[k \in Tokens |-> IF rule = "none" THEN None ELSE Good(k)][l]}
                     ELSE [k \in Tokens |-> IF rule = "none" THEN {} ELSE Chained(k) \ {Good(k)}][l]]
            BY <3>3
        <3> QED
            BY <1>5, <3>1, <3>2, <3>4 DEF Chain!End
    <2>2. ls \in SUBSET Tokens
        OBVIOUS
    <2> QED
        BY <2>1, <2>2 DEF Chain!Next
<1> QED
    BY <1>4, <1>5

\* The rows of a chain once a token t is issued in it, and the good token of the
\* other chains, which stays.
LEMMA TokenIssued ==
    ASSUME ChainInv, GoodOnes, GoodOnes', rule' = rule, rule # "none",
           NEW l \in Tokens, NEW t \in Tokens, ~token[t].exists,
           IsGood(t)', token'[t].exists, token'[t].login = l,
           \A u \in Tokens \ {t} : token'[u] = token[u],
           \A u \in Tokens \ {t, Good(l)} : IsGood(u)' <=> IsGood(u)
    PROVE  Chain!Begin(l, t) \/ Chain!Exchange(l, t)
<1>1. \A k \in Tokens \ {l} : Chained(k)' = Chained(k)
    BY DEF Chained
<1>2. Chained(l)' = Chained(l) \cup {t} /\ t \notin Chained(l) /\ None \notin Chained(l)
    BY SessionsAssumption DEF Chained
<1>3. Good(l)' = t /\ Good(l) # t
    BY DEF GoodOnes, IsGood, Active
<1>4. Good(l) # None => Good(l) \in Chained(l)
    BY DEF GoodOnes, IsGood, Active, Chained
<1>5. ASSUME NEW k \in Tokens, k # l PROVE Good(k)' = Good(k)
    <2>1. ASSUME NEW u \in Tokens PROVE Good(k)' = u <=> Good(k) = u
        <3>1. CASE u = t
            BY <1>3, <1>5, <3>1 DEF GoodOnes, IsGood, Active
        <3>2. CASE u = Good(l)
            BY <1>3, <1>5, <3>2 DEF GoodOnes
        <3>3. CASE u # t /\ u # Good(l)
            BY <1>5, <3>3 DEF GoodOnes
        <3> QED
            BY <3>1, <3>2, <3>3
    <2>2. Good(k) \in Tokens \cup {None} /\ Good(k)' \in Tokens \cup {None}
        BY DEF GoodOnes
    <2> QED
        BY <2>1, <2>2
<1>6. Good(l)' # None
    BY <1>3, SessionsAssumption
<1>7. [k \in Tokens |-> IF rule' = "none" THEN None ELSE Good(k)']
        = [[k \in Tokens |-> IF rule = "none" THEN None ELSE Good(k)] EXCEPT ![l] = t]
    BY <1>3, <1>5
<1>8. CASE Good(l) = None
    <2>1. \A k \in Tokens : Chained(k)' \ {Good(k)'} = Chained(k) \ {Good(k)}
        BY <1>1, <1>2, <1>3, <1>5, <1>8
    <2>2. [k \in Tokens |-> IF rule' = "none" THEN {} ELSE Chained(k)' \ {Good(k)'}]
            = [k \in Tokens |-> IF rule = "none" THEN {} ELSE Chained(k) \ {Good(k)}]
        BY <2>1
    <2>3. /\ [k \in Tokens |-> IF rule = "none" THEN None ELSE Good(k)][l] = None
          /\ t \notin [k \in Tokens |-> IF rule = "none" THEN {} ELSE Chained(k) \ {Good(k)}][l]
        BY <1>2, <1>8
    <2> QED
        BY <1>7, <2>2, <2>3 DEF Chain!Begin
<1>9. CASE Good(l) # None
    <2>1. \A k \in Tokens : Chained(k)' \ {Good(k)'} =
            IF k = l THEN (Chained(l) \ {Good(l)}) \cup {Good(l)} ELSE Chained(k) \ {Good(k)}
        BY <1>1, <1>2, <1>3, <1>4, <1>5, <1>9
    <2>2. [k \in Tokens |-> IF rule' = "none" THEN {} ELSE Chained(k)' \ {Good(k)'}]
            = [[k \in Tokens |-> IF rule = "none" THEN {} ELSE Chained(k) \ {Good(k)}] EXCEPT ![l] =
                [k \in Tokens |-> IF rule = "none" THEN {} ELSE Chained(k) \ {Good(k)}][l]
                    \cup {[k \in Tokens |-> IF rule = "none" THEN None ELSE Good(k)][l]}]
        BY <2>1
    <2>3. /\ [k \in Tokens |-> IF rule = "none" THEN None ELSE Good(k)][l] # None
          /\ t \notin [k \in Tokens |-> IF rule = "none" THEN {} ELSE Chained(k) \ {Good(k)}][l]
                \cup {[k \in Tokens |-> IF rule = "none" THEN None ELSE Good(k)][l]}
        BY <1>2, <1>3, <1>9
    <2> QED
        BY <1>7, <2>2, <2>3 DEF Chain!Exchange
<1> QED
    BY <1>8, <1>9

LEMMA IssueChain ==
    ASSUME ChainInv, GoodOnes, GoodOnes', rule' = rule, rule # "none",
           NEW w \in Tabs, IssueTokens(w)
    PROVE  Chain!Next
<1> DEFINE g == tab[w].given
<1> DEFINE l == token[g].login
<1>1. PICK t \in Tokens :
        /\ ~token[t].exists
        /\ token' = [token EXCEPT ![t] = [NoToken EXCEPT !.exists = TRUE, !.parent = g, !.login = l]]
        /\ tab' = [tab EXCEPT ![w].step = "lookup", ![w].new = t]
    BY DEF IssueTokens
<1>2. /\ tab[w] \in Call /\ CallInv(tab[w]) /\ tab[w].step = "issue"
      /\ RaceInv /\ Turns
    BY DEF ChainInv, TurnsInv, RaceInv, TypeOK, IssueTokens
<1>3. g \in Tokens /\ token[g].exists /\ l \in Tokens /\ t # g
    BY <1>1, <1>2 DEF CallInv, RaceInv, RowsInv
<1>4. /\ token'[t].exists /\ ~token'[t].revoked /\ ~token'[t].expired /\ token'[t].login = l
      /\ \A u \in Tokens \ {t} : token'[u] = token[u]
    BY <1>1, <1>3 DEF RaceInv, TypeOK, NoToken, ChainInv
<1>5. /\ tab'[w].step = "lookup" /\ tab'[w].given = g
      /\ \A v \in Tabs : v # w => tab'[v] = tab[v]
    BY <1>1, <1>2 DEF RaceInv, TypeOK, Call
<1>6. \A v \in Tabs : tab[v].step # "idle" => tab[v].given \in Tokens /\ token[tab[v].given].exists
    BY <1>2 DEF RaceInv, CallInv
<1>7. IsGood(t)'
    BY <1>1, <1>3, <1>4, <1>5, <1>6 DEF IsGood, Active
<1>8. Active(g) => Good(l) = g
    <2>1. SUFFICES ASSUME Active(g) PROVE IsGood(g)
        BY <1>3 DEF GoodOnes
    <2>2. ASSUME NEW v \in Tabs, tab[v].step \in {"lookup", "revoke"}, tab[v].given = g
          PROVE  FALSE
        BY <1>2, <2>2, OtherLogin
    <2> QED
        BY <2>1, <2>2 DEF IsGood
<1>9. ASSUME NEW u \in Tokens \ {t, Good(l)} PROVE IsGood(u)' <=> IsGood(u)
    <2>1. Active(u)' <=> Active(u)
        BY <1>4 DEF Active
    <2>2. CASE u = g
        BY <1>8, <1>9, <2>1, <2>2 DEF IsGood
    <2>3. CASE u # g
        BY <1>2, <1>5, <2>1, <2>3 DEF IsGood
    <2> QED
        BY <2>2, <2>3
<1> HIDE DEF l
<1>10. Chain!Begin(l, t) \/ Chain!Exchange(l, t)
    BY <1>1, <1>3, <1>4, <1>7, <1>9, TokenIssued
<1> QED
    BY <1>3, <1>10 DEF Chain!Next

LEMMA LoginChain ==
    ASSUME ChainInv, GoodOnes, GoodOnes', rule' = rule, rule # "none",
           NEW b \in Browsers, Login(b)
    PROVE  Chain!Next
<1>1. PICK t \in Tokens :
        /\ ~token[t].exists
        /\ token' = [token EXCEPT ![t] = [NoToken EXCEPT !.exists = TRUE, !.login = t]]
    BY DEF Login
<1>2. /\ token'[t].exists /\ ~token'[t].revoked /\ ~token'[t].expired /\ token'[t].login = t
      /\ \A u \in Tokens \ {t} : token'[u] = token[u]
      /\ UNCHANGED tab
    BY <1>1 DEF RaceInv, TypeOK, NoToken, ChainInv, Login
<1>3. \A v \in Tabs : tab[v].step # "idle" => token[tab[v].given].exists
    BY DEF ChainInv, RaceInv, CallInv
<1>4. IsGood(t)'
    BY <1>1, <1>2, <1>3 DEF IsGood, Active
<1>5. ASSUME NEW u \in Tokens \ {t} PROVE IsGood(u)' <=> IsGood(u)
    BY <1>2 DEF IsGood, Active
<1>6. Chain!Begin(t, t) \/ Chain!Exchange(t, t)
    BY <1>1, <1>2, <1>4, <1>5, TokenIssued
<1> QED
    BY <1>6 DEF Chain!Next

\* The other steps make no token good that was not.
LEMMA RefreshEnds ==
    ASSUME ChainInv, NEW w \in Tabs,
           \/ Refresh(w) \/ FindStored(w) \/ ReadUser(w) \/ LookupNew(w)
           \/ SetTokens(w) \/ ClearSession(w) \/ LoseAnswer(w) \/ RevokeOld(w) \/ RevokeReused(w)
    PROVE  Marked /\ \A t \in Tokens : IsGood(t)' => IsGood(t)
<1>1. tab[w] \in Call /\ RaceInv /\ tab \in [Tabs -> Call]
    BY DEF ChainInv, RaceInv, TypeOK
<1>2. ASSUME NEW v \in Tabs, v # w PROVE tab'[v] = tab[v]
    BY <1>1, <1>2 DEF Refresh, FindStored, ReadUser, LookupNew, SetTokens, ClearSession,
                      LoseAnswer, RevokeOld, RevokeReused, Step
<1>3. CASE RevokeReused(w)
    BY <1>1, <1>3, RevokeAllMarks DEF RevokeReused, IsGood, Active
<1>4. CASE RevokeOld(w)
    <2>1. /\ Marked /\ token'[tab[w].given].revoked
          /\ \A t \in Tokens \ {tab[w].given} : token'[t] = token[t]
        BY <1>1, <1>4, RevokedOld
    <2>2. ASSUME NEW t \in Tokens, IsGood(t)' PROVE IsGood(t)
        <3>1. t # tab[w].given
            BY <2>1, <2>2 DEF IsGood, Active
        <3>2. Active(t)
            BY <2>1, <2>2, <3>1 DEF IsGood, Active
        <3> QED
            BY <1>2, <2>2, <3>1, <3>2 DEF IsGood
    <2> QED
        BY <2>1, <2>2
<1>5. CASE Refresh(w) \/ FindStored(w) \/ ReadUser(w) \/ LookupNew(w) \/ SetTokens(w)
           \/ ClearSession(w) \/ LoseAnswer(w)
    <2>1. UNCHANGED token
        BY <1>5 DEF Refresh, FindStored, ReadUser, LookupNew, SetTokens, ClearSession, LoseAnswer
    <2>2. tab[w].step \in {"lookup", "revoke"} =>
            tab'[w].step = "revoke" /\ tab'[w].given = tab[w].given
        <3>1. CASE LookupNew(w)
            BY <1>1, <3>1 DEF LookupNew, Call
        <3>2. CASE tab[w].step \notin {"lookup", "revoke"}
            BY <3>2
        <3> QED
            BY <1>5, <3>1, <3>2
            DEF Refresh, FindStored, ReadUser, SetTokens, ClearSession, LoseAnswer, Step, Idle
    <2>3. Marked
        BY <1>1, <2>1 DEF Marked, RaceInv, TypeOK
    <2>4. ASSUME NEW t \in Tokens, IsGood(t)' PROVE IsGood(t)
        BY <1>2, <2>1, <2>2, <2>4 DEF IsGood, Active
    <2> QED
        BY <2>3, <2>4
<1> QED
    BY <1>3, <1>4, <1>5

LEMMA OtherEnds ==
    ASSUME ChainInv, \/ \E b \in Browsers : Logout(b)
                     \/ UpdateUser
                     \/ \E t \in Tokens : Expire(t)
                     \/ UNCHANGED vars
    PROVE  Marked /\ \A t \in Tokens : IsGood(t)' => IsGood(t)
<1>1. RaceInv
    BY DEF ChainInv
<1>2. CASE \E b \in Browsers : Logout(b)
    BY <1>1, <1>2, RevokeAllMarks DEF Logout, IsGood, Active
<1>3. CASE UpdateUser \/ UNCHANGED vars
    BY <1>1, <1>3 DEF UpdateUser, vars, Marked, RaceInv, TypeOK, IsGood, Active
<1>4. CASE \E t \in Tokens : Expire(t)
    <2>1. PICK t \in Tokens : Expire(t)
        BY <1>4
    <2>2. Marked
        BY <1>1, <2>1 DEF Expire, Marked, RaceInv, TypeOK, TokenRow
    <2>3. token'[t].expired /\ (\A u \in Tokens \ {t} : token'[u] = token[u]) /\ UNCHANGED tab
        BY <1>1, <2>1 DEF Expire, RaceInv, TypeOK, TokenRow
    <2>4. ASSUME NEW u \in Tokens, IsGood(u)' PROVE IsGood(u)
        <3>1. u # t
            BY <2>3, <2>4 DEF IsGood, Active
        <3> QED
            BY <2>3, <2>4, <3>1 DEF IsGood, Active
    <2> QED
        BY <2>2, <2>4
<1> QED
    BY <1>2, <1>3, <1>4

LEMMA ChainImplements ==
    ChainInv /\ ChainInv' /\ (rule # "none" => GoodOnes /\ GoodOnes') /\ [RuledNext]_<<vars, rule>>
        => [Chain!Next]_(Chain!chain)
<1> SUFFICES ASSUME ChainInv, rule # "none" => GoodOnes /\ GoodOnes', [RuledNext]_<<vars, rule>>
             PROVE  [Chain!Next]_(Chain!chain)
    OBVIOUS
<1>1. rule' = rule
    BY DEF RuledNext
<1>2. CASE rule = "none"
    <2>1. /\ \A l \in Tokens : (IF rule' = "none" THEN None ELSE Good(l)') = None
          /\ \A l \in Tokens : (IF rule' = "none" THEN {} ELSE Chained(l)' \ {Good(l)'}) = {}
        BY <1>1, <1>2
    <2> QED
        BY <1>1, <1>2, <2>1 DEF Chain!chain
<1>3. CASE rule # "none"
    <2>1. CASE UNCHANGED vars
        BY <1>1, <1>3, <2>1, OtherEnds, OnlyEnds
    <2>2. CASE RuledNext
        BY <1>1, <1>3, <2>2, TurnsSteps, OtherEnds, RefreshEnds, OnlyEnds, IssueChain, LoginChain
        DEF RefreshStep
    <2> QED
        BY <2>1, <2>2 DEF vars
<1> QED
    BY <1>2, <1>3

LEMMA ChainBegins == RuledInit /\ ChainInv /\ (rule # "none" => GoodOnes) => Chain!Init
<1> SUFFICES ASSUME RuledInit, rule # "none" => GoodOnes PROVE Chain!Init
    OBVIOUS
<1>1. \A t \in Tokens : ~token[t].exists
    BY DEF RuledInit, Init, NoToken
<1>2. ASSUME NEW l \in Tokens
      PROVE  /\ (IF rule = "none" THEN None ELSE Good(l)) = None
             /\ (IF rule = "none" THEN {} ELSE Chained(l) \ {Good(l)}) = {}
    BY <1>1 DEF GoodOnes, IsGood, Active, Chained
<1> QED
    BY <1>2 DEF Chain!Init

\* Where the tabs of a browser take turns to refresh, whether or not answers arrive
\* and at whatever moment tokens expire or the user is deactivated, the tokens that
\* go back to one login are a chain of which one at a time is good, and none again.
THEOREM IsOneTimeToken == RuledSpec => ImplementsOneTimeToken
<1>1. RuledSpec => []ChainInv
    BY ChainInit, ChainStep, PTL DEF RuledSpec
<1>2. (ChainInv /\ rule # "none" => GoodOnes)'
    BY GoodIsGood, PTL
<1>3. ChainInv /\ ChainInv' /\ [RuledNext]_<<vars, rule>> => [Chain!Next]_(Chain!chain)
    BY <1>2, GoodIsGood, ChainImplements DEF RuledNext, vars
<1>4. RuledInit => Chain!Init
    BY ChainInit, GoodIsGood, ChainBegins
<1> QED
    BY <1>1, <1>3, <1>4, PTL DEF RuledSpec, ImplementsOneTimeToken, Chain!Spec
=============================================================================
