--------------------------- MODULE BrowserProofs ---------------------------
(***************************************************************************)
(* A visit of an operator to a company leaves the browser with one whole     *)
(* session and the backup of the other, whatever companies there are and     *)
(* however many tokens are issued; a click at a page is served once; and     *)
(* what is proved of the tabs and of the visits holds where there are both.  *)
(*                                                                         *)
(* SwapIsWhole is not inductive: it does not say what a refresh or an entry  *)
(* on its way will put into the storage, whose tokens a logout on its way    *)
(* will take back, and who can be signed out.  Undisrupted does, and it holds *)
(* until a step is Disturbed.                                               *)
(***************************************************************************)
EXTENDS Browser, SessionProofs

Sessions == [token : 0..Len(issued), tenant : Companies \cup {Nobody}]

Refreshes == [token : 0..Len(issued), answer : {"none", "waiting", "tokens", "refused"},
              new : 0..Len(issued)]

Entries == [company : Companies \cup {Nobody}, token : 0..Len(issued)]

Types ==
    /\ issued \in Seq(Owners) /\ valid \subseteq 1..Len(issued)
    /\ held \in Sessions /\ saved \in Sessions
    /\ context \in Companies \cup {Nobody} /\ banner \in Companies \cup {Nobody}
    /\ refresh \in Refreshes /\ entering \in Entries
    /\ leaving \in Owners \cup {NoLogout, Served} /\ signing \in 0..Len(issued)
    /\ user \in BOOLEAN /\ profile \in BOOLEAN /\ disturbed \in BOOLEAN

\* Whose session the storage should hold.
Host == IF context = Nobody THEN Operator ELSE context

\* The company's session that an answer brings, while the operator waits for it.
EntryIsReady ==
    entering # NoEntry =>
        /\ user /\ context = Nobody /\ OwnerOf(held.token) = Operator
        /\ entering.company \in Companies /\ OwnerOf(entering.token) = entering.company
        /\ leaving = NoLogout => entering.token \in valid

\* A refresh is of the session that the storage should hold.
RefreshIsReady ==
    /\ refresh.answer = "none" => refresh = NoRefresh
    /\ refresh.answer # "none" => OwnerOf(refresh.token) = Host
    /\ refresh.answer = "tokens" => OwnerOf(refresh.new) = Host

\* Only a logout takes back the token that is used next.
TokensAreValid ==
    leaving = NoLogout =>
        /\ refresh.answer = "none" /\ held.token # 0 => held.token \in valid
        /\ refresh.answer = "waiting" => refresh.token \in valid
        /\ refresh.answer = "tokens" => refresh.new \in valid
        /\ refresh.answer # "refused"

Visiting ==
    context # Nobody =>
        /\ user /\ leaving # Operator
        /\ OwnerOf(held.token) = context /\ held.tenant = context
        /\ saved.token \in valid /\ OwnerOf(saved.token) = Operator

AtHome == context = Nobody => OwnerOf(held.token) \in {Operator, Nobody} /\ saved.token = 0

Undisrupted ==
    ~disturbed => EntryIsReady /\ RefreshIsReady /\ TokensAreValid /\ Visiting /\ AtHome

SwapInv == Types /\ Undisrupted

-----------------------------------------------------------------------------

\* A token that is issued leaves the owners of the others as they are.
LEMMA IssuesKeepsOwners ==
    ASSUME NEW owner \in Owners, Types, Issues(owner)
    PROVE  /\ issued' \in Seq(Owners)
           /\ Len(issued') = Len(issued) + 1
           /\ Len(issued) \in Nat
           /\ \A t \in 0..Len(issued) : OwnerOf(t)' = OwnerOf(t)
           /\ issued'[Len(issued')] = owner
<1>1. issued \in Seq(Owners)
  BY DEF Types
<1>2. issued' = Append(issued, owner)
  BY DEF Issues
<1>3. /\ issued' \in Seq(Owners) /\ Len(issued') = Len(issued) + 1 /\ Len(issued) \in Nat
      /\ \A t \in 1..Len(issued) : issued'[t] = issued[t]
      /\ issued'[Len(issued) + 1] = owner
  BY <1>1, <1>2
<1>4. \A t \in 0..Len(issued) : OwnerOf(t)' = OwnerOf(t)
  BY <1>3 DEF OwnerOf
<1> QED
  BY <1>3, <1>4

\* The owner of a token that is there is an owner.
LEMMA OwnersOfTokens ==
    ASSUME Types, NEW t \in 1..Len(issued)
    PROVE  OwnerOf(t) \in Owners
BY DEF Types, OwnerOf

\* The names of what is no company.
LEMMA Names ==
    /\ Nobody \notin Owners /\ Served \notin Owners /\ Operator \notin Companies
    /\ Operator # Nobody /\ Served # Nobody /\ Served # Operator /\ Nobody \notin Companies
BY CompaniesAssumption DEF Owners, Nobody, Operator, Served

LEMMA SwapInitInv == SwapInit => SwapInv
<1> SUFFICES ASSUME SwapInit PROVE SwapInv
  OBVIOUS
<1>1. issued = <<Operator>> /\ Len(issued) = 1 /\ issued[1] = Operator /\ issued \in Seq(Owners)
  BY DEF SwapInit, Owners
<1>2. Types
  <2>1. issued \in Seq(Owners) /\ valid \subseteq 1..Len(issued)
    BY <1>1 DEF SwapInit
  <2>2. held \in Sessions /\ saved \in Sessions
    BY <1>1 DEF SwapInit, Sessions, Session
  <2>3. refresh \in Refreshes /\ entering \in Entries
    BY <1>1 DEF SwapInit, NoRefresh, NoEntry, Refreshes, Entries
  <2>4. /\ leaving \in Owners \cup {NoLogout, Served} /\ signing \in 0..Len(issued)
        /\ context \in Companies \cup {Nobody} /\ banner \in Companies \cup {Nobody}
    BY <1>1 DEF SwapInit
  <2>5. user \in BOOLEAN /\ profile \in BOOLEAN /\ disturbed \in BOOLEAN
    BY DEF SwapInit
  <2> QED
    BY <2>1, <2>2, <2>3, <2>4, <2>5 DEF Types
<1>3. Undisrupted
  BY <1>1 DEF SwapInit, Undisrupted, EntryIsReady, RefreshIsReady, TokensAreValid, Visiting, AtHome,
              Session, NoRefresh, NoEntry, OwnerOf
<1> QED
  BY <1>2, <1>3 DEF SwapInv

-----------------------------------------------------------------------------
\* Steps that issue no token.

\* The token is that of the session in the storage.
LEMMA StartRefreshInv == SwapInv /\ StartRefresh => SwapInv'
<1> SUFFICES ASSUME SwapInv, StartRefresh PROVE SwapInv'
  OBVIOUS
<1>1. Types'
  BY DEF SwapInv, StartRefresh, Types, Sessions, Refreshes, Entries, storageVars, serverVars
<1>2. Undisrupted'
  <2> SUFFICES ASSUME ~disturbed' PROVE Undisrupted'
    BY DEF Undisrupted
  <2>1. /\ ~disturbed /\ held.token # 0 /\ refresh.answer = "none"
        /\ refresh'.token = held.token /\ refresh'.answer = "waiting"
        /\ UNCHANGED <<held, saved, context, user, issued, valid, entering, leaving>>
    BY DEF StartRefresh, storageVars, serverVars, NoRefresh
  <2>2. OwnerOf(held.token) = Host
    BY <2>1, Names DEF SwapInv, Types, Undisrupted, Visiting, AtHome, Host, OwnerOf, Sessions
  <2> QED
    BY <2>1, <2>2 DEF SwapInv, Undisrupted, EntryIsReady, RefreshIsReady, TokensAreValid, Visiting,
                      AtHome, Host, OwnerOf
<1> QED
  BY <1>1, <1>2 DEF SwapInv

\* The token that comes has the owner of the session in the storage.
LEMMA TakeTokensInv == SwapInv /\ TakeTokens => SwapInv'
<1> SUFFICES ASSUME SwapInv, TakeTokens PROVE SwapInv'
  OBVIOUS
<1>0. /\ refresh.answer = "tokens" /\ refresh' = NoRefresh
      /\ held' = [token |-> refresh.new, tenant |-> held.tenant]
      /\ leaving' = leaving \/ (leaving \in Owners /\ leaving' = OwnerOf(refresh.new))
      /\ UNCHANGED <<saved, context, user, banner, issued, valid, entering, profile, signing, disturbed>>
  BY DEF TakeTokens, serverVars, Session
<1>1. Types'
  <2>1. OwnerOf(refresh.new) \in Owners \cup {NoLogout}
    BY OwnersOfTokens DEF SwapInv, Types, Refreshes, OwnerOf, NoLogout
  <2>2. NoRefresh \in Refreshes
    BY DEF SwapInv, Types, Refreshes, NoRefresh
  <2>3. held' \in Sessions
    BY <1>0 DEF SwapInv, Types, Refreshes, Sessions
  <2> QED
    BY <1>0, <2>1, <2>2, <2>3 DEF SwapInv, Types, Sessions, Refreshes, Entries
<1>2. Undisrupted'
  <2> SUFFICES ASSUME ~disturbed' PROVE Undisrupted'
    BY DEF Undisrupted
  <2>1. ~disturbed /\ OwnerOf(refresh.new) = Host
    BY <1>0 DEF SwapInv, Undisrupted, RefreshIsReady
  <2>2. /\ OwnerOf(held.token)' = Host /\ OwnerOf(saved.token)' = OwnerOf(saved.token)
        /\ OwnerOf(entering.token)' = OwnerOf(entering.token)
    BY <1>0, <2>1 DEF OwnerOf
  <2>3. /\ leaving' = leaving \/ (leaving' = Host /\ leaving # NoLogout)
        /\ Host # NoLogout /\ (context # Nobody => Host # Operator)
    BY <1>0, <2>1, Names DEF Host, NoLogout, SwapInv, Types
  <2>4. EntryIsReady'
    BY <1>0, <2>1, <2>2, <2>3 DEF SwapInv, Undisrupted, EntryIsReady, Host
  <2>5. RefreshIsReady'
    BY <1>0 DEF RefreshIsReady, NoRefresh
  <2>6. TokensAreValid'
    BY <1>0, <2>1, <2>3 DEF SwapInv, Undisrupted, TokensAreValid, NoRefresh
  <2>7. Visiting' /\ AtHome'
    BY <1>0, <2>1, <2>2, <2>3 DEF SwapInv, Undisrupted, Visiting, AtHome, Host
  <2> QED
    BY <2>4, <2>5, <2>6, <2>7 DEF Undisrupted
<1> QED
  BY <1>1, <1>2 DEF SwapInv

\* When a session is cleared outside a visit and no entry is awaited, nothing is
\* left that is not whole.
LEMMA SignedOut ==
    ASSUME SwapInv, SignOut, entering' = entering, signing' \in {signing, 0},
           profile' \in BOOLEAN, disturbed' \in BOOLEAN,
           refresh' = refresh \/ refresh' = NoRefresh,
           leaving' = leaving \/ (leaving' = NoLogout /\ (disturbed' \/ refresh = NoRefresh)),
           ~disturbed' => ~disturbed /\ context = Nobody /\ entering = NoEntry
    PROVE  SwapInv'
<1>0. /\ held' = [token |-> 0, tenant |-> Nobody] /\ user' = FALSE /\ banner' = Nobody
      /\ UNCHANGED <<saved, context, issued, valid, entering>>
  BY DEF SignOut, Session, serverVars
<1>1. Types'
  <2>1. NoRefresh \in Refreshes /\ held' \in Sessions /\ 0 \in 0..Len(issued)
    BY <1>0 DEF SwapInv, Types, Refreshes, NoRefresh, Sessions
  <2> QED
    BY <1>0, <2>1 DEF SwapInv, Types, Sessions, Refreshes, Entries
<1>2. Undisrupted'
  <2> SUFFICES ASSUME ~disturbed' PROVE Undisrupted'
    BY DEF Undisrupted
  <2>1. OwnerOf(held.token)' = Nobody
    BY <1>0 DEF OwnerOf
  <2>2. EntryIsReady'
    BY <1>0 DEF EntryIsReady, NoEntry
  <2>3. RefreshIsReady'
    BY <1>0 DEF SwapInv, Undisrupted, RefreshIsReady, NoRefresh, OwnerOf, Host
  <2>4. TokensAreValid'
    BY <1>0 DEF SwapInv, Undisrupted, TokensAreValid, NoRefresh
  <2>5. Visiting' /\ AtHome'
    BY <1>0, <2>1 DEF SwapInv, Undisrupted, Visiting, AtHome
  <2> QED
    BY <2>2, <2>3, <2>4, <2>5 DEF Undisrupted
<1> QED
  BY <1>1, <1>2 DEF SwapInv

LEMMA SignOutsInv ==
    SwapInv /\ (RefreshRefused \/ LoseProfile \/ FinishLogout \/ FindNoSession) => SwapInv'
<1>1. SwapInv /\ RefreshRefused => SwapInv'
  <2> SUFFICES ASSUME SwapInv, RefreshRefused PROVE SwapInv'
    OBVIOUS
  <2>1. /\ SignOut /\ refresh' = NoRefresh /\ UNCHANGED <<entering, leaving, profile>>
        /\ signing' = signing \/ signing' = 0
        /\ disturbed' = (disturbed \/ (context # Nobody \/ Entering))
    BY DEF RefreshRefused, Disturbed
  <2>2. profile' \in BOOLEAN /\ disturbed' \in BOOLEAN
    BY <2>1 DEF SwapInv, Types
  <2>3. ~disturbed' => ~disturbed /\ context = Nobody /\ entering = NoEntry
    BY <2>1 DEF Entering
  <2> QED
    BY <2>1, <2>2, <2>3, SignedOut
<1>2. SwapInv /\ LoseProfile => SwapInv'
  <2> SUFFICES ASSUME SwapInv, LoseProfile PROVE SwapInv'
    OBVIOUS
  <2>1. /\ SignOut /\ profile' = FALSE /\ UNCHANGED <<refresh, entering, leaving, signing>>
        /\ disturbed' = (disturbed \/ (context # Nobody \/ Entering))
    BY DEF LoseProfile, Disturbed
  <2>2. profile' \in BOOLEAN /\ disturbed' \in BOOLEAN
    BY <2>1 DEF SwapInv, Types
  <2>3. ~disturbed' => ~disturbed /\ context = Nobody /\ entering = NoEntry
    BY <2>1 DEF Entering
  <2> QED
    BY <2>1, <2>2, <2>3, SignedOut
<1>3. SwapInv /\ FinishLogout => SwapInv'
  <2> SUFFICES ASSUME SwapInv, FinishLogout PROVE SwapInv'
    OBVIOUS
  <2>1. /\ SignOut /\ leaving' = NoLogout /\ UNCHANGED <<refresh, entering, profile, signing>>
        /\ disturbed' = (disturbed \/ (context # Nobody \/ Refreshing \/ Entering))
    BY DEF FinishLogout, Disturbed
  <2>2. profile' \in BOOLEAN /\ disturbed' \in BOOLEAN
    BY <2>1 DEF SwapInv, Types
  <2>3. /\ ~disturbed' => ~disturbed /\ context = Nobody /\ entering = NoEntry
        /\ disturbed' \/ refresh = NoRefresh
    BY <2>1 DEF Entering, Refreshing
  <2> QED
    BY <2>1, <2>2, <2>3, SignedOut
<1>4. SwapInv /\ FindNoSession => SwapInv'
  <2> SUFFICES ASSUME SwapInv, FindNoSession PROVE SwapInv'
    OBVIOUS
  <2>1. /\ SignOut /\ held.token = 0
        /\ UNCHANGED <<refresh, entering, leaving, profile, signing, disturbed>>
    BY DEF FindNoSession, flightVars
  <2>2. profile' \in BOOLEAN /\ disturbed' \in BOOLEAN
    BY <2>1 DEF SwapInv, Types
  <2>3. ~disturbed' => ~disturbed /\ context = Nobody /\ entering = NoEntry
    BY <2>1, Names DEF SwapInv, Undisrupted, Visiting, EntryIsReady, OwnerOf
  <2> QED
    BY <2>1, <2>2, <2>3, SignedOut
<1> QED
  BY <1>1, <1>2, <1>3, <1>4

\* The backup is the operator's, and what comes is the company's.
LEMMA EnterImpersonationInv == SwapInv /\ EnterImpersonation => SwapInv'
<1> SUFFICES ASSUME SwapInv, EnterImpersonation PROVE SwapInv'
  OBVIOUS
<1>0. /\ entering # NoEntry /\ entering' = NoEntry /\ context' = entering.company
      /\ saved' = [token |-> IF held.token # 0 THEN held.token ELSE saved.token,
                   tenant |-> IF held.tenant # Nobody THEN held.tenant ELSE saved.tenant]
      /\ held' = [token |-> entering.token, tenant |-> entering.company]
      /\ disturbed' = (disturbed \/ (Refreshing \/ Leaving))
      /\ UNCHANGED <<user, banner, issued, valid, refresh, leaving, profile, signing>>
  BY DEF EnterImpersonation, Disturbed, Session, serverVars
<1>1. Types'
  <2>1. held' \in Sessions /\ saved' \in Sessions /\ NoEntry \in Entries
        /\ entering.company \in Companies \cup {Nobody}
    BY <1>0 DEF SwapInv, Types, Sessions, Entries, NoEntry
  <2> QED
    BY <1>0, <2>1 DEF SwapInv, Types, Sessions, Refreshes, Entries
<1>2. Undisrupted'
  <2> SUFFICES ASSUME ~disturbed' PROVE Undisrupted'
    BY DEF Undisrupted
  <2>1. ~disturbed /\ refresh = NoRefresh /\ leaving = NoLogout
    BY <1>0 DEF Refreshing, Leaving
  <2>2. /\ user /\ OwnerOf(held.token) = Operator /\ held.token # 0 /\ held.token \in valid
        /\ entering.token \in valid /\ OwnerOf(entering.token) = entering.company
        /\ entering.company \in Companies
    BY <1>0, <2>1, Names DEF SwapInv, Undisrupted, EntryIsReady, TokensAreValid, OwnerOf, NoRefresh
  <2>3. OwnerOf(held.token)' = entering.company /\ OwnerOf(saved.token)' = Operator
    BY <1>0, <2>2 DEF OwnerOf
  <2> QED
    BY <1>0, <2>1, <2>2, <2>3, Names
       DEF Undisrupted, EntryIsReady, RefreshIsReady, TokensAreValid, Visiting, AtHome, NoRefresh, NoEntry,
           NoLogout
<1> QED
  BY <1>1, <1>2 DEF SwapInv

\* There is a backup only in a visit: it is the operator's, and its token valid.
LEMMA ExitImpersonationInv == SwapInv /\ ExitImpersonation => SwapInv'
<1> SUFFICES ASSUME SwapInv, ExitImpersonation PROVE SwapInv'
  OBVIOUS
<1>0. /\ saved.token # 0 /\ context' = Nobody
      /\ saved' = [token |-> 0, tenant |-> Nobody]
      /\ held' = [token |-> saved.token,
                  tenant |-> IF saved.tenant # Nobody THEN saved.tenant ELSE held.tenant]
      /\ disturbed' = (disturbed \/ Refreshing)
      /\ UNCHANGED <<user, banner, issued, valid, refresh, entering, leaving, profile, signing>>
  BY DEF ExitImpersonation, Disturbed, Session, serverVars, flightVars
<1>1. Types'
  <2>1. held' \in Sessions /\ saved' \in Sessions
    BY <1>0 DEF SwapInv, Types, Sessions
  <2> QED
    BY <1>0, <2>1 DEF SwapInv, Types, Sessions, Refreshes, Entries
<1>2. Undisrupted'
  <2> SUFFICES ASSUME ~disturbed' PROVE Undisrupted'
    BY DEF Undisrupted
  <2>1. ~disturbed /\ refresh = NoRefresh /\ context # Nobody
    BY <1>0 DEF SwapInv, Types, Undisrupted, AtHome, Refreshing
  <2>2. saved.token \in valid /\ OwnerOf(saved.token) = Operator /\ entering = NoEntry
    BY <2>1 DEF SwapInv, Undisrupted, EntryIsReady, Visiting
  <2>3. OwnerOf(held.token)' = Operator
    BY <1>0, <2>2 DEF OwnerOf
  <2> QED
    BY <1>0, <2>1, <2>2, <2>3
       DEF Undisrupted, EntryIsReady, RefreshIsReady, TokensAreValid, Visiting, AtHome, NoRefresh, NoEntry
<1> QED
  BY <1>1, <1>2 DEF SwapInv

LEMMA ReloadInv == SwapInv /\ Reload => SwapInv'
<1> SUFFICES ASSUME SwapInv, Reload PROVE SwapInv'
  OBVIOUS
<1>0. /\ user' = (held.token # 0) /\ banner' = IF held.token = 0 THEN Nobody ELSE context
      /\ refresh' = NoRefresh /\ entering' = NoEntry /\ leaving' = NoLogout
      /\ profile' = (held.token # 0) /\ signing' = 0
      /\ disturbed' = (disturbed \/ (Refreshing \/ Leaving))
      /\ UNCHANGED <<held, saved, context, issued, valid>>
  BY DEF Reload, Disturbed, storageVars, serverVars
<1>1. Types'
  <2>1. NoRefresh \in Refreshes /\ NoEntry \in Entries /\ 0 \in 0..Len(issued)
    BY DEF SwapInv, Types, Refreshes, NoRefresh, Entries, NoEntry
  <2> QED
    BY <1>0, <2>1 DEF SwapInv, Types, Sessions, Refreshes, Entries
<1>2. Undisrupted'
  <2> SUFFICES ASSUME ~disturbed' PROVE Undisrupted'
    BY DEF Undisrupted
  <2>1. ~disturbed /\ refresh = NoRefresh /\ leaving = NoLogout
    BY <1>0 DEF Refreshing, Leaving
  <2>2. context # Nobody => held.token # 0
    BY <2>1 DEF SwapInv, Undisrupted, Visiting, OwnerOf
  <2>3. Visiting' /\ AtHome'
    BY <1>0, <2>1, <2>2, Names DEF SwapInv, Undisrupted, Visiting, AtHome, OwnerOf, NoLogout
  <2>4. TokensAreValid'
    BY <1>0, <2>1 DEF SwapInv, Undisrupted, TokensAreValid, NoRefresh
  <2> QED
    BY <1>0, <2>3, <2>4 DEF Undisrupted, EntryIsReady, RefreshIsReady, NoRefresh, NoEntry
<1> QED
  BY <1>1, <1>2 DEF SwapInv

\* A step that changes neither the tokens anywhere nor what is in flight, and
\* signs nobody out.
LEMMA OnlyShown ==
    ASSUME SwapInv, UNCHANGED <<held, saved, context, issued, valid, refresh, entering, disturbed>>,
           user' \in BOOLEAN, user => user', profile' \in BOOLEAN,
           banner' \in Companies \cup {Nobody}, signing' \in 0..Len(issued),
           \/ leaving' = leaving
           \/ leaving' = OwnerOf(held.token) /\ held.token # 0
    PROVE  SwapInv'
<1>0. held.token \in 0..Len(issued)
  BY DEF SwapInv, Types, Sessions
<1>1. leaving' = leaving \/ (leaving' = OwnerOf(held.token) /\ leaving' \in Owners)
  BY <1>0, OwnersOfTokens DEF SwapInv, OwnerOf
<1>2. Types'
  BY <1>1 DEF SwapInv, Types, Sessions, Refreshes, Entries
<1>3. Undisrupted'
  <2> SUFFICES ASSUME ~disturbed' PROVE Undisrupted'
    BY DEF Undisrupted
  <2>1. ~disturbed
    OBVIOUS
  <2>2. leaving' = NoLogout => leaving = NoLogout
    BY <1>1, Names DEF NoLogout
  <2>3. EntryIsReady'
    BY <2>1, <2>2 DEF SwapInv, Undisrupted, EntryIsReady, OwnerOf
  <2>4. RefreshIsReady'
    BY <2>1 DEF SwapInv, Undisrupted, RefreshIsReady, OwnerOf, Host
  <2>5. TokensAreValid'
    BY <2>1, <2>2 DEF SwapInv, Undisrupted, TokensAreValid
  <2>6. Visiting'
    <3>1. context # Nobody => leaving' # Operator
      BY <1>1, <2>1, Names DEF SwapInv, Types, Undisrupted, Visiting
    <3> QED
      BY <2>1, <3>1 DEF SwapInv, Undisrupted, Visiting, OwnerOf
  <2>7. AtHome'
    BY <2>1 DEF SwapInv, Undisrupted, AtHome, OwnerOf
  <2> QED
    BY <2>3, <2>4, <2>5, <2>6, <2>7 DEF Undisrupted
<1> QED
  BY <1>2, <1>3 DEF SwapInv

\* A refresh that is lost is disturbed, and an entry that is lost was only awaited.
LEMMA LoseReplyInv == SwapInv /\ LoseReply => SwapInv'
<1> SUFFICES ASSUME SwapInv, LoseReply PROVE SwapInv'
  OBVIOUS
<1>0. /\ \/ refresh' = NoRefresh /\ entering' = entering /\ disturbed' = TRUE
         \/ entering' = NoEntry /\ UNCHANGED <<refresh, disturbed>>
      /\ UNCHANGED <<held, saved, context, user, banner, issued, valid, leaving, profile, signing>>
  BY DEF LoseReply, Disturbed, storageVars, serverVars
<1>1. Types'
  <2>1. NoRefresh \in Refreshes /\ NoEntry \in Entries
    BY DEF SwapInv, Types, Refreshes, Entries, NoRefresh, NoEntry
  <2> QED
    BY <1>0, <2>1 DEF SwapInv, Types, Sessions, Refreshes, Entries
<1>2. Undisrupted'
  <2> SUFFICES ASSUME ~disturbed' PROVE Undisrupted'
    BY DEF Undisrupted
  <2>1. ~disturbed /\ entering' = NoEntry /\ UNCHANGED refresh
    BY <1>0
  <2>2. EntryIsReady'
    BY <2>1 DEF EntryIsReady
  <2>3. RefreshIsReady' /\ TokensAreValid' /\ Visiting' /\ AtHome'
    BY <1>0, <2>1 DEF SwapInv, Undisrupted, RefreshIsReady, TokensAreValid, Visiting, AtHome, OwnerOf, Host
  <2> QED
    BY <2>2, <2>3 DEF Undisrupted
<1> QED
  BY <1>1, <1>2 DEF SwapInv

LEMMA ShownInv ==
    SwapInv /\ (AskProfile \/ ShowProfile \/ OperatorLogout \/ MissProfile) => SwapInv'
<1> USE DEF storageVars, serverVars
<1>0. SwapInv => /\ user \in BOOLEAN /\ profile \in BOOLEAN /\ signing \in 0..Len(issued) /\ 0 \in 0..Len(issued)
                 /\ banner \in Companies \cup {Nobody} /\ context \in Companies \cup {Nobody}
  BY DEF SwapInv, Types
<1>1. SwapInv /\ AskProfile => SwapInv'
  BY <1>0, OnlyShown DEF AskProfile
<1>2. SwapInv /\ ShowProfile => SwapInv'
  BY <1>0, OnlyShown DEF ShowProfile
<1>3. SwapInv /\ OperatorLogout => SwapInv'
  BY <1>0, OnlyShown DEF OperatorLogout
<1>4. SwapInv /\ MissProfile => SwapInv'
  BY <1>0, OnlyShown DEF MissProfile
<1> QED
  BY <1>1, <1>2, <1>3, <1>4

\* The tokens of the user whose logout it is, who is not the operator in a visit.
LEMMA ServeLogoutInv == SwapInv /\ ServeLogout => SwapInv'
<1> SUFFICES ASSUME SwapInv, ServeLogout PROVE SwapInv'
  OBVIOUS
<1>0. /\ leaving \in Owners /\ leaving' = Served
      /\ valid' = {t \in valid : OwnerOf(t) # leaving}
      /\ UNCHANGED <<held, saved, context, user, banner, issued, refresh, entering, profile, signing,
                     disturbed>>
  BY DEF ServeLogout, storageVars
<1>1. Types'
  BY <1>0 DEF SwapInv, Types, Sessions, Refreshes, Entries
<1>2. Undisrupted'
  <2> SUFFICES ASSUME ~disturbed' PROVE Undisrupted'
    BY DEF Undisrupted
  <2>1. ~disturbed /\ leaving' # NoLogout /\ leaving' # Operator
    BY <1>0, Names DEF NoLogout
  <2>2. context # Nobody => saved.token \in valid'
    BY <1>0, <2>1 DEF SwapInv, Undisrupted, Visiting
  <2>3. EntryIsReady' /\ RefreshIsReady' /\ AtHome'
    BY <1>0, <2>1 DEF SwapInv, Undisrupted, EntryIsReady, RefreshIsReady, AtHome, OwnerOf, Host
  <2>4. TokensAreValid'
    BY <2>1 DEF TokensAreValid
  <2>5. Visiting'
    BY <1>0, <2>1, <2>2 DEF SwapInv, Undisrupted, Visiting, OwnerOf
  <2> QED
    BY <2>3, <2>4, <2>5 DEF Undisrupted
<1> QED
  BY <1>1, <1>2 DEF SwapInv

\* Nothing has changed, or it is disturbed.
LEMMA ReceiveProfileInv == SwapInv /\ ReceiveProfile => SwapInv'
<1> SUFFICES ASSUME SwapInv, ReceiveProfile PROVE SwapInv'
  OBVIOUS
<1>0. /\ held' = [token |-> signing, tenant |-> held.tenant] /\ user' = TRUE /\ banner' = context
      /\ signing' = 0 /\ disturbed' = (disturbed \/ held.token # signing)
      /\ UNCHANGED <<saved, context, issued, valid, refresh, entering, leaving, profile>>
  BY DEF ReceiveProfile, Disturbed, Session, serverVars
<1>1. CASE held.token = signing
  <2>1. held' = held
    BY <1>0, <1>1 DEF SwapInv, Types, Sessions
  <2>2. disturbed' = disturbed /\ 0 \in 0..Len(issued)
        /\ context \in Companies \cup {Nobody} /\ profile \in BOOLEAN
    BY <1>0, <1>1 DEF SwapInv, Types
  <2> QED
    BY <1>0, <2>1, <2>2, OnlyShown
<1>2. CASE held.token # signing
  <2>1. held' \in Sessions /\ 0 \in 0..Len(issued)
    BY <1>0 DEF SwapInv, Types, Sessions
  <2>2. Types'
    BY <1>0, <2>1 DEF SwapInv, Types, Sessions, Refreshes, Entries
  <2> QED
    BY <1>0, <1>2, <2>2 DEF SwapInv, Undisrupted
<1> QED
  BY <1>1, <1>2

-----------------------------------------------------------------------------
\* Steps that issue a token.

\* What is typed and stays is typed when there is one token more.
LEMMA TypesGrow ==
    ASSUME Types, Len(issued) \in Nat, Len(issued') = Len(issued) + 1
    PROVE  /\ held \in Sessions' /\ saved \in Sessions'
           /\ refresh \in Refreshes' /\ entering \in Entries'
           /\ valid \subseteq 1..Len(issued') /\ signing \in 0..Len(issued')
<1>1. 0..Len(issued) \subseteq 0..Len(issued') /\ 1..Len(issued) \subseteq 1..Len(issued')
  OBVIOUS
<1> QED
  BY <1>1 DEF Types, Sessions, Refreshes, Entries

\* A token that is not accepted belongs to the session in the storage, and to a
\* logout that has been served.
LEMMA ServeRefreshInv == SwapInv /\ ServeRefresh => SwapInv'
<1> SUFFICES ASSUME SwapInv, ServeRefresh PROVE SwapInv'
  OBVIOUS
<1>0. /\ refresh.answer = "waiting" /\ refresh.token \in 0..Len(issued)
      /\ UNCHANGED <<held, saved, context, user, banner, entering, leaving, profile, signing, disturbed>>
  BY DEF ServeRefresh, storageVars, SwapInv, Types, Refreshes
<1>1. CASE refresh.token \in valid
  <2>1. /\ Issues(OwnerOf(refresh.token))
        /\ valid' = (valid \ {refresh.token}) \cup {Len(issued')}
        /\ refresh' = [token |-> refresh.token, answer |-> "tokens", new |-> Len(issued')]
    BY <1>1 DEF ServeRefresh
  <2>2. Types /\ refresh.token \in 1..Len(issued)
    BY <1>1 DEF SwapInv, Types
  <2>3. OwnerOf(refresh.token) \in Owners
    BY <2>2, OwnersOfTokens
  <2>4. /\ issued' \in Seq(Owners)
        /\ Len(issued') = Len(issued) + 1 /\ Len(issued) \in Nat
        /\ \A t \in 0..Len(issued) : OwnerOf(t)' = OwnerOf(t)
        /\ issued'[Len(issued')] = OwnerOf(refresh.token)
    BY <2>1, <2>2, <2>3, IssuesKeepsOwners
  <2>5. Types'
    <3>1. refresh' \in Refreshes'
      BY <2>1, <2>2, <2>4 DEF Refreshes
    <3>2. valid' \subseteq 1..Len(issued')
      BY <2>1, <2>2, <2>4, TypesGrow
    <3>3. held \in Sessions' /\ saved \in Sessions' /\ entering \in Entries' /\ signing \in 0..Len(issued')
      BY <2>2, <2>4, TypesGrow
    <3> QED
      BY <1>0, <2>2, <2>4, <3>1, <3>2, <3>3 DEF Types
  <2>6. Undisrupted'
    <3> SUFFICES ASSUME ~disturbed' PROVE Undisrupted'
      BY DEF Undisrupted
    <3>1. ~disturbed /\ OwnerOf(refresh.token) = Host
      BY <1>0 DEF SwapInv, Undisrupted, RefreshIsReady
    <3>2. /\ OwnerOf(held.token)' = OwnerOf(held.token)
          /\ OwnerOf(saved.token)' = OwnerOf(saved.token)
          /\ OwnerOf(entering.token)' = OwnerOf(entering.token)
      BY <1>0, <2>2, <2>4 DEF Types, Sessions, Entries, OwnerOf
    <3>3. OwnerOf(refresh.new)' = Host /\ OwnerOf(refresh.token)' = Host
      BY <2>1, <2>2, <2>4, <3>1 DEF OwnerOf
    <3>4. /\ entering # NoEntry => entering.token # refresh.token
          /\ context # Nobody => saved.token # refresh.token
      BY <3>1, Names DEF SwapInv, Types, Undisrupted, EntryIsReady, Visiting, Host
    <3>5. EntryIsReady'
      BY <1>0, <2>1, <3>1, <3>2, <3>4 DEF SwapInv, Undisrupted, EntryIsReady
    <3>6. RefreshIsReady'
      BY <1>0, <2>1, <3>3 DEF RefreshIsReady, Host
    <3>7. TokensAreValid'
      BY <2>1 DEF TokensAreValid
    <3>8. Visiting' /\ AtHome'
      BY <1>0, <2>1, <3>1, <3>2, <3>4 DEF SwapInv, Undisrupted, Visiting, AtHome
    <3> QED
      BY <3>5, <3>6, <3>7, <3>8 DEF Undisrupted
  <2> QED
    BY <2>5, <2>6 DEF SwapInv
<1>2. CASE refresh.token \notin valid
  <2>1. /\ valid' = {t \in valid : OwnerOf(t) # OwnerOf(refresh.token)} /\ issued' = issued
        /\ refresh' = [token |-> refresh.token, answer |-> "refused", new |-> 0]
    BY <1>2 DEF ServeRefresh
  <2>2. Types'
    <3>1. refresh' \in Refreshes /\ valid' \subseteq valid
      BY <1>0, <2>1 DEF SwapInv, Types, Refreshes
    <3> QED
      BY <1>0, <2>1, <3>1 DEF SwapInv, Types, Sessions, Refreshes, Entries
  <2>3. Undisrupted'
    <3> SUFFICES ASSUME ~disturbed' PROVE Undisrupted'
      BY DEF Undisrupted
    <3>1. ~disturbed /\ OwnerOf(refresh.token) = Host /\ leaving # NoLogout
      BY <1>0, <1>2 DEF SwapInv, Undisrupted, RefreshIsReady, TokensAreValid
    <3>2. context # Nobody => saved.token \in valid'
      BY <2>1, <3>1, Names DEF SwapInv, Types, Undisrupted, Visiting, Host
    <3>3. EntryIsReady' /\ RefreshIsReady' /\ AtHome'
      BY <1>0, <2>1, <3>1 DEF SwapInv, Undisrupted, EntryIsReady, RefreshIsReady, AtHome, OwnerOf, Host
    <3>4. TokensAreValid'
      BY <1>0, <3>1 DEF TokensAreValid
    <3>5. Visiting'
      BY <1>0, <2>1, <3>1, <3>2 DEF SwapInv, Undisrupted, Visiting, OwnerOf
    <3> QED
      BY <3>3, <3>4, <3>5 DEF Undisrupted
  <2> QED
    BY <2>2, <2>3 DEF SwapInv
<1> QED
  BY <1>1, <1>2

\* Only the operator asks for an entry, and the operator is not inside a company.
LEMMA LoginAsCompanyInv ==
    ASSUME NEW c \in Companies, SwapInv, LoginAsCompany(c)
    PROVE  SwapInv'
<1>1. /\ Issues(c) /\ user
      /\ valid' = valid \cup {Len(issued')}
      /\ entering' = [company |-> c, token |-> Len(issued')]
      /\ UNCHANGED <<held, saved, context, user, banner, refresh, leaving, profile, signing, disturbed>>
  BY DEF LoginAsCompany, storageVars
<1>2. Types /\ c \in Owners
  BY DEF SwapInv, Owners
<1>3. /\ issued' \in Seq(Owners)
      /\ Len(issued') = Len(issued) + 1 /\ Len(issued) \in Nat
      /\ \A t \in 0..Len(issued) : OwnerOf(t)' = OwnerOf(t)
      /\ issued'[Len(issued')] = c
  BY <1>1, <1>2, IssuesKeepsOwners
<1>4. Types'
  <2>1. entering' \in Entries'
    BY <1>1, <1>3 DEF Entries
  <2>2. valid' \subseteq 1..Len(issued')
    BY <1>1, <1>2, <1>3, TypesGrow
  <2>3. held \in Sessions' /\ saved \in Sessions' /\ refresh \in Refreshes' /\ signing \in 0..Len(issued')
    BY <1>2, <1>3, TypesGrow
  <2> QED
    BY <1>1, <1>2, <1>3, <2>1, <2>2, <2>3 DEF Types
<1>5. Undisrupted'
  <2> SUFFICES ASSUME ~disturbed' PROVE Undisrupted'
    BY DEF Undisrupted
  <2>1. ~disturbed /\ OwnerOf(held.token) = Operator
    BY <1>1 DEF LoginAsCompany
  <2>2. context = Nobody
    BY <2>1, Names DEF SwapInv, Types, Undisrupted, Visiting
  <2>3. /\ OwnerOf(held.token)' = OwnerOf(held.token)
        /\ OwnerOf(saved.token)' = OwnerOf(saved.token)
        /\ OwnerOf(refresh.token)' = OwnerOf(refresh.token)
        /\ OwnerOf(refresh.new)' = OwnerOf(refresh.new)
    BY <1>1, <1>2, <1>3 DEF Types, Sessions, Refreshes, OwnerOf
  <2>4. OwnerOf(entering.token)' = c
    BY <1>1, <1>3 DEF OwnerOf
  <2>5. EntryIsReady'
    BY <1>1, <2>1, <2>2, <2>3, <2>4 DEF EntryIsReady
  <2>6. RefreshIsReady' /\ TokensAreValid'
    BY <1>1, <2>1, <2>3 DEF SwapInv, Undisrupted, RefreshIsReady, TokensAreValid, Host
  <2>7. Visiting' /\ AtHome'
    BY <1>1, <2>1, <2>2, <2>3 DEF SwapInv, Undisrupted, Visiting, AtHome
  <2> QED
    BY <2>5, <2>6, <2>7 DEF Undisrupted
<1> QED
  BY <1>4, <1>5 DEF SwapInv

\* Nobody is signed in: there is no visit, and no answer to wait for.
LEMMA OperatorLoginInv == SwapInv /\ OperatorLogin => SwapInv'
<1> SUFFICES ASSUME SwapInv, OperatorLogin PROVE SwapInv'
  OBVIOUS
<1>1. /\ Issues(Operator) /\ ~user
      /\ valid' = valid \cup {Len(issued')}
      /\ held' = [token |-> Len(issued'), tenant |-> held.tenant]
      /\ signing' = Len(issued')
      /\ UNCHANGED <<saved, context, user, banner, refresh, entering, leaving, profile, disturbed>>
  BY DEF OperatorLogin, Session
<1>2. Types /\ Operator \in Owners
  BY DEF SwapInv, Owners
<1>3. /\ issued' \in Seq(Owners)
      /\ Len(issued') = Len(issued) + 1 /\ Len(issued) \in Nat
      /\ \A t \in 0..Len(issued) : OwnerOf(t)' = OwnerOf(t)
      /\ issued'[Len(issued')] = Operator
  BY <1>1, <1>2, IssuesKeepsOwners
<1>4. Types'
  <2>1. held' \in Sessions'
    BY <1>1, <1>2, <1>3 DEF Types, Sessions
  <2>2. valid' \subseteq 1..Len(issued') /\ signing' \in 0..Len(issued')
    BY <1>1, <1>2, <1>3, TypesGrow
  <2>3. saved \in Sessions' /\ refresh \in Refreshes' /\ entering \in Entries'
    BY <1>2, <1>3, TypesGrow
  <2> QED
    BY <1>1, <1>2, <1>3, <2>1, <2>2, <2>3 DEF Types
<1>5. Undisrupted'
  <2> SUFFICES ASSUME ~disturbed' PROVE Undisrupted'
    BY DEF Undisrupted
  <2>1. ~disturbed /\ context = Nobody /\ entering = NoEntry
    BY <1>1 DEF SwapInv, Undisrupted, Visiting, EntryIsReady
  <2>2. held'.token = Len(issued') /\ held'.token \in valid' /\ OwnerOf(held.token)' = Operator
    BY <1>1, <1>3 DEF OwnerOf
  <2>3. /\ OwnerOf(refresh.token)' = OwnerOf(refresh.token)
        /\ OwnerOf(refresh.new)' = OwnerOf(refresh.new)
    BY <1>1, <1>2, <1>3 DEF Types, Refreshes, OwnerOf
  <2>4. EntryIsReady'
    BY <1>1, <2>1 DEF EntryIsReady
  <2>5. RefreshIsReady' /\ TokensAreValid'
    BY <1>1, <2>1, <2>2, <2>3 DEF SwapInv, Undisrupted, RefreshIsReady, TokensAreValid, Host
  <2>6. Visiting' /\ AtHome'
    BY <1>1, <2>1, <2>2 DEF SwapInv, Undisrupted, Visiting, AtHome
  <2> QED
    BY <2>4, <2>5, <2>6 DEF Undisrupted
<1> QED
  BY <1>4, <1>5 DEF SwapInv

-----------------------------------------------------------------------------

LEMMA SwapNextInv == SwapInv /\ [SwapNext]_impersonationVars => SwapInv'
<1> SUFFICES ASSUME SwapInv, [SwapNext]_impersonationVars PROVE SwapInv'
  OBVIOUS
<1>1. CASE UNCHANGED impersonationVars
  <2>1. UNCHANGED <<held, saved, context, user, banner, issued, valid, refresh, entering, leaving, profile,
                    signing, disturbed>>
    BY <1>1 DEF impersonationVars, storageVars, serverVars, flightVars
  <2> QED
    BY <2>1 DEF SwapInv, Types, Sessions, Refreshes, Entries, Undisrupted, EntryIsReady, RefreshIsReady,
                TokensAreValid, Visiting, AtHome, OwnerOf, Host
<1>2. ASSUME NEW c \in Companies, LoginAsCompany(c) PROVE SwapInv'
  BY <1>2, LoginAsCompanyInv
<1> QED
  BY <1>1, <1>2, StartRefreshInv, ServeRefreshInv, TakeTokensInv, SignOutsInv, EnterImpersonationInv,
     LoseReplyInv, ExitImpersonationInv, ReloadInv, ShownInv, ServeLogoutInv, ReceiveProfileInv, OperatorLoginInv
     DEF SwapNext

LEMMA SwapAlways == SwapSpec => []SwapInv
<1>1. SwapInit => SwapInv
  BY SwapInitInv
<1>2. SwapInv /\ [SwapNext]_impersonationVars => SwapInv'
  BY SwapNextInv
<1> QED
  BY <1>1, <1>2, PTL DEF SwapSpec

\* The storage, the server and the answers on their way keep their types.
THEOREM SwapTyped == SwapSpec => []ImpersonationTypeOK
<1>1. SwapInv => ImpersonationTypeOK
  BY DEF SwapInv, Types, Sessions, ImpersonationTypeOK
<1> QED
  BY <1>1, SwapAlways, PTL

\* Until a step is Disturbed, the browser is the administrator of the company that
\* the context names, with the operator's session to return to, or the operator.
THEOREM SwapIsWholeAlways == SwapSpec => []SwapIsWhole
<1>1. SwapInv => SwapIsWhole
  BY DEF SwapInv, Types, Undisrupted, TokensAreValid, Visiting, AtHome, SwapIsWhole, NoRefresh, Refreshing,
         Leaving
<1> QED
  BY <1>1, SwapAlways, PTL
-----------------------------------------------------------------------------
\* The scenes

\* Each scene sees the steps of the others as stuttering.
THEOREM ScenesApart == BrowserSpec => RuledSpec /\ SwapSpec
<1>1. BrowserInit => RuledInit /\ SwapInit
  BY DEF BrowserInit
<1>2. [TabsScene \/ VisitScene \/ PageScene]_browserVars => [RuledNext]_<<vars, rule>>
  BY DEF TabsScene, VisitScene, PageScene, browserVars
<1>3. [TabsScene \/ VisitScene \/ PageScene]_browserVars => [SwapNext]_impersonationVars
  BY DEF TabsScene, VisitScene, PageScene, browserVars
<1> QED
  BY <1>1, <1>2, <1>3, PTL DEF BrowserSpec, RuledSpec, SwapSpec
-----------------------------------------------------------------------------
\* The pages

\* The control is disabled while its request runs, or the request may well be
\* served twice.
Waits(a) == a.busy = TRUE \/ a.request \notin C!OneShot

LEMMA ButtonWaits ==
  /\ \A request, fields, to, when : Waits(C!Button(request, fields, to, when))
  /\ \A request, fields : Waits(C!Submit(request, fields))
  /\ \A path : Waits(C!ExportButtons(path))
  /\ Waits(C!ImageUploader) /\ Waits([C!ImageUploader EXCEPT !.when = C!Whatever])
BY DEF Waits, C!Button, C!Submit, C!ExportButtons, C!ImageUploader

LEMMA ControlWaits ==
  \A request, fields, to, when :
    request \in {C!usersApi.update, C!usersApi.resetPassword, C!clientsApi.update,
                 C!billingApi.invoicePdf, C!billingApi.receiptPdf, C!notificationsApi.markRead}
      => Waits(C!Control(request, fields, to, when))
<1> DEFINE Harmless == {C!usersApi.update, C!usersApi.resetPassword, C!clientsApi.update,
                        C!billingApi.invoicePdf, C!billingApi.receiptPdf, C!notificationsApi.markRead}
<1>1. \A r \in C!OneShot : r.verb = "POST"
  BY DEF C!OneShot, C!usersApi, C!vehiclesApi, C!clientsApi, C!reservationsApi, C!contractsApi,
         C!invoicesApi, C!paymentsApi, C!creditsApi, C!maintenanceApi, C!inspectionsApi,
         C!depositsApi, C!billingApi, C!platformApi, C!Post, C!Request
<1>2. \A r \in C!OneShot : r.path \notin {"users/:id/reset-password", "notifications/:id/read"}
  BY DEF C!OneShot, C!usersApi, C!vehiclesApi, C!clientsApi, C!reservationsApi, C!contractsApi,
         C!invoicesApi, C!paymentsApi, C!creditsApi, C!maintenanceApi, C!inspectionsApi,
         C!depositsApi, C!billingApi, C!platformApi, C!Post, C!Request
<1>3. \A r \in Harmless : r.verb # "POST" \/ r.path \in {"users/:id/reset-password", "notifications/:id/read"}
  BY DEF C!usersApi, C!clientsApi, C!billingApi, C!notificationsApi, C!Patch, C!Post, C!Download, C!Request
<1>4. \A r \in Harmless : r \notin C!OneShot
  <2> HIDE DEF Harmless
  <2> QED
    BY <1>1, <1>2, <1>3
<1>5. \A request, fields, to, when : C!Control(request, fields, to, when).request = request
  BY DEF C!Control, C!Button
<1> QED
  BY <1>4, <1>5 DEF Waits

AllWait(p) == \A a \in p.acts : Waits(a)

LEMMA PageOf == \A kind, gate, loads, acts : C!Page(kind, gate, loads, acts).acts = acts
  BY DEF C!Page

LEMMA ListPageOf == \A request, acts : C!ListPage(request, acts).acts = acts
  BY DEF C!ListPage, C!Page

\* No page has a control that stays enabled and starts a request that must not be
\* served twice.
LEMMA PagesWait == \A p \in DOMAIN C!Pages : AllWait(C!Pages[p])
<1>1. /\ AllWait(C!ContractsPage) /\ AllWait(C!ReservationsPage) /\ AllWait(C!VehiclesPage)
      /\ AllWait(C!ClientsPage) /\ AllWait(C!InvoicesPage) /\ AllWait(C!PaymentsPage)
  BY ButtonWaits, ListPageOf
     DEF AllWait, C!ContractsPage, C!ReservationsPage, C!VehiclesPage, C!ClientsPage,
         C!InvoicesPage, C!PaymentsPage
<1>2. /\ AllWait(C!CalendarPage) /\ AllWait(C!CreditsPage) /\ AllWait(C!CreditDetailPage)
      /\ AllWait(C!MaintenancePage) /\ AllWait(C!InspectionsPage) /\ AllWait(C!InspectionDetailPage)
      /\ AllWait(C!DashboardPage) /\ AllWait(C!PlatformTenantsPage) /\ AllWait(C!PlatformAuditPage)
      /\ AllWait(C!BadgesProvider)
  BY PageOf
     DEF AllWait, C!CalendarPage, C!CreditsPage, C!CreditDetailPage, C!MaintenancePage,
         C!InspectionsPage, C!InspectionDetailPage, C!DashboardPage, C!PlatformTenantsPage,
         C!PlatformAuditPage, C!BadgesProvider
<1>3. AllWait(C!ContractDetailPage) /\ AllWait(C!DepositCard) /\ AllWait(C!ReservationDetailPage)
  BY ButtonWaits, PageOf
     DEF AllWait, C!ContractDetailPage, C!SignatureModal, C!DepositCard, C!ReservationDetailPage
<1>4. /\ AllWait(C!NewContractPage) /\ AllWait(C!NewReservationPage) /\ AllWait(C!NewVehiclePage)
      /\ AllWait(C!NewClientPage) /\ AllWait(C!NewInvoicePage) /\ AllWait(C!NewPaymentPage)
      /\ AllWait(C!NewCreditPage) /\ AllWait(C!NewMaintenancePage) /\ AllWait(C!NewInspectionPage)
  BY ButtonWaits, PageOf
     DEF AllWait, C!NewContractPage, C!NewReservationPage, C!NewVehiclePage, C!NewClientPage,
         C!NewInvoicePage, C!NewPaymentPage, C!NewCreditPage, C!NewMaintenancePage,
         C!NewInspectionPage
<1>5. /\ AllWait(C!EditVehiclePage) /\ AllWait(C!EditClientPage) /\ AllWait(C!TeamPage)
      /\ AllWait(C!PlatformBillingPage) /\ AllWait(C!NotificationsBell)
  BY ButtonWaits, ControlWaits, PageOf
     DEF AllWait, C!EditVehiclePage, C!EditClientPage, C!TeamPage, C!PlatformBillingPage,
         C!NotificationsBell
<1>6. /\ AllWait(C!AlertsPage) /\ AllWait(C!ReportsPage) /\ AllWait(C!SettingsPage)
      /\ AllWait(C!CompanySettings) /\ AllWait(C!BillingSettings)
  <2>1. AllWait(C!AlertsPage) /\ AllWait(C!SettingsPage) /\ AllWait(C!BillingSettings)
    BY ButtonWaits, PageOf DEF AllWait, C!AlertsPage, C!SettingsPage, C!BillingSettings
  <2>2. AllWait(C!ReportsPage)
    BY ButtonWaits, PageOf DEF AllWait, C!ReportsPage
  <2>3. AllWait(C!CompanySettings)
    <3>1. \E named, texts :
            C!CompanySettings =
              C!Page("none", C!Everyone, {},
                {C!Button(C!Upload, C!Nothing, {"ADMIN"}, C!Shown),
                 C!Button(C!tenantSelfApi.update, C!Fields({}, {"name"}, texts), {"ADMIN"}, C!Shown),
                 C!Button(C!tenantSelfApi.update, C!Fields(named, {"name"}, texts), {"ADMIN"}, C!Shown),
                 C!Button(C!tenantSelfApi.update, C!Fields({}, {}, {"logoUrl"}), {"ADMIN"}, C!Shown)})
      BY Zenon DEF C!CompanySettings
    <3> QED
      BY <3>1, ButtonWaits, PageOf DEF AllWait
  <2> QED
    BY <2>1, <2>2, <2>3
<1>7. /\ AllWait(C!LoginPage) /\ AllWait(C!RegisterPage) /\ AllWait(C!DemoSection)
      /\ AllWait(C!ContactSection)
  BY ButtonWaits, PageOf
     DEF AllWait, C!LoginPage, C!RegisterPage, C!DemoSection, C!ContactSection
<1>8. /\ AllWait(C!PlatformDashboardPage) /\ AllWait(C!SystemBackupsPage)
      /\ AllWait(C!PlatformTenantDetailPage)
  BY ButtonWaits, PageOf
     DEF AllWait, C!PlatformDashboardPage, C!SystemBackupsPage, C!PlatformTenantDetailPage,
         C!tenantActions
<1> QED
  BY <1>1, <1>2, <1>3, <1>4, <1>5, <1>6, <1>7, <1>8 DEF C!Pages
-----------------------------------------------------------------------------
\* A request

CallFields ==
  {"phase", "request", "body", "busy", "claims", "tries", "again", "made", "answer"}

\* What is served already has its answer, which may be on its way.
Unserved(c) == c.phase = "answered" => c.answer \notin {"ok", "lost"}

\* A request is served once per click, and a request of one click once.
CallFine(c) ==
  /\ c = [f \in CallFields |-> c[f]]
  /\ c.phase \in {"sent", "answered"}
  /\ c.tries \in 1..2 /\ c.made \in 0..2 /\ c.again \in BOOLEAN
  /\ Unserved(c) => c.made <= 1
  /\ Unserved(c) /\ c.made = 1 => c.again = FALSE
  /\ c.again = TRUE => c.made <= 1
  /\ c.request \in C!OneShot =>
        /\ c.busy = TRUE /\ c.again = FALSE /\ c.made <= 1
        /\ Unserved(c) => c.made = 0

SentInv == call # C!NoCall => CallFine(call) /\ page # C!Home

\* A request is answered, sent again, or clicked again.
LEMMA CallAnswered ==
  ASSUME NEW c, CallFine(c), c.phase = "sent", NEW answer, NEW n \in {0, 1},
         n = 1 <=> answer \in {"ok", "lost"}
  PROVE  CallFine([c EXCEPT !.phase = "answered", !.answer = answer, !.made = c.made + n])
<1> DEFINE d == [c EXCEPT !.phase = "answered", !.answer = answer, !.made = c.made + n]
<1>1. /\ d = [f \in CallFields |-> d[f]]
      /\ d.phase = "answered" /\ d.answer = answer /\ d.made = c.made + n
      /\ d.tries = c.tries /\ d.again = c.again /\ d.busy = c.busy /\ d.request = c.request
  BY DEF CallFine, CallFields
<1> HIDE DEF d
<1>2. CallFine(d)
  BY <1>1 DEF CallFine, Unserved
<1> QED
  BY <1>2 DEF d

LEMMA CallSent ==
  ASSUME NEW c, CallFine(c), c.phase = "answered", c.answer = "401", NEW claims0
  PROVE  CallFine([c EXCEPT !.phase = "sent", !.answer = "none", !.tries = 2, !.claims = claims0])
<1> DEFINE d == [c EXCEPT !.phase = "sent", !.answer = "none", !.tries = 2, !.claims = claims0]
<1>1. /\ d = [f \in CallFields |-> d[f]]
      /\ d.phase = "sent" /\ d.made = c.made /\ d.tries = 2
      /\ d.again = c.again /\ d.busy = c.busy /\ d.request = c.request
  BY DEF CallFine, CallFields
<1> HIDE DEF d
<1>2. CallFine(d)
  BY <1>1 DEF CallFine, Unserved
<1> QED
  BY <1>2 DEF d

LEMMA CallSecond ==
  ASSUME NEW c, CallFine(c), c.again = TRUE
  PROVE  CallFine([c EXCEPT !.phase = "sent", !.answer = "none", !.again = FALSE])
<1> DEFINE d == [c EXCEPT !.phase = "sent", !.answer = "none", !.again = FALSE]
<1>1. /\ d = [f \in CallFields |-> d[f]]
      /\ d.phase = "sent" /\ d.made = c.made /\ d.tries = c.tries
      /\ d.again = FALSE /\ d.busy = c.busy /\ d.request = c.request
  BY DEF CallFine, CallFields
<1> HIDE DEF d
<1>2. CallFine(d)
  BY <1>1 DEF CallFine, Unserved
<1> QED
  BY <1>2 DEF d

LEMMA CallTwice ==
  ASSUME NEW c, CallFine(c), c.phase = "sent", c.made = 0, c.busy # TRUE
  PROVE  CallFine([c EXCEPT !.again = TRUE])
<1> DEFINE d == [c EXCEPT !.again = TRUE]
<1>1. /\ d = [f \in CallFields |-> d[f]]
      /\ d.phase = "sent" /\ d.made = 0 /\ d.tries = c.tries
      /\ d.again = TRUE /\ d.again \in BOOLEAN /\ d.busy = c.busy /\ d.request = c.request
  BY DEF CallFine, CallFields
<1> HIDE DEF d
<1>2. d.made \in 0..2 /\ d.made <= 1 /\ d.made # 1 /\ d.tries \in 1..2 /\ d.again \in BOOLEAN
  BY <1>1 DEF CallFine
<1>3. d.request \notin C!OneShot
  BY <1>1 DEF CallFine
<1>4. CallFine(d)
  BY <1>1, <1>2, <1>3 DEF CallFine
<1> QED
  BY <1>4 DEF d

LEMMA CallKept ==
  ASSUME SentInv, page \in DOMAIN C!Pages \cup {C!Home}, C!ConsoleNext
  PROVE  SentInv'
<1>1. ASSUME call' = call, call # C!NoCall => page' = page PROVE SentInv'
  BY <1>1 DEF SentInv
<1>2. ASSUME call' = C!NoCall PROVE SentInv'
  BY <1>2 DEF SentInv, C!NoCall
<1>3. ASSUME page' = page, call # C!NoCall, CallFine(call') PROVE SentInv'
  BY <1>3 DEF SentInv
<1>4. ASSUME page # C!Home, NEW a \in C!Pages[page].acts, NEW body, C!Click(a, body) PROVE SentInv'
  <2> DEFINE c == [phase |-> "sent", request |-> a.request, body |-> body, busy |-> a.busy,
                   claims |-> claims, tries |-> 1, again |-> FALSE, made |-> 0, answer |-> "none"]
  <2>1. call' = c /\ page' = page
    BY <1>4 DEF C!Click
  <2>2. Waits(a)
    BY <1>4, PagesWait DEF AllWait
  <2>3. /\ c = [f \in CallFields |-> c[f]]
        /\ c.phase = "sent" /\ c.made = 0 /\ c.tries = 1
        /\ c.again = FALSE /\ c.again \in BOOLEAN /\ c.busy = a.busy /\ c.request = a.request
    BY DEF CallFields
  <2> HIDE DEF c
  <2>4. CallFine(c)
    BY <2>2, <2>3 DEF CallFine, Unserved, Waits
  <2> QED
    BY <1>4, <2>1, <2>4 DEF SentInv
<1>5. call = C!NoCall => call.phase = "none"
  BY DEF C!NoCall
<1>6. ASSUME C!ClickAgain PROVE SentInv'
  <2>1. call # C!NoCall /\ CallFine(call)
    BY <1>5, <1>6 DEF C!ClickAgain, SentInv
  <2> QED
    BY <1>3, <1>6, <2>1, CallTwice DEF C!ClickAgain
<1>7. ASSUME NEW answer, NEW n \in {0, 1}, call.phase = "sent", page' = page,
             n = 1 <=> answer \in {"ok", "lost"}, C!Answered(answer, n)
      PROVE  SentInv'
  <2>1. call # C!NoCall /\ CallFine(call)
    BY <1>5, <1>7 DEF SentInv
  <2>2. call' = [call EXCEPT !.phase = "answered", !.answer = answer, !.made = call.made + n]
    BY <1>7, <2>1 DEF C!Answered
  <2> QED
    BY <1>3, <1>7, <2>1, <2>2, CallAnswered
<1>8. ASSUME C!Expired PROVE SentInv'
  BY <1>7, <1>8 DEF C!Expired
<1>9. ASSUME C!Serve PROVE SentInv'
  <2> DEFINE gate == C!Admission(C!RouteOf(call.request), call.claims, call.claims.tenant, call.body)
  <2>1. gate \notin {"ok", "lost"}
    BY DEF C!Admission
  <2>2. call.phase = "sent" /\ page' = page
    BY <1>9 DEF C!Serve
  <2>3. \/ C!Answered(gate, 0) \/ C!Answered("409", 0)
        \/ \E answer \in {"ok", "lost"} : C!Answered(answer, 1)
    BY <1>9 DEF C!Serve
  <2> HIDE DEF gate
  <2> QED
    BY <1>7, <2>1, <2>2, <2>3
<1>10. ASSUME C!Retry PROVE SentInv'
  <2>1. call.phase = "answered" /\ call.answer = "401" /\ page' = page
    BY <1>10 DEF C!Retry, C!Unauthorized
  <2>2. call # C!NoCall /\ CallFine(call)
    BY <1>5, <2>1 DEF SentInv
  <2> QED
    BY <1>3, <1>10, <2>1, <2>2, CallSent DEF C!Retry
<1>11. ASSUME C!ReceiveFirst PROVE SentInv'
  <2>1. call.phase = "answered" /\ page' = page /\ call.again
    BY <1>11 DEF C!ReceiveFirst
  <2>2. call # C!NoCall /\ CallFine(call)
    BY <1>5, <2>1 DEF SentInv
  <2>3. call.again = TRUE
    BY <2>1, <2>2 DEF CallFine
  <2> QED
    BY <1>3, <1>11, <2>1, <2>2, <2>3, CallSecond DEF C!ReceiveFirst
<1>12. ASSUME C!GiveUp \/ C!SignIn \/ C!Receive PROVE SentInv'
  BY <1>2, <1>12 DEF C!GiveUp, C!SignIn, C!Receive
<1>13. ASSUME \/ \E p \in DOMAIN C!Pages : C!Open(p)
              \/ C!Leave \/ C!SignOut
       PROVE  SentInv'
  BY <1>1, <1>13 DEF C!Open, C!Leave, C!SignOut, SentInv
<1>14. ASSUME C!Elsewhere \/ C!ChangeRole \/ C!RefreshUser PROVE SentInv'
  BY <1>1, <1>14 DEF C!Elsewhere, C!ChangeRole, C!RefreshUser
<1> QED
  BY <1>4, <1>6, <1>8, <1>9, <1>10, <1>11, <1>12, <1>13, <1>14 DEF C!ConsoleNext
-----------------------------------------------------------------------------
\* What a page and its object can be

Proper(m) == m.from \subseteq C!Whatever /\ m.to \subseteq C!Whatever \cup {"GONE"}

LEMMA MoveProper ==
  \A kind, request, from, to :
    from \subseteq C!Whatever /\ to \subseteq C!Whatever \cup {"GONE"}
      => Proper(C!Move(kind, request, from, to))
BY DEF Proper, C!Move

\* No service and no sweep gives an object a status of which a page does not know.
LEMMA MovesProper == \A m \in C!Moves \cup C!Sweeps : Proper(m)
<1>1. \A m \in C!ContractMoves : Proper(m)
  BY MoveProper DEF C!ContractMoves, C!Whatever, C!Stays
<1>2. \A m \in C!ReservationMoves : Proper(m)
  BY MoveProper DEF C!ReservationMoves, C!Whatever
<1>3. \A m \in C!DepositMoves : Proper(m)
  BY MoveProper DEF C!DepositMoves, C!Whatever
<1>4. \A m \in C!AlertMoves : Proper(m)
  BY MoveProper DEF C!AlertMoves, C!Whatever
<1>5. \A m \in C!TenantMoves : Proper(m)
  BY MoveProper DEF C!TenantMoves, C!Whatever, C!Stays
<1>6. \A m \in C!UserMoves : Proper(m)
  BY MoveProper DEF C!UserMoves, C!Whatever, C!Stays
<1>7. \A m \in C!ArchiveMoves : Proper(m)
  BY MoveProper DEF C!ArchiveMoves, C!Whatever, C!Stays
<1>8. \A m \in C!Sweeps : Proper(m)
  BY MoveProper DEF C!Sweeps, C!Whatever
<1> QED
  BY <1>1, <1>2, <1>3, <1>4, <1>5, <1>6, <1>7, <1>8 DEF C!Moves

LEMMA StatusesProper == \A kind : C!StatusesOf(kind) \subseteq C!Whatever
<1>1. "LIVE" \in C!Whatever
  BY DEF C!Whatever
<1> QED
  BY <1>1, MovesProper DEF C!StatusesOf, Proper

Signed == {C!NoClaims} \cup {C!ClaimsOf(r) : r \in C!Roles}

ConsoleInv ==
  /\ role \in C!Roles /\ shown \in C!Roles \cup {"none"} /\ claims \in Signed
  /\ page \in DOMAIN C!Pages \cup {C!Home}
  /\ status \in C!Whatever \cup {"GONE"} /\ seen \in C!Whatever
  /\ SentInv

LEMMA ConsoleKept == ConsoleInv /\ C!ConsoleNext => ConsoleInv'
<1> SUFFICES ASSUME ConsoleInv, C!ConsoleNext PROVE ConsoleInv'
  OBVIOUS
<1> DEFINE Kept == /\ role' \in C!Roles /\ shown' \in C!Roles \cup {"none"} /\ claims' \in Signed
                   /\ page' \in DOMAIN C!Pages \cup {C!Home}
                   /\ status' \in C!Whatever \cup {"GONE"} /\ seen' \in C!Whatever
<1>1. SentInv'
  BY CallKept DEF ConsoleInv
<1>2. "LIVE" \in C!Whatever /\ "nothing" \in C!Whatever
  BY DEF C!Whatever
<1>3. \A r \in C!Roles : C!ClaimsOf(r) \in Signed
  BY DEF Signed
<1>4. C!NoClaims \in Signed
  BY DEF Signed
<1>5. "ADMIN" \in C!Roles /\ C!Staff \subseteq C!Roles
  BY DEF C!Roles, C!Staff
<1>6. /\ role \in C!Roles /\ shown \in C!Roles \cup {"none"} /\ claims \in Signed
      /\ page \in DOMAIN C!Pages \cup {C!Home}
      /\ status \in C!Whatever \cup {"GONE"} /\ seen \in C!Whatever
  BY DEF ConsoleInv
<1>7. ASSUME NEW p \in DOMAIN C!Pages, C!Open(p) PROVE Kept
  <2>1. status' \in C!Whatever
    BY <1>7, StatusesProper DEF C!Open
  <2> QED
    BY <1>2, <1>6, <1>7, <2>1 DEF C!Open
<1>8. ASSUME C!Leave \/ C!SignOut \/ C!GiveUp PROVE Kept
  BY <1>2, <1>4, <1>6, <1>8 DEF C!Leave, C!SignOut, C!GiveUp
<1>9. ASSUME \/ \E a \in C!Pages[page].acts : \E b \in C!Bodies(a.fields) : C!Click(a, b)
             \/ C!ClickAgain \/ C!Expired \/ C!ReceiveFirst
      PROVE  Kept
  BY <1>6, <1>9 DEF C!Click, C!ClickAgain, C!Expired, C!ReceiveFirst
<1>10. ASSUME C!Serve PROVE Kept
  <2>1. C!StatusAfter(call.request) \subseteq C!Whatever \cup {"GONE"}
    <3> DEFINE after == UNION {m.to : m \in {n \in C!Moves : n.request = call.request}}
    <3>1. C!StatusAfter(call.request) \subseteq after \cup {status}
      BY DEF C!StatusAfter
    <3>2. after \subseteq C!Whatever \cup {"GONE"}
      BY MovesProper DEF Proper
    <3> HIDE DEF after
    <3> QED
      BY <1>6, <3>1, <3>2
  <2>2. status' = status \/ status' \in C!StatusAfter(call.request)
    BY <1>10 DEF C!Serve
  <2>3. UNCHANGED <<role, claims, shown, page, seen>>
    BY <1>10 DEF C!Serve
  <2> QED
    BY <1>6, <2>1, <2>2, <2>3
<1>11. ASSUME C!Retry PROVE Kept
  BY <1>3, <1>6, <1>11 DEF C!Retry
<1>12. ASSUME C!Receive PROVE Kept
  BY <1>2, <1>6, <1>12 DEF C!Receive
<1>13. ASSUME C!SignIn PROVE Kept
  BY <1>2, <1>3, <1>5, <1>6, <1>13 DEF C!SignIn
<1>14. ASSUME C!Elsewhere PROVE Kept
  <2>1. status' \in C!Whatever \cup {"GONE"}
    BY <1>14, MovesProper DEF C!Elsewhere, Proper
  <2>2. UNCHANGED <<role, claims, shown, page, seen>>
    BY <1>14 DEF C!Elsewhere
  <2> QED
    BY <1>6, <2>1, <2>2
<1>15. ASSUME C!ChangeRole \/ C!RefreshUser PROVE Kept
  BY <1>5, <1>6, <1>15 DEF C!ChangeRole, C!RefreshUser
<1>16. Kept
  BY <1>7, <1>8, <1>9, <1>10, <1>11, <1>12, <1>13, <1>14, <1>15 DEF C!ConsoleNext
<1> QED
  BY <1>1, <1>16 DEF ConsoleInv

LEMMA ConsoleHolds == BrowserSpec => []ConsoleInv
<1>1. BrowserInit => ConsoleInv
  <2> SUFFICES ASSUME C!ConsoleInit PROVE ConsoleInv
    BY DEF BrowserInit
  <2>1. claims \in Signed
    BY DEF C!ConsoleInit, Signed
  <2>2. status \in C!Whatever /\ seen \in C!Whatever
    BY DEF C!ConsoleInit, C!Whatever
  <2> QED
    BY <2>1, <2>2 DEF C!ConsoleInit, ConsoleInv, SentInv
<1>2. ConsoleInv /\ [TabsScene \/ VisitScene \/ PageScene]_browserVars => ConsoleInv'
  <2> SUFFICES ASSUME ConsoleInv, [TabsScene \/ VisitScene \/ PageScene]_browserVars PROVE ConsoleInv'
    OBVIOUS
  <2>1. CASE PageScene
    BY <2>1, ConsoleKept DEF PageScene
  <2>2. CASE UNCHANGED pageVars
    BY <2>2 DEF pageVars, ConsoleInv, SentInv
  <2> QED
    BY <2>1, <2>2 DEF TabsScene, VisitScene, browserVars
<1> QED
  BY <1>1, <1>2, PTL DEF BrowserSpec

\* What one click starts is done once, whatever becomes of tokens, of the role of
\* the user and of the answers, on every page (apiFetch, and the flags that
\* disable the buttons).
THEOREM OncePerClick == BrowserSpec => []OneWritePerClick
<1>1. ConsoleInv => OneWritePerClick
  BY DEF ConsoleInv, SentInv, CallFine, OneWritePerClick, C!OneWritePerClick
<1> QED
  BY <1>1, ConsoleHolds, PTL

\* Tabs, visits and pages keep their types.
THEOREM BrowserTyped == BrowserSpec => []BrowserTypeOK
<1>1. ConsoleInv => C!ConsoleTypeOK
  BY DEF ConsoleInv, SentInv, CallFine, Signed, C!ConsoleTypeOK
<1>2. TypeOK /\ ImpersonationTypeOK /\ C!ConsoleTypeOK => BrowserTypeOK
  BY DEF BrowserTypeOK
<1> QED
  BY <1>1, <1>2, ConsoleHolds, ScenesApart, SessionsTyped, SwapTyped, PTL

\* What else is checked of small instances of the tabs and of the visits.
THEOREM BrowserKept ==
  BrowserSpec => [](StoreIsLive /\ LogoutIsFinal /\ SwapIsWhole) /\ ImplementsOneTimeToken
BY ScenesApart, StoreLive, LogoutFinal, SwapIsWholeAlways, IsOneTimeToken, PTL
=============================================================================
