-------------------------- MODULE Sessions_proofs --------------------------
(***************************************************************************)
(* For any number of tabs, requests, tokens and refreshes: the types, that *)
(* failed requests of a tab share one refresh and all hear of it, that no  *)
(* token is presented twice, that a password reset ends the sessions, that *)
(* a sign-in has one usable token unless a refresh was verified twice, and *)
(* that nobody active is thrown out as idle.                               *)
(***************************************************************************)
EXTENDS Sessions, SequenceTheorems, TLAPS

\* Changing one field of one row keeps a table a table.
LEMMA RowChanged ==
  ASSUME NEW S, NEW seq \in Seq(S), NEW i \in 1..Len(seq), NEW e \in S
  PROVE  /\ [seq EXCEPT ![i] = e] \in Seq(S)
         /\ Len([seq EXCEPT ![i] = e]) = Len(seq)
         /\ \A j \in 1..Len(seq) : [seq EXCEPT ![i] = e][j] = IF j = i THEN e ELSE seq[j]
  BY ExceptSeq

\* RevokeRefreshToken revokes at most one row and changes nothing else.
LEMMA RevokeOne ==
  ASSUME TypeOK, NEW why \in Revoked, NEW t \in 0..Len(tokens),
         NEW new, new = RevokeRefreshToken(t, why)
  PROVE  /\ new \in Seq(TokenRow) /\ Len(new) = Len(tokens)
         /\ \A i \in 1..Len(tokens) :
               new[i] = tokens[i] \/ new[i] = [tokens[i] EXCEPT !.revoked = why]
  <1>1. tokens \in Seq(TokenRow)
    BY DEF TypeOK
  <1>2. CASE ~Live(t)
    BY <1>1, <1>2 DEF RevokeRefreshToken
  <1>3. CASE Live(t)
    <2>1. t \in 1..Len(tokens)
      BY <1>3 DEF Live
    <2>2. tokens[t] \in TokenRow
      BY <1>1, <2>1
    <2>3. [tokens[t] EXCEPT !.revoked = why] \in TokenRow
      BY <2>2 DEF TokenRow
    <2>4. new = [tokens EXCEPT ![t] = [tokens[t] EXCEPT !.revoked = why]]
      BY <1>3 DEF RevokeRefreshToken
    <2>5. QED
      BY <1>1, <2>1, <2>3, <2>4, RowChanged
  <1>4. QED
    BY <1>2, <1>3

\* RevokeAllRefreshTokens leaves no row usable and changes nothing else.
LEMMA RevokeAll ==
  ASSUME TypeOK
  PROVE  /\ RevokeAllRefreshTokens \in Seq(TokenRow)
         /\ Len(RevokeAllRefreshTokens) = Len(tokens)
         /\ \A i \in 1..Len(tokens) :
               LET new == RevokeAllRefreshTokens[i]
               IN  /\ new = tokens[i] \/ new = [tokens[i] EXCEPT !.revoked = "reset"]
                   /\ new.revoked # "no"
  <1> DEFINE new == RevokeAllRefreshTokens
  <1>1. /\ tokens \in Seq(TokenRow)
        /\ Len(tokens) \in Nat /\ DOMAIN tokens = 1..Len(tokens)
    BY LenProperties DEF TypeOK
  <1>2. ASSUME NEW i \in 1..Len(tokens)
        PROVE  /\ new[i] = tokens[i] \/ new[i] = [tokens[i] EXCEPT !.revoked = "reset"]
               /\ new[i].revoked # "no"
               /\ new[i] \in TokenRow
    <2>1. tokens[i] \in TokenRow
      BY <1>1
    <2>2. new[i] = IF Live(i) THEN [tokens[i] EXCEPT !.revoked = "reset"] ELSE tokens[i]
      BY <1>1 DEF RevokeAllRefreshTokens
    <2>3. [tokens[i] EXCEPT !.revoked = "reset"] \in TokenRow
      BY <2>1 DEF TokenRow, Revoked
    <2>4. QED
      BY <2>1, <2>2, <2>3 DEF Live, TokenRow
  <1>3. new \in [1..Len(tokens) -> TokenRow]
    BY <1>1, <1>2 DEF RevokeAllRefreshTokens
  <1>4. new \in Seq(TokenRow) /\ Len(new) = Len(tokens)
    BY <1>1, <1>3
  <1>5. QED
    BY <1>2, <1>4

----------------------------------------------------------------------------
(* Types.                                                                  *)

\* The clock has passed whatever it was read for.
ServedBefore == \A l \in Token : served[l] <= now

\* A token somebody holds is in the table, and a refresh that has verified a
\* token was presented one.
Checked == {"checkUser", "revoke", "issue"}
Known ==
    /\ \A r \in DOMAIN refreshes :
          /\ refreshes[r].token <= Len(tokens) /\ refreshes[r].made <= Len(tokens)
          /\ refreshes[r].pc \in Checked => refreshes[r].token # 0
    /\ \A b \in Tabs : auth[b].token <= Len(tokens)

Base == TypeOK /\ ServedBefore /\ Known

LEMMA Bounds ==
  /\ MaxTime \in Nat \ {0} /\ MaxTokens \in Nat \ {0}
  /\ MaxRefreshes \in Nat \ {0} /\ MaxEvents \in Nat \ {0}
  /\ \A c \in Calls : TabOf[c] \in Tabs
  BY SessionAssumption

\* The row a sign-in or a rotation inserts.
LEMMA RowType ==
  ASSUME TypeOK, NEW login \in Token, NEW password \in 0..1, NEW spared \in BOOLEAN
  PROVE  Row(login, password, spared) \in TokenRow
  BY Bounds DEF TypeOK, Row, TokenRow, Revoked

LEMMA TypeInit == Init => TypeOK
  <1> SUFFICES ASSUME Init PROVE TypeOK
    OBVIOUS
  <1> DEFINE row == [revoked |-> "no", at |-> 0, lastUsedAt |-> 0, login |-> 1,
                     password |-> 0, idle |-> 0, spared |-> FALSE]
  <1>1. row \in TokenRow /\ tokens = <<row>>
    <2>1. 0 \in 0..MaxTime /\ 1 \in Token
      BY Bounds DEF Token
    <2>2. row \in TokenRow
      BY <2>1 DEF TokenRow, Revoked
    <2>3. tokens = <<row>>
      BY DEF Init, Row
    <2>4. QED
      BY <2>2, <2>3
  <1>2. tokens \in Seq(TokenRow) /\ Len(tokens) = 1 /\ jar \in 0..Len(tokens)
    <2>1. jar = 1
      BY DEF Init
    <2>2. QED
      BY <1>1, <2>1
  <1>3. refreshes \in Seq(Refresh) /\ Len(refreshes) = 0
    BY DEF Init
  <1>4. calls \in [Calls -> Call] /\ auth \in [Tabs -> Auth]
    BY Bounds DEF Init, NoCall, Call, NoAuth, Auth
  <1>5. promise \in [Tabs -> 0..Len(refreshes)] /\ page \in [Tabs -> {"app", "login"}]
    BY <1>3 DEF Init
  <1>6. /\ now \in 0..MaxTime /\ events \in 0..MaxEvents
        /\ reset \in {"none", "checked", "changed", "done"}
        /\ served \in [Token -> 0..MaxTime]
    BY Bounds DEF Init, Token
  <1>9. active \in BOOLEAN /\ signedOut \in BOOLEAN
    BY DEF Init
  <1>7. Len(tokens) <= MaxTokens /\ Len(refreshes) <= MaxRefreshes
    BY ONLY <1>2, <1>3, Bounds
  <1>8. QED
    BY <1>2, <1>3, <1>4, <1>5, <1>6, <1>7, <1>9 DEF TypeOK

\* A new row in the table.
LEMMA Appended ==
  ASSUME NEW S, NEW seq \in Seq(S), NEW e \in S
  PROVE  /\ Append(seq, e) \in Seq(S)
         /\ Len(Append(seq, e)) = Len(seq) + 1
         /\ \A i \in 1..Len(seq) : Append(seq, e)[i] = seq[i]
         /\ Append(seq, e)[Len(seq) + 1] = e
  BY AppendProperties

\* What the steps of a component leave alone keeps its type.
LEMMA CallChanged ==
  ASSUME TypeOK, NEW c \in Calls, NEW e, e \in Call, calls' = [calls EXCEPT ![c] = e]
  PROVE  calls' \in [Calls -> Call]
  BY DEF TypeOK

\* What an API call does.
LEMMA CallType ==
  ASSUME TypeOK, NEW c \in Calls, Send(c) \/ Validate(c) \/ Answer(c)
  PROVE  TypeOK'
  <1> DEFINE b == TabOf[c]
  <1>b. b \in Tabs /\ calls[c] \in Call
    BY Bounds DEF TypeOK
  <1>0. Len(tokens) \in Nat /\ Len(refreshes) \in Nat
    BY LenProperties DEF TypeOK
  <1>1. CASE Send(c)
    <2>1. [pc |-> "sent", access |-> jar, skipAuthRetry |-> FALSE] \in Call
      BY <1>0, Bounds DEF TypeOK, Call
    <2>2. calls' \in [Calls -> Call]
      BY <1>1, <2>1, CallChanged DEF Send
    <2>3. QED
      BY <1>1, <2>2 DEF Send, TypeOK, clock, server, browser
  <1>2. CASE Validate(c)
    <2> DEFINE x == IF AccessAccepted(calls[c].access) /\ active THEN "served" ELSE "denied"
    <2>1. calls' = [calls EXCEPT ![c] = [calls[c] EXCEPT !.pc = x, !.access = 0]]
      BY <1>2 DEF Validate
    <2>a. x \in {"served", "denied"}
      OBVIOUS
    <2> HIDE DEF x
    <2>2. [calls[c] EXCEPT !.pc = x, !.access = 0] \in Call
      <3>1. 0 \in 0..MaxTokens
        BY Bounds
      <3>2. QED
        BY <1>b, <2>a, <3>1 DEF Call
    <2>3. calls' \in [Calls -> Call]
      BY <2>1, <2>2, CallChanged
    <2>4. served' \in [Token -> 0..MaxTime]
      BY <1>2 DEF Validate, TypeOK
    <2>5. QED
      BY <1>2, <2>3, <2>4 DEF Validate, TypeOK, clock, server, browser
  <1>3. CASE Answer(c)
    <2>1. calls' \in [Calls -> Call]
      <3>1. [calls[c] EXCEPT !.pc = "waiting"] \in Call /\ NoCall \in Call
        BY <1>b, Bounds DEF Call, NoCall
      <3>2. \/ calls' = [calls EXCEPT ![c] = [calls[c] EXCEPT !.pc = "waiting"]]
            \/ calls' = [calls EXCEPT ![c] = NoCall]
        BY <1>3 DEF Answer
      <3>3. QED
        BY <3>1, <3>2, CallChanged
    <2>2. page' \in [Tabs -> {"app", "login"}]
      BY <1>3, <1>b DEF Answer, TypeOK, PagesWithout
    <2>3. CASE StartRefresh(b)
      <3> DEFINE new == [tab |-> b, token |-> jar, pc |-> "verify", verified |-> FALSE,
                         made |-> 0, lost |-> FALSE, late |-> FALSE]
      <3>1. new \in Refresh
        BY <1>b, <1>0, Bounds DEF TypeOK, Refresh, RefreshStep
      <3>2. /\ Len(refreshes) < MaxRefreshes
            /\ refreshes' = Append(refreshes, new)
            /\ promise' = [promise EXCEPT ![b] = Len(refreshes) + 1]
        BY <2>3 DEF StartRefresh
      <3>3. refreshes' \in Seq(Refresh) /\ Len(refreshes') = Len(refreshes) + 1
        BY <3>1, <3>2, Appended DEF TypeOK
      <3>4. Len(refreshes') <= MaxRefreshes
        BY <1>0, <3>2, <3>3, Bounds
      <3>5. promise' \in [Tabs -> 0..Len(refreshes')]
        <4>1. \A d \in Tabs : promise[d] \in 0..Len(refreshes')
          BY <1>0, <3>3 DEF TypeOK
        <4>2. Len(refreshes) + 1 \in 0..Len(refreshes')
          BY <1>0, <3>3
        <4>3. QED
          BY <4>1, <4>2, <3>2 DEF TypeOK
      <3>6. QED
        BY <1>3, <2>1, <2>2, <3>3, <3>4, <3>5 DEF Answer, TypeOK, clock, server
    <2>4. CASE UNCHANGED <<refreshes, promise>>
      BY <1>3, <2>1, <2>2, <2>4 DEF Answer, TypeOK, clock, server
    <2>5. QED
      BY <1>3, <2>3, <2>4 DEF Answer, TryRefresh
  <1>4. QED
    BY <1>1, <1>2, <1>3

\* The tables as functions of their rows.
LEMMA Rows ==
  ASSUME TypeOK
  PROVE  /\ Len(tokens) \in Nat /\ DOMAIN tokens = 1..Len(tokens)
         /\ Len(refreshes) \in Nat /\ DOMAIN refreshes = 1..Len(refreshes)
         /\ \A t \in 1..Len(tokens) : tokens[t] \in TokenRow
         /\ \A r \in 1..Len(refreshes) : refreshes[r] \in Refresh
  BY LenProperties DEF TypeOK

LEMMA RefreshChanged ==
  ASSUME TypeOK, NEW r \in DOMAIN refreshes, NEW e, e \in Refresh,
         refreshes' = [refreshes EXCEPT ![r] = e]
  PROVE  /\ refreshes' \in Seq(Refresh) /\ Len(refreshes') = Len(refreshes)
         /\ \A s \in DOMAIN refreshes : refreshes'[s] = IF s = r THEN e ELSE refreshes[s]
         /\ DOMAIN refreshes' = DOMAIN refreshes
  BY Rows, RowChanged DEF TypeOK

LEMMA AuthChanged ==
  ASSUME TypeOK, NEW b \in Tabs, NEW e, e \in Auth, auth' = [auth EXCEPT ![b] = e]
  PROVE  /\ auth' \in [Tabs -> Auth]
         /\ auth'[b] = e
         /\ \A d \in Tabs : d # b => auth'[d] = auth[d]
  BY DEF TypeOK

\* Calls whose tab's refresh is over are sent again, or given up.
LEMMA WokenType ==
  ASSUME TypeOK, NEW b, NEW t \in 0..MaxTokens,
         \/ calls' = [c \in Calls |-> IF c \notin Waiting(b) THEN calls[c] ELSE
                 [pc |-> "sent", access |-> t, skipAuthRetry |-> TRUE]]
         \/ calls' = [c \in Calls |-> IF c \notin Waiting(b) THEN calls[c] ELSE NoCall]
  PROVE  calls' \in [Calls -> Call]
  <1>1. [pc |-> "sent", access |-> t, skipAuthRetry |-> TRUE] \in Call /\ NoCall \in Call
    BY Bounds DEF Call, NoCall
  <1>2. QED
    BY <1>1 DEF TypeOK

LEMMA PagesType ==
  ASSUME TypeOK, NEW failed
  PROVE  PagesWithout(failed) \in [Tabs -> {"app", "login"}]
  BY DEF TypeOK, PagesWithout

\* What a refresh does.
LEMMA RefreshBase ==
  ASSUME Base, NEW r \in DOMAIN refreshes, RefreshHandler(r) \/ RefreshLost(r)
  PROVE  Base'
  <1> DEFINE f == refreshes[r]
             t == f.token
  <1> USE DEF Base
  <1>0. f \in Refresh /\ r \in 1..Len(refreshes) /\ t \in 0..Len(tokens)
    BY Rows, Bounds DEF Known, Refresh
  <1>s. \A x \in RefreshStep : [f EXCEPT !.pc = x] \in Refresh
    BY <1>0 DEF Refresh
  <1>1. CASE VerifyRefreshToken(r)
    <2> DEFINE usable == Live(t) /\ now - tokens[t].at <= RefreshTtl
               inactive == usable /\ now - tokens[t].lastUsedAt > Inactivity
               ok == usable /\ ~inactive
               e == [f EXCEPT !.pc = IF ok THEN "checkUser" ELSE "refused", !.verified = ok]
    <2>1. e \in Refresh
      BY <1>0 DEF Refresh, RefreshStep
    <2>2. refreshes' = [refreshes EXCEPT ![r] = e]
      BY <1>1 DEF VerifyRefreshToken
    <2>3. tokens' \in Seq(TokenRow) /\ Len(tokens') = Len(tokens)
      <3>1. CASE ~inactive
        BY <1>1, <3>1 DEF VerifyRefreshToken, TypeOK
      <3>2. CASE inactive
        <4> DEFINE row == [tokens[t] EXCEPT !.revoked = "inactive",
                                            !.idle = now - served[tokens[t].login]]
        <4>1. t \in 1..Len(tokens)
          BY <1>0, <3>2 DEF Live
        <4>2. tokens[t] \in TokenRow
          BY <4>1, Rows
        <4>3. now - served[tokens[t].login] \in 0..MaxTime
          <5>1. tokens[t].login \in Token
            BY <4>2 DEF TokenRow
          <5>2. served[tokens[t].login] \in 0..MaxTime /\ served[tokens[t].login] <= now
            BY <5>1 DEF TypeOK, ServedBefore
          <5>3. now \in 0..MaxTime
            BY DEF TypeOK
          <5>4. \A n, m \in 0..MaxTime : m <= n => n - m \in 0..MaxTime
            BY Bounds
          <5>5. QED
            BY <5>2, <5>3, <5>4
        <4>4. row \in TokenRow
          BY <4>2, <4>3 DEF TokenRow, Revoked
        <4>5. tokens' = [tokens EXCEPT ![t] = row]
          BY <1>1, <3>2 DEF VerifyRefreshToken
        <4>6. QED
          BY <4>1, <4>4, <4>5, RowChanged DEF TypeOK
      <3>3. QED
        BY <3>1, <3>2
    <2>4. e.token = t /\ e.made = f.made /\ (e.pc \in Checked => t # 0)
      BY <1>0 DEF Refresh, Checked, Live
    <2> HIDE DEF e
    <2>5. TypeOK'
      BY <1>1, <2>1, <2>2, <2>3, RefreshChanged DEF VerifyRefreshToken, TypeOK, clock, browser
    <2>6. Known'
      BY <1>1, <2>1, <2>2, <2>3, <2>4, RefreshChanged DEF VerifyRefreshToken, Known
    <2>7. QED
      BY <1>1, <2>5, <2>6 DEF VerifyRefreshToken, ServedBefore, clock
  <1>2. CASE RefreshCheckUser(r)
    <2>1. PICK x \in RefreshStep : /\ refreshes' = [refreshes EXCEPT ![r] = [f EXCEPT !.pc = x]]
                                   /\ t # 0
      BY <1>2 DEF RefreshCheckUser, RefreshStepTo, RefreshStep, Known, Checked
    <2>2. TypeOK'
      BY <1>s, <1>2, <2>1, RefreshChanged DEF RefreshCheckUser, TypeOK, clock, server, browser
    <2>3. Known'
      BY <1>0, <1>s, <1>2, <2>1, RefreshChanged DEF RefreshCheckUser, Known, server, Refresh
    <2>4. QED
      BY <1>2, <2>2, <2>3 DEF RefreshCheckUser, ServedBefore, clock
  <1>3. CASE RotateRevoke(r)
    <2>1. refreshes' = [refreshes EXCEPT ![r] = [f EXCEPT !.pc = "issue"]]
      BY <1>3 DEF RotateRevoke, RefreshStepTo
    <2>2. "issue" \in RefreshStep /\ "rotated" \in Revoked
      BY DEF RefreshStep, Revoked
    <2>3. tokens' \in Seq(TokenRow) /\ Len(tokens') = Len(tokens)
      BY <1>0, <1>3, <2>2, RevokeOne DEF RotateRevoke
    <2>4. TypeOK'
      BY <1>s, <1>3, <2>1, <2>2, <2>3, RefreshChanged DEF RotateRevoke, TypeOK, clock, browser
    <2>5. t # 0
      BY <1>3 DEF RotateRevoke, Known, Checked
    <2>6. Known'
      BY <1>0, <1>s, <1>3, <2>1, <2>2, <2>3, <2>5, RefreshChanged DEF RotateRevoke, Known, Refresh
    <2>7. QED
      BY <1>3, <2>4, <2>6 DEF RotateRevoke, ServedBefore, clock
  <1>4. CASE RotateIssue(r)
    <2> DEFINE old == tokens[t]
               row == Row(old.login, old.password, old.spared \/ f.late)
               e == [f EXCEPT !.pc = "granted", !.made = Len(tokens) + 1]
    <2>0. t \in 1..Len(tokens)
      BY <1>0, <1>4 DEF RotateIssue, Known, Checked
    <2>1. row \in TokenRow
      <3>1. old \in TokenRow
        BY <2>0, Rows
      <3>2. old.login \in Token /\ old.password \in 0..1
        BY <3>1 DEF TokenRow
      <3>3. (old.spared \/ f.late) \in BOOLEAN
        OBVIOUS
      <3>4. QED
        BY <3>2, <3>3, RowType
    <2>2. /\ tokens' = Append(tokens, row) /\ Len(tokens) < MaxTokens
          /\ refreshes' = [refreshes EXCEPT ![r] = e]
      BY <1>4 DEF RotateIssue
    <2> HIDE DEF row
    <2>3. /\ tokens' \in Seq(TokenRow) /\ Len(tokens') = Len(tokens) + 1
          /\ Len(tokens') <= MaxTokens
      BY <2>1, <2>2, Appended, Rows, Bounds DEF TypeOK
    <2>4. e \in Refresh
      <3>1. Len(tokens) + 1 \in 0..MaxTokens /\ "granted" \in RefreshStep
        BY <2>2, Rows, Bounds DEF RefreshStep
      <3>2. QED
        BY <1>0, <3>1 DEF Refresh
    <2>5. e.token = t /\ e.made = Len(tokens) + 1 /\ e.pc = "granted"
      BY <1>0 DEF Refresh
    <2> HIDE DEF e
    <2>6. jar \in 0..Len(tokens')
      BY <2>3, Rows DEF TypeOK
    <2>7. TypeOK'
      BY <1>4, <2>2, <2>3, <2>4, <2>6, RefreshChanged DEF RotateIssue, TypeOK, clock, browser
    <2>8. Known'
      <3>1. \A s \in DOMAIN refreshes : s # r => refreshes'[s] = refreshes[s]
        BY <2>2, <2>4, RefreshChanged
      <3>2. refreshes'[r] = e /\ DOMAIN refreshes' = DOMAIN refreshes
        BY <2>2, <2>4, RefreshChanged
      <3>3. \A s \in DOMAIN refreshes : refreshes[s].token \in Nat /\ refreshes[s].made \in Nat
        BY Rows DEF Refresh
      <3>4. \A b \in Tabs : auth[b].token \in Nat
        BY DEF TypeOK, Auth
      <3>5. QED
        BY <1>0, <1>4, <2>3, <2>5, <3>1, <3>2, <3>3, <3>4, Rows DEF RotateIssue, Known, Checked
    <2>9. QED
      BY <1>4, <2>7, <2>8 DEF RotateIssue, ServedBefore, clock
  <1>5. CASE RefreshArrives(r)
    <2>1. refreshes' = [refreshes EXCEPT ![r] = [f EXCEPT !.pc = "over"]] /\ "over" \in RefreshStep
      BY <1>5 DEF RefreshArrives, RefreshStepTo, RefreshStep
    <2>2. f.made \in 0..MaxTokens /\ f.made \in 0..Len(tokens)
      BY <1>0, Rows DEF Refresh, Known
    <2>3. calls' \in [Calls -> Call] /\ jar' \in 0..Len(tokens) /\ page' \in [Tabs -> {"app", "login"}]
      <3>1. CASE f.pc = "granted"
        BY <1>5, <2>2, <3>1, WokenType DEF RefreshArrives, SetAuthCookies, TypeOK
      <3>2. CASE f.pc # "granted"
        BY <1>5, <2>2, <3>2, WokenType, PagesType DEF RefreshArrives, TypeOK
      <3>3. QED
        BY <3>1, <3>2
    <2>4. promise' \in [Tabs -> 0..Len(refreshes)]
      <3>1. promise' = [promise EXCEPT ![f.tab] = 0] /\ 0 \in 0..Len(refreshes)
        BY <1>5, Rows DEF RefreshArrives
      <3>2. QED
        BY <3>1 DEF TypeOK
    <2>5. TypeOK'
      BY <1>s, <1>5, <2>1, <2>3, <2>4, RefreshChanged DEF RefreshArrives, TypeOK, clock, server
    <2>6. Known'
      BY <1>0, <1>s, <1>5, <2>1, RefreshChanged DEF RefreshArrives, Known, Checked, Refresh, server
    <2>7. QED
      BY <1>5, <2>5, <2>6 DEF RefreshArrives, ServedBefore, clock
  <1>6. CASE RefreshLost(r)
    <2> DEFINE e == [f EXCEPT !.lost = TRUE]
    <2>1. e \in Refresh /\ e.token = t /\ e.made = f.made /\ e.pc = f.pc
      BY <1>0 DEF Refresh
    <2>2. refreshes' = [refreshes EXCEPT ![r] = e]
      BY <1>6 DEF RefreshLost
    <2> HIDE DEF e
    <2>3. calls' \in [Calls -> Call]
      <3>1. 0 \in 0..MaxTokens
        BY Bounds
      <3>2. calls' = [c \in Calls |-> IF c \notin Waiting(f.tab) THEN calls[c] ELSE NoCall]
        BY <1>6 DEF RefreshLost
      <3>3. QED
        BY <3>1, <3>2, WokenType
    <2>4. page' \in [Tabs -> {"app", "login"}]
      BY <1>6, PagesType DEF RefreshLost
    <2>5. promise' \in [Tabs -> 0..Len(refreshes)]
      <3>1. promise' = [promise EXCEPT ![f.tab] = 0] /\ 0 \in 0..Len(refreshes)
        BY <1>6, Rows DEF RefreshLost
      <3>2. QED
        BY <3>1 DEF TypeOK
    <2>6. TypeOK'
      BY <1>6, <2>1, <2>2, <2>3, <2>4, <2>5, RefreshChanged DEF RefreshLost, TypeOK, clock, server
    <2>7. Known'
      BY <1>6, <2>1, <2>2, RefreshChanged DEF RefreshLost, Known, server
    <2>8. QED
      BY <1>6, <2>6, <2>7 DEF RefreshLost, ServedBefore, clock
  <1>7. QED
    BY <1>1, <1>2, <1>3, <1>4, <1>5, <1>6 DEF RefreshHandler

\* An API call presents what the browser holds.
LEMMA CallBase ==
  ASSUME Base, NEW c \in Calls, Send(c) \/ Validate(c) \/ Answer(c)
  PROVE  Base'
  <1>1. TypeOK'
    BY CallType DEF Base
  <1>2. CASE Send(c)
    BY <1>1, <1>2 DEF Base, Send, ServedBefore, Known, clock, server
  <1>3. CASE Validate(c)
    BY <1>1, <1>3 DEF Base, Validate, ServedBefore, Known, TypeOK, clock, server
  <1>4. CASE Answer(c)
    <2>1. CASE UNCHANGED refreshes
      BY <1>1, <1>4, <2>1 DEF Base, Answer, ServedBefore, Known, clock, server
    <2>2. CASE StartRefresh(TabOf[c])
      <3> DEFINE new == [tab |-> TabOf[c], token |-> jar, pc |-> "verify", verified |-> FALSE,
                         made |-> 0, lost |-> FALSE, late |-> FALSE]
      <3>1. new \in Refresh
        BY Rows, Bounds DEF Base, TypeOK, Refresh, RefreshStep
      <3>2. refreshes' = Append(refreshes, new)
        BY <2>2 DEF StartRefresh
      <3>3. /\ DOMAIN refreshes' = 1..Len(refreshes) + 1
            /\ \A r \in DOMAIN refreshes : refreshes'[r] = refreshes[r]
            /\ refreshes'[Len(refreshes) + 1] = new
        BY <3>1, <3>2, Appended, Rows DEF Base, TypeOK
      <3>4. new.token = jar /\ new.made = 0 /\ new.pc = "verify"
        OBVIOUS
      <3> HIDE DEF new
      <3>5. jar <= Len(tokens) /\ 0 <= Len(tokens) /\ tokens' = tokens /\ auth' = auth
        BY <1>4, Rows DEF Answer, Base, TypeOK, server
      <3>6. Known'
        BY <3>3, <3>4, <3>5, Rows DEF Base, Known, Checked
      <3>7. QED
        BY <1>1, <1>4, <3>6 DEF Base, Answer, ServedBefore, clock
    <2>3. QED
      BY <1>4, <2>1, <2>2 DEF Answer, TryRefresh
  <1>5. QED
    BY <1>2, <1>3, <1>4

\* A tab that takes up a step of its sign-in or sign-out holds a known token.
LEMMA SessionKnown ==
  ASSUME Base, NEW b \in Tabs, \A d \in Tabs : d # b => auth'[d] = auth[d],
         auth'[b].token <= Len(tokens'), Len(tokens') \in Nat, Len(tokens) <= Len(tokens'),
         refreshes' = refreshes
  PROVE  Known'
  <1> USE DEF Base
  <1>1. \A r \in DOMAIN refreshes : refreshes[r].token \in Nat /\ refreshes[r].made \in Nat
    BY Rows DEF Refresh
  <1>2. \A d \in Tabs : auth[d].token \in Nat
    BY DEF TypeOK, Auth
  <1>3. Len(tokens) \in Nat
    BY Rows
  <1>4. ASSUME NEW r \in DOMAIN refreshes'
        PROVE  /\ refreshes'[r].token <= Len(tokens') /\ refreshes'[r].made <= Len(tokens')
               /\ refreshes'[r].pc \in Checked => refreshes'[r].token # 0
    BY <1>1, <1>3, <1>4 DEF Known
  <1>5. ASSUME NEW d \in Tabs
        PROVE  auth'[d].token <= Len(tokens')
    BY <1>2, <1>3 DEF Known
  <1>6. QED
    BY <1>4, <1>5 DEF Known

\* Sign-in, sign-out, reset, and what happens besides.
SessionStep(b) ==
    \/ Login(b) \/ ValidateCredentials(b) \/ IssueSessionTokens(b) \/ LoginArrives(b)
    \/ Logout(b) \/ LogoutRevoke(b) \/ LogoutArrives(b)
LEMMA SessionBase ==
  ASSUME Base, NEW b \in Tabs, SessionStep(b)
  PROVE  Base'
  <1> USE DEF Base
  <1> DEFINE a == auth[b]
  <1>0. a \in Auth /\ a.token \in 0..Len(tokens)
    BY Rows, Bounds DEF TypeOK, Known, Auth
  <1>n. NoAuth \in Auth /\ NoAuth.token = 0
    BY Bounds DEF NoAuth, Auth
  <1>1. CASE Login(b)
    <2> DEFINE e == [NoAuth EXCEPT !.pc = "validate"]
    <2>1. e \in Auth /\ e.token = 0
      BY <1>n DEF Auth, NoAuth
    <2>2. auth' = [auth EXCEPT ![b] = e]
      BY <1>1 DEF Login
    <2>3. events' \in 0..MaxEvents
      BY <1>1, Bounds DEF Login, Event, TypeOK
    <2>4. signedOut' \in BOOLEAN
      BY <1>1 DEF Login
    <2>5. tokens' = tokens /\ refreshes' = refreshes
      BY <1>1 DEF Login, server
    <2> HIDE DEF e
    <2>b. auth' \in [Tabs -> Auth] /\ auth'[b] = e /\ \A d \in Tabs : d # b => auth'[d] = auth[d]
      BY <2>1, <2>2, AuthChanged
    <2>c. Len(tokens) \in Nat
      BY Rows
    <2>d. auth'[b].token <= Len(tokens') /\ Len(tokens) <= Len(tokens') /\ Len(tokens') \in Nat
      BY <2>1, <2>5, <2>b, <2>c
    <2>6. Known' /\ auth' \in [Tabs -> Auth]
      BY <2>5, <2>b, <2>d, SessionKnown
    <2>7. QED
      BY <1>1, <2>3, <2>4, <2>6 DEF Login, TypeOK, ServedBefore, server
  <1>2. CASE ValidateCredentials(b)
    <2>1. PICK e \in Auth : auth' = [auth EXCEPT ![b] = e] /\ e.token <= Len(tokens)
      <3> DEFINE p == IF reset \in {"changed", "done"} THEN 1 ELSE 0
                 e == [a EXCEPT !.pc = "issue", !.password = p]
      <3>1. p \in 0..1
        OBVIOUS
      <3> HIDE DEF p
      <3>2. e \in Auth /\ e.token = a.token
        BY <1>0, <3>1 DEF Auth
      <3>3. auth' = [auth EXCEPT ![b] = e] \/ auth' = [auth EXCEPT ![b] = NoAuth]
        BY <1>2 DEF ValidateCredentials, p
      <3> HIDE DEF e
      <3>4. a.token <= Len(tokens) /\ 0 <= Len(tokens)
        BY <1>0, Rows
      <3>5. QED
        BY <1>n, <3>2, <3>3, <3>4
    <2>2. tokens' = tokens /\ refreshes' = refreshes
      BY <1>2 DEF ValidateCredentials, server
    <2>b. auth' \in [Tabs -> Auth] /\ auth'[b] = e /\ \A d \in Tabs : d # b => auth'[d] = auth[d]
      BY <2>1, AuthChanged
    <2>c. Len(tokens) \in Nat
      BY Rows
    <2>d. auth'[b].token <= Len(tokens') /\ Len(tokens) <= Len(tokens') /\ Len(tokens') \in Nat
      BY <2>1, <2>2, <2>b, <2>c
    <2>3. Known' /\ auth' \in [Tabs -> Auth]
      BY <2>2, <2>b, <2>d, SessionKnown
    <2>4. QED
      BY <1>2, <2>3 DEF ValidateCredentials, TypeOK, ServedBefore, clock, server, browser
  <1>3. CASE IssueSessionTokens(b)
    <2> DEFINE t == Len(tokens) + 1
               row == Row(t, a.password, a.late)
               e == [a EXCEPT !.pc = "login", !.token = t]
    <2>1. Len(tokens) < MaxTokens /\ tokens' = Append(tokens, row) /\ auth' = [auth EXCEPT ![b] = e]
      BY <1>3 DEF IssueSessionTokens
    <2>2. t \in Token /\ t \in 0..MaxTokens
      BY <2>1, Rows, Bounds DEF Token
    <2>3. row \in TokenRow
      <3>1. a.password \in 0..1 /\ a.late \in BOOLEAN
        BY <1>0 DEF Auth
      <3>2. QED
        BY <2>2, <3>1, RowType
    <2>4. e \in Auth /\ e.token = t
      BY <1>0, <2>2 DEF Auth
    <2>5. served' = [served EXCEPT ![t] = now]
      BY <1>3 DEF IssueSessionTokens
    <2> HIDE DEF row, e
    <2>6. tokens' \in Seq(TokenRow) /\ Len(tokens') = t /\ t <= MaxTokens
      BY <2>1, <2>2, <2>3, Appended DEF TypeOK
    <2>a. refreshes' = refreshes
      BY <1>3 DEF IssueSessionTokens
    <2>b. auth' \in [Tabs -> Auth] /\ auth'[b] = e /\ \A d \in Tabs : d # b => auth'[d] = auth[d]
      BY <2>1, <2>4, AuthChanged
    <2>c. Len(tokens) \in Nat
      BY Rows
    <2>d. auth'[b].token <= Len(tokens') /\ Len(tokens) <= Len(tokens') /\ Len(tokens') \in Nat
      BY <2>2, <2>4, <2>6, <2>b, <2>c
    <2>7. Known' /\ auth' \in [Tabs -> Auth]
      BY <2>a, <2>b, <2>d, SessionKnown
    <2>8. jar \in 0..Len(tokens')
      BY <2>6, Rows DEF TypeOK
    <2>9. TypeOK'
      BY <1>3, <2>5, <2>6, <2>7, <2>8 DEF IssueSessionTokens, TypeOK, clock, browser
    <2>10. ServedBefore'
      BY <1>3, <2>5 DEF IssueSessionTokens, ServedBefore, TypeOK, clock
    <2>11. QED
      BY <2>7, <2>9, <2>10
  <1>4. CASE LoginArrives(b)
    <2>a. tokens' = tokens /\ refreshes' = refreshes /\ auth' = [auth EXCEPT ![b] = NoAuth]
      BY <1>4 DEF LoginArrives, server
    <2>b. auth' \in [Tabs -> Auth] /\ auth'[b] = NoAuth /\ \A d \in Tabs : d # b => auth'[d] = auth[d]
      BY <1>n, <2>a, AuthChanged
    <2>c. Len(tokens) \in Nat
      BY Rows
    <2>d. auth'[b].token <= Len(tokens') /\ Len(tokens) <= Len(tokens') /\ Len(tokens') \in Nat
      BY <1>n, <2>a, <2>b, <2>c
    <2>1. Known' /\ auth' \in [Tabs -> Auth]
      BY <2>a, <2>b, <2>d, SessionKnown
    <2>2. jar' \in 0..Len(tokens)
      BY <1>0, <1>4 DEF LoginArrives, SetAuthCookies
    <2>3. QED
      BY <1>4, <2>1, <2>2 DEF LoginArrives, TypeOK, ServedBefore, clock, server
  <1>5. CASE Logout(b)
    <2> DEFINE e == [NoAuth EXCEPT !.pc = "revoke", !.token = jar]
    <2>0. jar \in 0..Len(tokens) /\ jar \in 0..MaxTokens
      BY Rows, Bounds DEF TypeOK
    <2>1. e \in Auth /\ e.token = jar
      BY <1>n, <2>0 DEF Auth, NoAuth
    <2>2. auth' = [auth EXCEPT ![b] = e]
      BY <1>5 DEF Logout
    <2>3. events' \in 0..MaxEvents
      BY <1>5, Bounds DEF Logout, Event, TypeOK
    <2> HIDE DEF e
    <2>a. tokens' = tokens /\ refreshes' = refreshes
      BY <1>5 DEF Logout, server
    <2>b. auth' \in [Tabs -> Auth] /\ auth'[b] = e /\ \A d \in Tabs : d # b => auth'[d] = auth[d]
      BY <2>1, <2>2, AuthChanged
    <2>c. Len(tokens) \in Nat
      BY Rows
    <2>d. auth'[b].token <= Len(tokens') /\ Len(tokens) <= Len(tokens') /\ Len(tokens') \in Nat
      BY <2>0, <2>1, <2>a, <2>b, <2>c
    <2>4. Known' /\ auth' \in [Tabs -> Auth]
      BY <2>a, <2>b, <2>d, SessionKnown
    <2>5. QED
      BY <1>5, <2>3, <2>4 DEF Logout, TypeOK, ServedBefore, server, browser
  <1>6. CASE LogoutRevoke(b)
    <2> DEFINE e == [a EXCEPT !.pc = "logout"]
    <2>1. e \in Auth /\ e.token = a.token
      BY <1>0 DEF Auth
    <2>2. auth' = [auth EXCEPT ![b] = e]
      BY <1>6 DEF LogoutRevoke
    <2> HIDE DEF e
    <2>3. tokens' \in Seq(TokenRow) /\ Len(tokens') = Len(tokens)
      BY <1>0, <1>6, RevokeOne DEF LogoutRevoke, Revoked
    <2>a. refreshes' = refreshes
      BY <1>6 DEF LogoutRevoke
    <2>b. auth' \in [Tabs -> Auth] /\ auth'[b] = e /\ \A d \in Tabs : d # b => auth'[d] = auth[d]
      BY <2>1, <2>2, AuthChanged
    <2>c. Len(tokens) \in Nat
      BY Rows
    <2>d. auth'[b].token <= Len(tokens') /\ Len(tokens) <= Len(tokens') /\ Len(tokens') \in Nat
      BY <1>0, <2>1, <2>3, <2>b, <2>c
    <2>4. Known' /\ auth' \in [Tabs -> Auth]
      BY <2>a, <2>b, <2>d, SessionKnown
    <2>5. QED
      BY <1>6, <2>3, <2>4 DEF LogoutRevoke, TypeOK, ServedBefore, clock, browser
  <1>7. CASE LogoutArrives(b)
    <2>a. tokens' = tokens /\ refreshes' = refreshes /\ auth' = [auth EXCEPT ![b] = NoAuth]
      BY <1>7 DEF LogoutArrives, server
    <2>b. auth' \in [Tabs -> Auth] /\ auth'[b] = NoAuth /\ \A d \in Tabs : d # b => auth'[d] = auth[d]
      BY <1>n, <2>a, AuthChanged
    <2>c. Len(tokens) \in Nat
      BY Rows
    <2>d. auth'[b].token <= Len(tokens') /\ Len(tokens) <= Len(tokens') /\ Len(tokens') \in Nat
      BY <1>n, <2>a, <2>b, <2>c
    <2>1. Known' /\ auth' \in [Tabs -> Auth]
      BY <2>a, <2>b, <2>d, SessionKnown
    <2>2. jar' \in 0..Len(tokens)
      BY <1>7, Rows DEF LogoutArrives, ClearAuthCookies
    <2>3. QED
      BY <1>7, <2>1, <2>2 DEF LogoutArrives, TypeOK, ServedBefore, clock, server
  <1>8. QED
    BY <1>1, <1>2, <1>3, <1>4, <1>5, <1>6, <1>7 DEF SessionStep

\* The events that belong to no tab.
EventStep == ResetCheck \/ ResetCommit \/ ResetRevokeAll \/ SetStatus \/ Tick

\* A reset marks what it overtakes and touches no token it holds.
LEMMA MarkedLate ==
  ASSUME TypeOK, ResetRevokeAll
  PROVE  /\ refreshes' \in Seq(Refresh) /\ Len(refreshes') = Len(refreshes)
         /\ DOMAIN refreshes' = DOMAIN refreshes
         /\ \A r \in DOMAIN refreshes : refreshes'[r] =
               [refreshes[r] EXCEPT !.late = refreshes[r].pc \in Checked]
         /\ auth' \in [Tabs -> Auth]
         /\ \A b \in Tabs : auth'[b] = [auth[b] EXCEPT !.late = auth[b].pc = "issue"]
  <1>1. /\ refreshes' = [r \in DOMAIN refreshes |->
              [refreshes[r] EXCEPT !.late = refreshes[r].pc \in Checked]]
        /\ auth' = [b \in Tabs |-> [auth[b] EXCEPT !.late = auth[b].pc = "issue"]]
    BY DEF ResetRevokeAll, Checked
  <1>2. ASSUME NEW r \in DOMAIN refreshes
        PROVE  [refreshes[r] EXCEPT !.late = refreshes[r].pc \in Checked] \in Refresh
    <2>1. refreshes[r] \in Refresh /\ (refreshes[r].pc \in Checked) \in BOOLEAN
      BY Rows
    <2>2. QED
      BY <2>1 DEF Refresh
  <1>3. refreshes' \in [1..Len(refreshes) -> Refresh]
    BY <1>1, <1>2, Rows
  <1>4. refreshes' \in Seq(Refresh) /\ Len(refreshes') = Len(refreshes)
    BY <1>3, Rows
  <1>5. ASSUME NEW b \in Tabs
        PROVE  [auth[b] EXCEPT !.late = auth[b].pc = "issue"] \in Auth
    <2>1. auth[b] \in Auth /\ (auth[b].pc = "issue") \in BOOLEAN
      BY DEF TypeOK
    <2>2. QED
      BY <2>1 DEF Auth
  <1>6. QED
    BY <1>1, <1>4, <1>5

LEMMA EventBase ==
  ASSUME Base, EventStep
  PROVE  Base'
  <1> USE DEF Base
  <1>1. CASE ResetCheck
    BY <1>1, Bounds DEF ResetCheck, Event, TypeOK, ServedBefore, Known, browser
  <1>2. CASE ResetCommit
    BY <1>2 DEF ResetCommit, TypeOK, ServedBefore, Known, clock, browser
  <1>3. CASE ResetRevokeAll
    <2>1. tokens' \in Seq(TokenRow) /\ Len(tokens') = Len(tokens)
      BY <1>3, RevokeAll DEF ResetRevokeAll
    <2>2. TypeOK'
      BY <1>3, <2>1, MarkedLate DEF ResetRevokeAll, TypeOK, clock, browser
    <2>3. \A r \in DOMAIN refreshes : /\ refreshes'[r].token = refreshes[r].token
                                      /\ refreshes'[r].made = refreshes[r].made
                                      /\ refreshes'[r].pc = refreshes[r].pc
      BY <1>3, MarkedLate, Rows DEF Refresh
    <2>5. \A b \in Tabs : auth'[b].token = auth[b].token
      BY <1>3, MarkedLate DEF TypeOK, Auth
    <2>6. DOMAIN refreshes' = DOMAIN refreshes
      BY <1>3, MarkedLate
    <2>7. Known'
      BY <2>1, <2>3, <2>5, <2>6 DEF Known
    <2>8. QED
      BY <1>3, <2>2, <2>7 DEF ResetRevokeAll, ServedBefore, clock
  <1>4. CASE SetStatus
    <2>1. active' \in BOOLEAN /\ events' \in 0..MaxEvents
      BY <1>4, Bounds DEF SetStatus, Event, TypeOK
    <2>2. QED
      BY <1>4, <2>1 DEF SetStatus, TypeOK, ServedBefore, Known, browser
  <1>5. CASE Tick
    <2>1. now' \in 0..MaxTime /\ now' >= now
      BY <1>5, Bounds DEF Tick, TypeOK
    <2>2. ServedBefore'
      BY <1>5, <2>1 DEF Tick, ServedBefore, TypeOK
    <2>3. QED
      BY <1>5, <2>1, <2>2 DEF Tick, TypeOK, Known, server, browser
  <1>6. QED
    BY <1>1, <1>2, <1>3, <1>4, <1>5 DEF EventStep

LEMMA BaseInit == Init => Base
  <1> SUFFICES ASSUME Init PROVE Base
    OBVIOUS
  <1>1. TypeOK
    BY TypeInit
  <1>2. ServedBefore
    BY DEF Init, ServedBefore, Token
  <1>3. Known
    BY DEF Init, Known, NoAuth
  <1>4. QED
    BY <1>1, <1>2, <1>3 DEF Base

LEMMA StepOf ==
  Next => \/ \E c \in Calls : Send(c) \/ Validate(c) \/ Answer(c)
          \/ \E r \in DOMAIN refreshes : RefreshHandler(r) \/ RefreshLost(r)
          \/ \E b \in Tabs : SessionStep(b)
          \/ EventStep
  BY DEF Next, SessionStep, EventStep

LEMMA BaseKept == Base /\ [Next]_vars => Base'
  <1> SUFFICES ASSUME Base, [Next]_vars PROVE Base'
    OBVIOUS
  <1>1. CASE UNCHANGED vars
    BY <1>1 DEF vars, clock, server, browser, Base, TypeOK, ServedBefore, Known
  <1>2. CASE Next
    BY <1>2, StepOf, CallBase, RefreshBase, SessionBase, EventBase
  <1>3. QED
    BY <1>1, <1>2

----------------------------------------------------------------------------
(* Promises: a refresh that will still answer is the one its tab waits for, *)
(* and whoever waits does so for one that will still answer.               *)

Heard ==
    /\ \A r \in DOMAIN refreshes :
          refreshes[r].pc # "over" /\ ~refreshes[r].lost => promise[refreshes[r].tab] = r
    /\ \A b \in Tabs : promise[b] # 0 =>
          LET f == refreshes[promise[b]]
          IN  f.tab = b /\ f.pc # "over" /\ ~f.lost
    /\ \A c \in Calls : calls[c].pc = "waiting" => promise[TabOf[c]] # 0

LEMMA CallHeard ==
  ASSUME Base, Heard, NEW c \in Calls, Send(c) \/ Validate(c) \/ Answer(c)
  PROVE  Heard'
  <1> USE DEF Base
  <1> DEFINE b == TabOf[c]
  <1>b. b \in Tabs
    BY Bounds
  <1>1. CASE Send(c)
    BY <1>1 DEF Send, Heard, TypeOK, server, browser
  <1>2. CASE Validate(c)
    <2>1. \A d \in Calls : calls'[d].pc = "waiting" => calls[d].pc = "waiting"
      BY <1>2 DEF Validate, TypeOK, Call
    <2>2. QED
      BY <1>2, <2>1 DEF Validate, Heard, server, browser
  <1>3. CASE Answer(c)
    <2>1. \A d \in Calls : calls'[d].pc = "waiting" => d = c \/ calls[d].pc = "waiting"
      BY <1>3 DEF Answer, TypeOK, Call, NoCall
    <2>2. CASE StartRefresh(b) /\ promise[b] = 0
      <3> DEFINE n == Len(refreshes) + 1
                 new == [tab |-> b, token |-> jar, pc |-> "verify", verified |-> FALSE,
                         made |-> 0, lost |-> FALSE, late |-> FALSE]
      <3>1. new \in Refresh
        BY <1>b, Rows, Bounds DEF TypeOK, Refresh, RefreshStep
      <3>2. refreshes' = Append(refreshes, new) /\ promise' = [promise EXCEPT ![b] = n]
        BY <2>2 DEF StartRefresh
      <3>3. /\ DOMAIN refreshes' = 1..n
            /\ \A r \in DOMAIN refreshes : refreshes'[r] = refreshes[r]
            /\ refreshes'[n] = new
        BY <3>1, <3>2, Appended, Rows DEF TypeOK
      <3>4. new.tab = b /\ new.pc = "verify" /\ new.lost = FALSE
        OBVIOUS
      <3> HIDE DEF new
      <3>5. promise'[b] = n /\ \A d \in Tabs : d # b => promise'[d] = promise[d]
        BY <1>b, <3>2 DEF TypeOK
      <3>6. \A r \in DOMAIN refreshes : refreshes[r].tab \in Tabs
        BY Rows DEF Refresh
      <3>7. \A d \in Tabs : promise[d] \in 0..Len(refreshes)
        BY DEF TypeOK
      <3>8. QED
        BY <1>b, <2>1, <2>2, <3>3, <3>4, <3>5, <3>6, <3>7, Rows, Bounds, SMTT(30) DEF Heard
    <2>3. CASE UNCHANGED <<refreshes, promise>> /\ (calls'[c].pc = "waiting" => promise[b] # 0)
      BY <1>b, <2>1, <2>3 DEF Heard
    <2>4. QED
      <3>1. CASE promise[b] = 0
        BY <1>3, <2>2, <2>3, <3>1 DEF Answer, TryRefresh, NoCall, TypeOK
      <3>2. CASE promise[b] # 0
        BY <1>3, <2>3, <3>2 DEF Answer, TryRefresh
      <3>3. QED
        BY <3>1, <3>2
  <1>4. QED
    BY <1>1, <1>2, <1>3

\* What a step of a refresh does to its row, and to no other.
OnlyRow(r) ==
    /\ DOMAIN refreshes' = DOMAIN refreshes
    /\ \A s \in DOMAIN refreshes : s # r => refreshes'[s] = refreshes[s]
    /\ refreshes'[r].tab = refreshes[r].tab
    /\ refreshes'[r].token = refreshes[r].token
Keeps(f, g) ==
    /\ g.lost = f.lost /\ g.made = f.made /\ g.late = f.late
    /\ g.verified = f.verified

LEMMA RowOf ==
  ASSUME TypeOK, NEW r \in DOMAIN refreshes, NEW e, refreshes' = [refreshes EXCEPT ![r] = e],
         e.tab = refreshes[r].tab, e.token = refreshes[r].token
  PROVE  OnlyRow(r) /\ refreshes'[r] = e
  BY Rows DEF OnlyRow

LEMMA PcRow ==
  ASSUME TypeOK, NEW r \in DOMAIN refreshes, NEW x, RefreshStepTo(r, x)
  PROVE  /\ OnlyRow(r) /\ refreshes'[r].pc = x
         /\ Keeps(refreshes[r], refreshes'[r])
  <1> DEFINE f == refreshes[r]
             e == [f EXCEPT !.pc = x]
  <1>1. refreshes' = [refreshes EXCEPT ![r] = e]
    BY DEF RefreshStepTo
  <1>2. f \in Refresh
    BY Rows
  <1>3. e.tab = f.tab /\ e.token = f.token /\ e.pc = x /\ Keeps(f, e)
    BY <1>2 DEF Refresh, Keeps
  <1> HIDE DEF e
  <1>4. QED
    BY <1>1, <1>3, RowOf

LEMMA VerifyRow ==
  ASSUME TypeOK, NEW r \in DOMAIN refreshes, VerifyRefreshToken(r)
  PROVE  /\ OnlyRow(r) /\ refreshes'[r].pc \in {"checkUser", "refused"}
         /\ refreshes'[r].lost = refreshes[r].lost /\ refreshes'[r].made = refreshes[r].made
         /\ refreshes'[r].late = refreshes[r].late
         /\ refreshes'[r].verified <=> refreshes'[r].pc = "checkUser"
         /\ refreshes'[r].pc = "checkUser" => Live(refreshes[r].token)
  <1> DEFINE f == refreshes[r]
             usable == Live(f.token) /\ now - tokens[f.token].at <= RefreshTtl
             ok == usable /\ ~(usable /\ now - tokens[f.token].lastUsedAt > Inactivity)
             x == IF ok THEN "checkUser" ELSE "refused"
             e == [f EXCEPT !.pc = x, !.verified = ok]
  <1>1. refreshes' = [refreshes EXCEPT ![r] = e]
    BY DEF VerifyRefreshToken
  <1>2. x \in {"checkUser", "refused"} /\ (x = "checkUser" => Live(f.token)) /\ (ok <=> x = "checkUser")
    OBVIOUS
  <1> HIDE DEF x, ok
  <1>3. f \in Refresh
    BY Rows
  <1>4. /\ e.tab = f.tab /\ e.token = f.token /\ e.pc = x
        /\ e.lost = f.lost /\ e.made = f.made /\ e.late = f.late /\ e.verified = ok
    BY <1>3 DEF Refresh
  <1> HIDE DEF e
  <1>5. QED
    BY <1>1, <1>2, <1>4, RowOf

LEMMA IssueRow ==
  ASSUME TypeOK, NEW r \in DOMAIN refreshes, RotateIssue(r)
  PROVE  /\ OnlyRow(r) /\ refreshes'[r].pc = "granted"
         /\ refreshes'[r].lost = refreshes[r].lost
         /\ refreshes'[r].verified = refreshes[r].verified
         /\ refreshes'[r].made = Len(tokens) + 1
  <1> DEFINE f == refreshes[r]
             e == [f EXCEPT !.pc = "granted", !.made = Len(tokens) + 1]
  <1>1. refreshes' = [refreshes EXCEPT ![r] = e]
    BY DEF RotateIssue
  <1>2. f \in Refresh
    BY Rows
  <1>3. /\ e.tab = f.tab /\ e.token = f.token /\ e.pc = "granted"
        /\ e.lost = f.lost /\ e.verified = f.verified /\ e.made = Len(tokens) + 1
    BY <1>2 DEF Refresh
  <1> HIDE DEF e
  <1>4. QED
    BY <1>1, <1>3, RowOf

LEMMA LostRow ==
  ASSUME TypeOK, NEW r \in DOMAIN refreshes, RefreshLost(r)
  PROVE  /\ OnlyRow(r) /\ refreshes'[r].lost
         /\ refreshes'[r].pc = refreshes[r].pc /\ refreshes'[r].made = refreshes[r].made
         /\ refreshes'[r].late = refreshes[r].late
         /\ refreshes'[r].verified = refreshes[r].verified
  <1> DEFINE f == refreshes[r]
             e == [f EXCEPT !.lost = TRUE]
  <1>1. refreshes' = [refreshes EXCEPT ![r] = e]
    BY DEF RefreshLost
  <1>2. f \in Refresh
    BY Rows
  <1>3. /\ e.tab = f.tab /\ e.token = f.token /\ e.pc = f.pc
        /\ e.made = f.made /\ e.late = f.late /\ e.lost = TRUE
        /\ e.verified = f.verified
    BY <1>2 DEF Refresh
  <1> HIDE DEF e
  <1>4. QED
    BY <1>1, <1>3, RowOf

\* A step of a refresh that neither answers nor breaks off.
LEMMA RunsOn ==
  ASSUME Base, Heard, NEW r \in DOMAIN refreshes, OnlyRow(r), UNCHANGED <<promise, calls>>,
         refreshes'[r].lost = refreshes[r].lost,
         refreshes[r].pc # "over", refreshes'[r].pc # "over"
  PROVE  Heard'
  <1>1. \A s \in DOMAIN refreshes :
           /\ refreshes'[s].tab = refreshes[s].tab
           /\ refreshes'[s].lost = refreshes[s].lost
           /\ refreshes'[s].pc = "over" <=> refreshes[s].pc = "over"
    BY DEF OnlyRow
  <1>2. \A b \in Tabs : promise[b] # 0 => promise[b] \in DOMAIN refreshes
    BY Rows DEF Base, TypeOK
  <1>3. DOMAIN refreshes' = DOMAIN refreshes
    BY DEF OnlyRow
  <1>4. QED
    BY <1>1, <1>2, <1>3 DEF Heard

LEMMA RefreshHeard ==
  ASSUME Base, Heard, NEW r \in DOMAIN refreshes, RefreshHandler(r) \/ RefreshLost(r)
  PROVE  Heard'
  <1> USE DEF Base
  <1> DEFINE f == refreshes[r]
  <1>0. f \in Refresh /\ f.tab \in Tabs
    BY Rows DEF Refresh
  <1>1. ASSUME VerifyRefreshToken(r) \/ RefreshCheckUser(r) \/ RotateRevoke(r) \/ RotateIssue(r)
        PROVE  Heard'
    <2>1. UNCHANGED <<promise, calls>>
      BY <1>1 DEF VerifyRefreshToken, RefreshCheckUser, RotateRevoke, RotateIssue, browser
    <2>2. f.pc # "over"
      BY <1>1 DEF VerifyRefreshToken, RefreshCheckUser, RotateRevoke, RotateIssue
    <2>3. OnlyRow(r) /\ refreshes'[r].lost = f.lost /\ refreshes'[r].pc # "over"
      BY <1>1, VerifyRow, PcRow, IssueRow DEF RefreshCheckUser, RotateRevoke, Keeps
    <2>4. QED
      BY <2>1, <2>2, <2>3, RunsOn
  <1>2. ASSUME RefreshArrives(r) \/ RefreshLost(r)
        PROVE  Heard'
    <2>1. OnlyRow(r) /\ (refreshes'[r].pc = "over" \/ refreshes'[r].lost)
      BY <1>2, PcRow, LostRow DEF RefreshArrives
    <2>2. promise' = [promise EXCEPT ![f.tab] = 0] /\ f.pc # "over" /\ ~f.lost
      BY <1>2 DEF RefreshArrives, RefreshLost
    <2>3. \A c \in Calls : calls'[c].pc = "waiting" =>
             calls[c].pc = "waiting" /\ TabOf[c] # f.tab
      BY <1>2 DEF RefreshArrives, RefreshLost, Waiting, NoCall
    <2>4. promise[f.tab] = r
      BY <2>2 DEF Heard
    <2>5. /\ promise'[f.tab] = 0
          /\ \A d \in Tabs : d # f.tab => promise'[d] = promise[d]
      BY <1>0, <2>2 DEF TypeOK
    <2>6. \A s \in DOMAIN refreshes : refreshes[s].tab \in Tabs
      BY Rows DEF Refresh
    <2>7. \A d \in Tabs : promise[d] # 0 => promise[d] \in DOMAIN refreshes
      BY Rows DEF TypeOK
    <2>8. QED
      BY <2>1, <2>2, <2>3, <2>4, <2>5, <2>6, <2>7, Bounds DEF Heard, OnlyRow
  <1>3. QED
    BY <1>1, <1>2 DEF RefreshHandler

LEMMA OthersHeard ==
  ASSUME Base, Heard,
         (\E b \in Tabs : SessionStep(b)) \/ EventStep \/ UNCHANGED vars
  PROVE  Heard'
  <1> USE DEF Base
  <1>1. CASE ResetRevokeAll
    <2>1. \A s \in DOMAIN refreshes :
             /\ refreshes'[s].tab = refreshes[s].tab
             /\ refreshes'[s].lost = refreshes[s].lost
             /\ refreshes'[s].pc = refreshes[s].pc
      BY <1>1, MarkedLate, Rows DEF Refresh
    <2>2. \A b \in Tabs : promise[b] # 0 => promise[b] \in DOMAIN refreshes
      BY Rows DEF TypeOK
    <2>3. DOMAIN refreshes' = DOMAIN refreshes /\ UNCHANGED <<promise, calls>>
      BY <1>1, MarkedLate DEF ResetRevokeAll, browser
    <2>4. QED
      BY <2>1, <2>2, <2>3 DEF Heard
  <1>2. CASE UNCHANGED <<refreshes, promise, calls>>
    BY <1>2 DEF Heard
  <1>3. QED
    BY <1>1, <1>2
    DEF SessionStep, EventStep, Login, ValidateCredentials, IssueSessionTokens, LoginArrives,
        Logout, LogoutRevoke, LogoutArrives, ResetCheck, ResetCommit, SetStatus, Tick,
        vars, clock, server, browser

LEMMA HeardInit == Init => Heard
  BY DEF Init, Heard, NoCall

LEMMA HeardKept == Base /\ Heard /\ [Next]_vars => Heard'
  BY StepOf, CallHeard, RefreshHeard, OthersHeard

\* No step takes the variables out of their types.
THEOREM Typed == Spec => []TypeOK
  <1>1. Base => TypeOK
    BY DEF Base
  <1>2. QED
    BY BaseInit, BaseKept, <1>1, PTL DEF Spec

LEMMA AlwaysHeard == Spec => [](Base /\ Heard)
  BY BaseInit, BaseKept, HeardInit, HeardKept, PTL DEF Spec

\* tryRefresh: a request that waits for its tab's refresh waits for one whose
\* answer, or whose failure, is still to come.
THEOREM NobodyForgotten == Spec => []WaitersAreHeard
  <1>1. Base /\ Heard => WaitersAreHeard
    BY Bounds DEF Base, TypeOK, Heard, WaitersAreHeard
  <1>2. QED
    BY AlwaysHeard, <1>1, PTL

----------------------------------------------------------------------------
(* Presentations: a token on its way to the browser has never been there,   *)
(* so none that was answered with a new one can be presented again.        *)

Unseen(t) == jar # t /\ \A r \in DOMAIN refreshes : refreshes[r].token # t
Granted(r) == refreshes[r].pc = "granted"
LoggedIn(b) == auth[b].pc = "login"

Presented ==
    /\ \A r \in DOMAIN refreshes : refreshes[r].pc \notin {"granted", "over"} => refreshes[r].made = 0
    /\ \A r \in DOMAIN refreshes : refreshes[r].made # 0 => refreshes[r].token # 0
    /\ \A r \in DOMAIN refreshes : Granted(r) => refreshes[r].made # 0 /\ Unseen(refreshes[r].made)
    /\ \A r \in DOMAIN refreshes :
          refreshes[r].pc = "over" /\ refreshes[r].made # 0 => jar # refreshes[r].token
    /\ \A r, s \in DOMAIN refreshes :
          r # s /\ Granted(r) /\ Granted(s) => refreshes[r].made # refreshes[s].made
    /\ \A b \in Tabs : LoggedIn(b) => auth[b].token # 0 /\ Unseen(auth[b].token)
    /\ \A b, d \in Tabs : b # d /\ LoggedIn(b) /\ LoggedIn(d) => auth[b].token # auth[d].token
    /\ \A b \in Tabs, r \in DOMAIN refreshes :
          LoggedIn(b) /\ Granted(r) => auth[b].token # refreshes[r].made

\* No refresh begins, and none that is over or lost comes back.
Ages ==
    /\ DOMAIN refreshes' = DOMAIN refreshes
    /\ \A r \in DOMAIN refreshes :
          /\ refreshes'[r].tab = refreshes[r].tab
          /\ refreshes'[r].token = refreshes[r].token
          /\ refreshes[r].lost => refreshes'[r].lost
          /\ refreshes[r].pc = "over" => refreshes'[r].pc = "over"
          /\ refreshes[r].pc = "over" => refreshes'[r].made = refreshes[r].made

LEMMA OneKept ==
  ASSUME OnePresentation, Ages
  PROVE  OnePresentation'
  BY DEF OnePresentation, Ages

LEMMA RefreshAges ==
  ASSUME Base, NEW r \in DOMAIN refreshes, RefreshHandler(r) \/ RefreshLost(r)
  PROVE  Ages
  <1> USE DEF Base
  <1>1. ASSUME VerifyRefreshToken(r) \/ RefreshCheckUser(r) \/ RotateRevoke(r)
                 \/ RotateIssue(r) \/ RefreshArrives(r)
        PROVE  OnlyRow(r) /\ refreshes'[r].lost = refreshes[r].lost /\ refreshes[r].pc # "over"
    BY <1>1, VerifyRow, PcRow, IssueRow
    DEF VerifyRefreshToken, RefreshCheckUser, RotateRevoke, RotateIssue, RefreshArrives, Keeps
  <1>2. ASSUME RefreshLost(r)
        PROVE  OnlyRow(r) /\ refreshes'[r].lost /\ refreshes[r].pc # "over"
    BY <1>2, LostRow DEF RefreshLost
  <1>3. QED
    BY <1>1, <1>2 DEF RefreshHandler, OnlyRow, Ages

LEMMA OthersAge ==
  ASSUME Base, (\E b \in Tabs : SessionStep(b)) \/ EventStep \/ UNCHANGED vars
  PROVE  /\ Ages
         /\ \A r \in DOMAIN refreshes : /\ refreshes'[r].pc = refreshes[r].pc
                                       /\ refreshes'[r].made = refreshes[r].made
                                       /\ refreshes'[r].verified = refreshes[r].verified
  <1> USE DEF Base
  <1>1. CASE ResetRevokeAll
    <2>1. \A r \in DOMAIN refreshes :
             /\ refreshes'[r].tab = refreshes[r].tab
             /\ refreshes'[r].token = refreshes[r].token
             /\ refreshes'[r].lost = refreshes[r].lost
             /\ refreshes'[r].pc = refreshes[r].pc
             /\ refreshes'[r].made = refreshes[r].made
             /\ refreshes'[r].verified = refreshes[r].verified
      BY <1>1, MarkedLate, Rows DEF Refresh
    <2>2. QED
      BY <1>1, <2>1, MarkedLate DEF Ages
  <1>2. CASE UNCHANGED refreshes
    BY <1>2 DEF Ages
  <1>3. QED
    BY <1>1, <1>2
    DEF SessionStep, EventStep, Login, ValidateCredentials, IssueSessionTokens, LoginArrives,
        Logout, LogoutRevoke, LogoutArrives, ResetCheck, ResetCommit, SetStatus, Tick, vars

\* What a sign-in or sign-out leaves of the tabs' own steps.
OnlyTab(b) == \A d \in Tabs : d # b => auth'[d] = auth[d]

\* Nothing is on its way that was not before, and the browser holds what it held.
LEMMA Untouched ==
  ASSUME Presented, Ages, jar' = jar,
         \A r \in DOMAIN refreshes : /\ refreshes'[r].pc = "granted" <=> refreshes[r].pc = "granted"
                                     /\ refreshes'[r].pc = "over" <=> refreshes[r].pc = "over"
                                     /\ refreshes'[r].made = refreshes[r].made,
         \A b \in Tabs : auth'[b].pc = "login" =>
            auth[b].pc = "login" /\ auth'[b].token = auth[b].token
  PROVE  Presented'
  <1>1. \A t : Unseen(t) => Unseen(t)'
    BY DEF Unseen, Ages
  <1>2. \A r \in DOMAIN refreshes : Granted(r)' => Granted(r)
    BY DEF Granted
  <1>3. \A b \in Tabs : LoggedIn(b)' => LoggedIn(b) /\ auth'[b].token = auth[b].token
    BY DEF LoggedIn
  <1>4. QED
    BY <1>1, <1>2, <1>3 DEF Presented, Ages

LEMMA CallPresented ==
  ASSUME Base, Heard, Presented, OnePresentation,
         NEW c \in Calls, Send(c) \/ Validate(c) \/ Answer(c)
  PROVE  Presented' /\ OnePresentation'
  <1> USE DEF Base
  <1> DEFINE b == TabOf[c]
  <1>1. jar' = jar /\ auth' = auth
    BY DEF Send, Validate, Answer, browser
  <1>2. CASE UNCHANGED refreshes
    <2>1. Ages
      BY <1>2 DEF Ages
    <2>2. QED
      BY <1>1, <1>2, <2>1, Untouched, OneKept
  <1>3. CASE Answer(c) /\ promise[b] = 0 /\ StartRefresh(b)
    <2> DEFINE n == Len(refreshes) + 1
               new == [tab |-> b, token |-> jar, pc |-> "verify", verified |-> FALSE,
                       made |-> 0, lost |-> FALSE, late |-> FALSE]
    <2>1. new \in Refresh
      BY Rows, Bounds DEF TypeOK, Refresh, RefreshStep
    <2>2. refreshes' = Append(refreshes, new)
      BY <1>3 DEF StartRefresh
    <2>3. /\ DOMAIN refreshes' = DOMAIN refreshes \cup {n} /\ n \notin DOMAIN refreshes
          /\ \A r \in DOMAIN refreshes : refreshes'[r] = refreshes[r] /\ r < n
          /\ refreshes'[n] = new
      BY <2>1, <2>2, Appended, Rows DEF TypeOK
    <2>4. new.tab = b /\ new.token = jar /\ new.pc = "verify" /\ new.made = 0
      OBVIOUS
    <2> HIDE DEF new, n
    <2>5. \A t : Unseen(t) => Unseen(t)'
      BY <1>1, <2>3, <2>4 DEF Unseen
    <2>6. Presented'
      BY <1>1, <2>3, <2>4, <2>5 DEF Presented, Granted, LoggedIn
    <2>7. ASSUME NEW r \in DOMAIN refreshes, refreshes[r].tab = b, refreshes[r].token = jar
          PROVE  refreshes[r].lost \/ (refreshes[r].pc = "over" /\ refreshes[r].made = 0)
      <3>1. refreshes[r].pc = "over" \/ refreshes[r].lost
        <4>1. r # 0
          BY Rows
        <4>2. QED
          BY <1>3, <2>7, <4>1 DEF Heard
      <3>2. ASSUME refreshes[r].pc = "over"
            PROVE  refreshes[r].made = 0
        BY <2>7, <3>2 DEF Presented
      <3>3. QED
        BY <3>1, <3>2
    <2>8. OnePresentation'
      <3> SUFFICES ASSUME NEW r \in DOMAIN refreshes', NEW q \in DOMAIN refreshes', r < q,
                          refreshes'[r].tab = refreshes'[q].tab,
                          refreshes'[r].token = refreshes'[q].token
                   PROVE  refreshes'[r].lost \/ (refreshes'[r].pc = "over" /\ refreshes'[r].made = 0)
        BY DEF OnePresentation
      <3>1. r \in DOMAIN refreshes
        BY <2>3, Rows DEF n
      <3>2. CASE q = n
        BY <2>3, <2>4, <2>7, <3>1, <3>2
      <3>3. CASE q \in DOMAIN refreshes
        <4>1. refreshes'[r] = refreshes[r] /\ refreshes'[q] = refreshes[q]
          BY <2>3, <3>1, <3>3
        <4>2. QED
          BY <3>1, <3>3, <4>1 DEF OnePresentation
      <3>4. QED
        BY <2>3, <3>2, <3>3
    <2>9. QED
      BY <2>6, <2>8
  <1>4. QED
    BY <1>2, <1>3 DEF Send, Validate, Answer, TryRefresh

LEMMA RefreshPresented ==
  ASSUME Base, Heard, Presented, OnePresentation,
         NEW r \in DOMAIN refreshes, RefreshHandler(r) \/ RefreshLost(r)
  PROVE  Presented' /\ OnePresentation'
  <1> USE DEF Base
  <1> DEFINE f == refreshes[r]
             g == refreshes'[r]
  <1>1. Ages /\ OnePresentation' /\ auth' = auth
    <2>1. auth' = auth
      BY DEF RefreshHandler, VerifyRefreshToken, RefreshCheckUser, RotateRevoke, RotateIssue,
             RefreshArrives, RefreshLost
    <2>2. QED
      BY <2>1, RefreshAges, OneKept
  <1>2. ASSUME VerifyRefreshToken(r) \/ RefreshCheckUser(r) \/ RotateRevoke(r) \/ RefreshLost(r)
        PROVE  Presented'
    <2>1. jar' = jar
      BY <1>2 DEF VerifyRefreshToken, RefreshCheckUser, RotateRevoke, RefreshLost, browser
    <2>2. OnlyRow(r) /\ g.made = f.made
      BY <1>2, VerifyRow, PcRow, LostRow DEF RefreshCheckUser, RotateRevoke, Keeps
    <2>3. (g.pc = "granted" <=> f.pc = "granted") /\ (g.pc = "over" <=> f.pc = "over")
      <3>1. CASE RefreshLost(r)
        BY <3>1, LostRow
      <3>2. CASE ~RefreshLost(r)
        <4>1. f.pc \notin {"granted", "over"}
          BY <1>2, <3>2 DEF VerifyRefreshToken, RefreshCheckUser, RotateRevoke
        <4>2. g.pc \notin {"granted", "over"}
          BY <1>2, <3>2, VerifyRow, PcRow DEF RefreshCheckUser, RotateRevoke
        <4>3. QED
          BY <4>1, <4>2
      <3>3. QED
        BY <3>1, <3>2
    <2>4. \A s \in DOMAIN refreshes :
             /\ refreshes'[s].pc = "granted" <=> refreshes[s].pc = "granted"
             /\ refreshes'[s].pc = "over" <=> refreshes[s].pc = "over"
             /\ refreshes'[s].made = refreshes[s].made
      BY <2>2, <2>3 DEF OnlyRow
    <2>5. QED
      BY <1>1, <2>1, <2>4, Untouched
  <1>3. ASSUME RotateIssue(r)
        PROVE  Presented'
    <2> DEFINE n == Len(tokens) + 1
    <2>1. OnlyRow(r) /\ g.made = n /\ g.pc = "granted" /\ jar' = jar
      BY <1>3, IssueRow DEF RotateIssue, browser
    <2>2. f.token # 0 /\ f.pc = "issue"
      BY <1>3 DEF RotateIssue, Known, Checked
    <2>3. n # 0 /\ Unseen(n)
      <3>1. \A s \in DOMAIN refreshes : refreshes[s].token \in Nat /\ refreshes[s].token <= Len(tokens)
        BY Rows DEF Refresh, Known
      <3>2. QED
        BY <3>1, Rows DEF Unseen, TypeOK
    <2>4. \A s \in DOMAIN refreshes : refreshes[s].made # n
      <3>1. \A s \in DOMAIN refreshes : refreshes[s].made \in Nat /\ refreshes[s].made <= Len(tokens)
        BY Rows DEF Refresh, Known
      <3>2. QED
        BY <3>1, Rows
    <2>5. \A b \in Tabs : auth[b].token # n
      <3> SUFFICES ASSUME NEW b \in Tabs PROVE auth[b].token # n
        OBVIOUS
      <3>1. auth[b] \in Auth /\ auth[b].token <= Len(tokens)
        BY DEF TypeOK, Known
      <3>2. auth[b].token \in Nat
        BY <3>1 DEF Auth
      <3>3. QED
        BY <3>1, <3>2, Rows
    <2> HIDE DEF n
    <2>6. \A t : Unseen(t) => Unseen(t)'
      BY <1>1, <2>1 DEF Unseen, Ages
    <2>7. QED
      BY <1>1, <2>1, <2>2, <2>3, <2>4, <2>5, <2>6 DEF Presented, OnlyRow, Granted, LoggedIn
  <1>4. ASSUME RefreshArrives(r), f.pc = "granted"
        PROVE  Presented'
    <2>1. OnlyRow(r) /\ g.made = f.made /\ g.pc = "over" /\ jar' = f.made
      BY <1>4, PcRow DEF RefreshArrives, Keeps, SetAuthCookies
    <2>2. Unseen(f.made)
      BY <1>4 DEF Presented, Granted
    <2>3. \A t : Unseen(t) /\ t # f.made => Unseen(t)'
      BY <1>1, <2>1 DEF Unseen, Ages
    <2>4. \A s \in DOMAIN refreshes : refreshes'[s].token # f.made
      BY <1>1, <2>2 DEF Unseen, Ages
    <2>5. \A s \in DOMAIN refreshes : s # r /\ Granted(s) => refreshes[s].made # f.made
      BY <1>4 DEF Presented, Granted
    <2>6. \A b \in Tabs : LoggedIn(b) => auth[b].token # f.made
      BY <1>4 DEF Presented, Granted
    <2>7. QED
      BY <1>1, <1>4, <2>1, <2>3, <2>4, <2>5, <2>6 DEF Presented, OnlyRow, Granted, LoggedIn
  <1>5. ASSUME RefreshArrives(r), f.pc # "granted"
        PROVE  Presented'
    <2>1. OnlyRow(r) /\ g.made = f.made /\ g.pc = "over" /\ jar' = jar
      BY <1>5, PcRow DEF RefreshArrives, Keeps
    <2>2. f.made = 0
      BY <1>5 DEF RefreshArrives, Presented
    <2>3. \A t : Unseen(t) => Unseen(t)'
      BY <1>1, <2>1 DEF Unseen, Ages
    <2>4. QED
      BY <1>1, <1>5, <2>1, <2>2, <2>3 DEF Presented, OnlyRow, Granted, LoggedIn
  <1>6. QED
    BY <1>1, <1>2, <1>3, <1>4, <1>5 DEF RefreshHandler

LEMMA SessionPresented ==
  ASSUME Base, Heard, Presented, OnePresentation, NEW b \in Tabs, SessionStep(b)
  PROVE  Presented' /\ OnePresentation'
  <1> USE DEF Base
  <1>1. /\ Ages /\ OnePresentation'
        /\ \A r \in DOMAIN refreshes : /\ refreshes'[r].pc = refreshes[r].pc
                                       /\ refreshes'[r].made = refreshes[r].made
    BY OthersAge, OneKept
  <1>2. auth[b] \in Auth
    BY DEF TypeOK
  <1>3. OnlyTab(b)
    BY DEF SessionStep, Login, ValidateCredentials, IssueSessionTokens,
       LoginArrives, Logout, LogoutRevoke, LogoutArrives, OnlyTab, TypeOK
  <1>4. ASSUME auth'[b].pc # "login", jar' = jar
        PROVE  Presented'
    BY <1>1, <1>3, <1>4, Untouched DEF OnlyTab
  <1>5. ASSUME Login(b) \/ ValidateCredentials(b) \/ Logout(b) \/ LogoutRevoke(b)
        PROVE  auth'[b].pc # "login" /\ jar' = jar
    <2>1. CASE Login(b)
      BY <1>2, <2>1 DEF Login, NoAuth, TypeOK
    <2>2. CASE ValidateCredentials(b)
      <3> DEFINE p == IF reset \in {"changed", "done"} THEN 1 ELSE 0
                 e == [auth[b] EXCEPT !.pc = "issue", !.password = p]
      <3>1. e.pc = "issue" /\ NoAuth.pc = "none"
        BY <1>2 DEF Auth, NoAuth
      <3>2. auth' = [auth EXCEPT ![b] = e] \/ auth' = [auth EXCEPT ![b] = NoAuth]
        BY <2>2 DEF ValidateCredentials
      <3>3. jar' = jar
        BY <2>2 DEF ValidateCredentials, browser
      <3> HIDE DEF e
      <3>4. auth'[b] \in {e, NoAuth}
        BY <3>2 DEF TypeOK
      <3>5. QED
        BY <3>1, <3>3, <3>4
    <2>3. CASE Logout(b)
      BY <1>2, <2>3 DEF Logout, NoAuth, TypeOK, browser
    <2>4. CASE LogoutRevoke(b)
      BY <1>2, <2>4 DEF LogoutRevoke, TypeOK, Auth, browser
    <2>5. QED
      BY <1>5, <2>1, <2>2, <2>3, <2>4
  <1>6. ASSUME IssueSessionTokens(b)
        PROVE  Presented'
    <2> DEFINE n == Len(tokens) + 1
               e == [auth[b] EXCEPT !.pc = "login", !.token = n]
    <2>1. e.pc = "login" /\ e.token = n
      BY <1>2 DEF Auth
    <2>2. auth' = [auth EXCEPT ![b] = e] /\ jar' = jar
      BY <1>6 DEF IssueSessionTokens, browser
    <2> HIDE DEF e
    <2>3. auth'[b].pc = "login" /\ auth'[b].token = n
      BY <2>1, <2>2 DEF TypeOK
    <2>4. n # 0 /\ Unseen(n)
      <3>1. \A s \in DOMAIN refreshes : refreshes[s].token \in Nat /\ refreshes[s].token <= Len(tokens)
        BY Rows DEF Refresh, Known
      <3>2. QED
        BY <3>1, Rows DEF Unseen, TypeOK
    <2>5. \A s \in DOMAIN refreshes : refreshes[s].made # n
      <3>1. \A s \in DOMAIN refreshes : refreshes[s].made \in Nat /\ refreshes[s].made <= Len(tokens)
        BY Rows DEF Refresh, Known
      <3>2. QED
        BY <3>1, Rows
    <2>6. \A d \in Tabs : auth[d].token # n
      <3> SUFFICES ASSUME NEW d \in Tabs PROVE auth[d].token # n
        OBVIOUS
      <3>1. auth[d] \in Auth /\ auth[d].token <= Len(tokens)
        BY DEF TypeOK, Known
      <3>2. auth[d].token \in Nat
        BY <3>1 DEF Auth
      <3>3. QED
        BY <3>1, <3>2, Rows
    <2> HIDE DEF n
    <2>7. \A t : Unseen(t) => Unseen(t)'
      BY <1>1, <2>2 DEF Unseen, Ages
    <2>8. \A r \in DOMAIN refreshes' : Granted(r)' => r \in DOMAIN refreshes /\ Granted(r)
      BY <1>1 DEF Granted, Ages
    <2>9. QED
      BY <1>1, <1>3, <2>2, <2>3, <2>4, <2>5, <2>6, <2>7, <2>8
      DEF Presented, Ages, OnlyTab, LoggedIn
  <1>7. ASSUME LoginArrives(b)
        PROVE  Presented'
    <2> DEFINE n == auth[b].token
    <2>1. jar' = n /\ auth[b].pc = "login" /\ auth'[b].pc # "login"
      BY <1>3, <1>7 DEF LoginArrives, SetAuthCookies, NoAuth, TypeOK
    <2>2. Unseen(n)
      BY <2>1 DEF Presented, LoggedIn
    <2>3. \A t : Unseen(t) /\ t # n => Unseen(t)'
      BY <1>1, <2>1 DEF Unseen, Ages
    <2>4. \A r \in DOMAIN refreshes : refreshes[r].token # n
      BY <2>2 DEF Unseen
    <2>5. \A r \in DOMAIN refreshes : Granted(r) => refreshes[r].made # n
      BY <2>1 DEF Presented, LoggedIn
    <2>6. \A d \in Tabs : d # b /\ LoggedIn(d) => auth[d].token # n
      BY <2>1 DEF Presented, LoggedIn
    <2> HIDE DEF n
    <2>8. QED
      BY <1>1, <1>3, <2>1, <2>3, <2>4, <2>5, <2>6 DEF Presented, Ages, OnlyTab, LoggedIn, Granted
  <1>8. ASSUME LogoutArrives(b)
        PROVE  Presented'
    <2>1. jar' = 0 /\ auth'[b].pc # "login"
      BY <1>3, <1>8 DEF LogoutArrives, ClearAuthCookies, NoAuth, TypeOK
    <2>2. \A t : Unseen(t) /\ t # 0 => Unseen(t)'
      BY <1>1, <2>1 DEF Unseen, Ages
    <2>3. QED
      BY <1>1, <1>3, <2>1, <2>2 DEF Presented, Ages, OnlyTab, LoggedIn, Granted
  <1>9. QED
    BY <1>1, <1>4, <1>5, <1>6, <1>7, <1>8 DEF SessionStep

LEMMA EventPresented ==
  ASSUME Base, Presented, OnePresentation, EventStep \/ UNCHANGED vars
  PROVE  Presented' /\ OnePresentation'
  <1> USE DEF Base
  <1>1. /\ Ages /\ OnePresentation'
        /\ \A r \in DOMAIN refreshes : /\ refreshes'[r].pc = refreshes[r].pc
                                       /\ refreshes'[r].made = refreshes[r].made
    BY OthersAge, OneKept
  <1>2. jar' = jar
    BY DEF EventStep, ResetCheck, ResetCommit, ResetRevokeAll, SetStatus, Tick, vars, browser
  <1>3. \A b \in Tabs : auth'[b].pc = auth[b].pc /\ auth'[b].token = auth[b].token
    <2>1. CASE ResetRevokeAll
      BY <2>1, MarkedLate DEF TypeOK, Auth
    <2>2. CASE ~ResetRevokeAll
      BY <2>2 DEF EventStep, ResetCheck, ResetCommit, SetStatus, Tick, vars
    <2>3. QED
      BY <2>1, <2>2
  <1>4. QED
    BY <1>1, <1>2, <1>3, Untouched

LEMMA PresentedInit == Init => Presented /\ OnePresentation
  BY DEF Init, Presented, OnePresentation, Granted, LoggedIn, NoAuth

LEMMA PresentedKept ==
  Base /\ Heard /\ Presented /\ OnePresentation /\ [Next]_vars => Presented' /\ OnePresentation'
  BY StepOf, CallPresented, RefreshPresented, SessionPresented, EventPresented

\* refreshPromise and rotation together: of the refresh tokens of a browser, a
\* tab presents one twice only if it never heard the first answer, or was refused.
THEOREM PresentedOnce == Spec => []OnePresentation
  BY AlwaysHeard, BaseInit, BaseKept, HeardInit, HeardKept, PresentedInit, PresentedKept, PTL
  DEF Spec

----------------------------------------------------------------------------
(* The reset: what was asked for before it and is not marked holds a       *)
(* session of the new password.                                            *)

Marked(r) ==
    LET t == refreshes[r].token
    IN  tokens[t].password # 0 \/ tokens[t].spared \/ refreshes[r].late
Overtaken ==
    reset = "done" =>
        /\ \A r \in DOMAIN refreshes : refreshes[r].pc \in Checked => Marked(r)
        /\ \A b \in Tabs : auth[b].pc = "issue" => auth[b].password # 0 \/ auth[b].late

\* A row of the table keeps what it was issued with, and a revoked one stays
\* revoked.
Stays(row, new) ==
    /\ new.password = row.password /\ new.spared = row.spared
    /\ new.login = row.login /\ new.at = row.at /\ new.lastUsedAt = row.lastUsedAt
    /\ new.revoked = "no" => row.revoked = "no"
KeepsRows ==
    /\ Len(tokens) <= Len(tokens')
    /\ \A t \in 1..Len(tokens) : Stays(tokens[t], tokens'[t])

LEMMA OneRowOlder ==
  ASSUME TypeOK, Len(tokens') = Len(tokens),
         \A t \in 1..Len(tokens) : \/ tokens'[t] = tokens[t]
                                  \/ \E x \in Revoked \ {"no"} :
                                       tokens'[t] = [tokens[t] EXCEPT !.revoked = x]
  PROVE  KeepsRows
  <1>1. ASSUME NEW t \in 1..Len(tokens)
        PROVE  Stays(tokens[t], tokens'[t])
    <2>1. tokens[t] \in TokenRow
      BY Rows
    <2>2. CASE tokens'[t] = tokens[t]
      BY <2>2 DEF Stays
    <2>3. ASSUME NEW x \in Revoked \ {"no"}, tokens'[t] = [tokens[t] EXCEPT !.revoked = x]
          PROVE  Stays(tokens[t], tokens'[t])
      BY <2>1, <2>3 DEF TokenRow, Stays
    <2>4. QED
      BY <2>2, <2>3
  <1>2. QED
    BY <1>1, Rows DEF KeepsRows

LEMMA UnchangedRows ==
  ASSUME TypeOK, tokens' = tokens
  PROVE  KeepsRows /\ Len(tokens') = Len(tokens)
  BY Rows DEF KeepsRows, Stays

LEMMA RevokedRow ==
  ASSUME TypeOK, NEW why \in Revoked \ {"no"}, NEW t \in 0..Len(tokens),
         tokens' = RevokeRefreshToken(t, why)
  PROVE  KeepsRows /\ Len(tokens') = Len(tokens)
  <1>1. why \in Revoked
    OBVIOUS
  <1>2. /\ Len(tokens') = Len(tokens)
        /\ \A i \in 1..Len(tokens) :
              tokens'[i] = tokens[i] \/ tokens'[i] = [tokens[i] EXCEPT !.revoked = why]
    BY <1>1, RevokeOne
  <1>3. QED
    BY <1>2, OneRowOlder

LEMMA InsertedRow ==
  ASSUME TypeOK, NEW e, e \in TokenRow, tokens' = Append(tokens, e)
  PROVE  KeepsRows /\ Len(tokens') = Len(tokens) + 1 /\ tokens'[Len(tokens) + 1] = e
  BY Appended, Rows DEF KeepsRows, Stays, TypeOK

LEMMA VerifiedRows ==
  ASSUME Base, NEW r \in DOMAIN refreshes, VerifyRefreshToken(r)
  PROVE  KeepsRows /\ Len(tokens') = Len(tokens)
  <1> USE DEF Base
  <1> DEFINE t == refreshes[r].token
             x == now - served[tokens[t].login]
             row == [tokens[t] EXCEPT !.revoked = "inactive", !.idle = x]
  <1>1. tokens' = tokens \/ (Live(t) /\ tokens' = [tokens EXCEPT ![t] = row])
    BY DEF VerifyRefreshToken
  <1>2. CASE tokens' = tokens
    BY <1>2, UnchangedRows
  <1>3. CASE Live(t) /\ tokens' = [tokens EXCEPT ![t] = row]
    <2>1. t \in 1..Len(tokens)
      <3>1. t \in Nat /\ t <= Len(tokens)
        BY Rows DEF Refresh, Known
      <3>2. QED
        BY <1>3, <3>1, Rows DEF Live
    <2>2. tokens[t] \in TokenRow
      BY <2>1, Rows
    <2> HIDE DEF x
    <2>3. Stays(tokens[t], row)
      BY <2>2 DEF TokenRow, Stays
    <2> HIDE DEF row
    <2>4. /\ Len(tokens') = Len(tokens)
          /\ \A j \in 1..Len(tokens) : tokens'[j] = IF j = t THEN row ELSE tokens[j]
      BY <1>3, <2>1, Rows DEF TypeOK
    <2>5. QED
      BY <2>3, <2>4, Rows DEF KeepsRows, Stays
  <1>4. QED
    BY <1>1, <1>2, <1>3

LEMMA EndsKept ==
  ASSUME TypeOK, TypeOK', KeepsRows, Len(tokens') = Len(tokens), reset' = reset,
         ResetEndsSessions
  PROVE  ResetEndsSessions'
  <1>1. DOMAIN tokens = 1..Len(tokens) /\ DOMAIN tokens' = 1..Len(tokens)
    BY LenProperties DEF TypeOK
  <1>2. ASSUME NEW t \in 1..Len(tokens), Live(t)', tokens'[t].password = 0
        PROVE  Live(t) /\ tokens[t].password = 0 /\ tokens'[t].spared = tokens[t].spared
    BY <1>2 DEF Live, KeepsRows, Stays
  <1>3. QED
    BY <1>1, <1>2 DEF ResetEndsSessions

LEMMA EndsInserted ==
  ASSUME TypeOK, NEW e, e \in TokenRow, tokens' = Append(tokens, e), reset' = reset,
         TypeOK', reset = "done" => e.password # 0 \/ e.spared, ResetEndsSessions
  PROVE  ResetEndsSessions'
  <1>1. /\ KeepsRows /\ Len(tokens') = Len(tokens) + 1
        /\ tokens'[Len(tokens) + 1] = e
    BY InsertedRow
  <1>2. /\ Len(tokens) \in Nat /\ DOMAIN tokens = 1..Len(tokens)
        /\ DOMAIN tokens' = 1..Len(tokens')
    BY Rows, LenProperties DEF TypeOK
  <1> SUFFICES ASSUME NEW t \in DOMAIN tokens', reset' = "done", Live(t)', tokens'[t].password = 0
               PROVE  tokens'[t].spared
    BY DEF ResetEndsSessions
  <1>3. CASE t = Len(tokens) + 1
    BY <1>1, <1>3
  <1>4. CASE t # Len(tokens) + 1
    <2>1. t \in 1..Len(tokens)
      BY <1>1, <1>2, <1>4
    <2>2. Live(t) /\ tokens[t].password = 0
      BY <1>1, <2>1 DEF Live, KeepsRows, Stays
    <2>3. tokens[t].spared
      BY <1>2, <2>1, <2>2 DEF ResetEndsSessions
    <2>4. QED
      BY <1>1, <2>1, <2>3 DEF KeepsRows, Stays
  <1>5. QED
    BY <1>3, <1>4

\* A refresh that has verified its token has its row in the table.
LEMMA CheckedToken ==
  ASSUME Base, NEW r \in DOMAIN refreshes, refreshes[r].pc \in Checked
  PROVE  refreshes[r].token \in 1..Len(tokens)
  <1> USE DEF Base
  <1>1. refreshes[r].token \in Nat /\ refreshes[r].token <= Len(tokens) /\ refreshes[r].token # 0
    BY Rows DEF Refresh, Known
  <1>2. QED
    BY <1>1, Rows

\* A mark stays, whatever happens to the table.
LEMMA StaysMarked ==
  ASSUME Base, NEW r \in DOMAIN refreshes, refreshes[r].pc \in Checked, Marked(r), KeepsRows,
         refreshes'[r].token = refreshes[r].token, refreshes'[r].late = refreshes[r].late
  PROVE  Marked(r)'
  BY CheckedToken DEF Marked, KeepsRows, Stays

LEMMA RefreshOvertaken ==
  ASSUME Base, Overtaken, ResetEndsSessions,
         NEW r \in DOMAIN refreshes, RefreshHandler(r) \/ RefreshLost(r)
  PROVE  Overtaken' /\ ResetEndsSessions'
  <1> USE DEF Base
  <1> DEFINE f == refreshes[r]
             g == refreshes'[r]
  <1>1. reset' = reset /\ auth' = auth
    BY DEF RefreshHandler, VerifyRefreshToken, RefreshCheckUser, RotateRevoke, RotateIssue,
           RefreshArrives, RefreshLost, server
  <1>2. OnlyRow(r)
    BY VerifyRow, PcRow, IssueRow, LostRow
    DEF RefreshHandler, RefreshCheckUser, RotateRevoke, RefreshArrives
  <1>3. ASSUME KeepsRows, reset = "done" /\ g.pc \in Checked => Marked(r)'
        PROVE  Overtaken'
    <2>1. ASSUME NEW q \in DOMAIN refreshes, q # r, reset = "done", refreshes'[q].pc \in Checked
          PROVE  Marked(q)'
      <3>1. refreshes'[q] = refreshes[q]
        BY <1>2, <2>1 DEF OnlyRow
      <3>2. Marked(q)
        BY <2>1, <3>1 DEF Overtaken
      <3>3. QED
        BY <1>3, <2>1, <3>1, <3>2, StaysMarked
    <2>2. QED
      BY <1>1, <1>2, <1>3, <2>1 DEF Overtaken, OnlyRow
  <1>4. CASE VerifyRefreshToken(r)
    <2>1. KeepsRows /\ Len(tokens') = Len(tokens)
      BY <1>4, VerifiedRows
    <2>2. ASSUME reset = "done", g.pc \in Checked
          PROVE  Marked(r)'
      <3>1. Live(f.token)
        BY <1>4, <2>2, VerifyRow DEF Checked
      <3>2. f.token \in 1..Len(tokens)
        <4>1. f.token \in Nat /\ f.token <= Len(tokens)
          BY Rows DEF Refresh, Known
        <4>2. QED
          BY <3>1, <4>1, Rows DEF Live
      <3>3. tokens[f.token].password # 0 \/ tokens[f.token].spared
        BY <2>2, <3>1, <3>2, Rows DEF ResetEndsSessions
      <3>4. g.token = f.token
        BY <1>2 DEF OnlyRow
      <3>5. QED
        BY <2>1, <3>2, <3>3, <3>4 DEF Marked, KeepsRows, Stays
    <2>3. QED
      BY <1>1, <1>3, <2>1, <2>2, RefreshBase, EndsKept
  <1>5. CASE RefreshCheckUser(r) \/ RefreshArrives(r) \/ RefreshLost(r)
    <2>1. KeepsRows /\ Len(tokens') = Len(tokens)
      BY <1>5, UnchangedRows DEF RefreshCheckUser, RefreshArrives, RefreshLost, server
    <2>2. (g.pc \in Checked => f.pc \in Checked) /\ g.late = f.late
      BY <1>5, PcRow, LostRow DEF RefreshCheckUser, RefreshArrives, Checked, Keeps
    <2>3. reset = "done" /\ g.pc \in Checked => Marked(r)'
      BY <1>2, <2>1, <2>2, StaysMarked DEF Overtaken, OnlyRow
    <2>4. QED
      BY <1>1, <1>3, <2>1, <2>3, RefreshBase, EndsKept
  <1>6. CASE RotateRevoke(r)
    <2>1. f.token \in 1..Len(tokens) /\ f.pc \in Checked
      BY <1>6, CheckedToken DEF RotateRevoke, Checked
    <2>2. KeepsRows /\ Len(tokens') = Len(tokens)
      <3>1. f.token \in 0..Len(tokens) /\ "rotated" \in Revoked \ {"no"}
        BY <2>1, Rows DEF Revoked
      <3>2. tokens' = RevokeRefreshToken(f.token, "rotated")
        BY <1>6 DEF RotateRevoke
      <3>3. QED
        BY <3>1, <3>2, RevokedRow
    <2>3. g.late = f.late /\ g.token = f.token
      BY <1>2, <1>6, PcRow DEF RotateRevoke, Keeps, OnlyRow
    <2>4. reset = "done" => Marked(r)'
      BY <2>1, <2>2, <2>3, StaysMarked DEF Overtaken
    <2>5. QED
      BY <1>1, <1>3, <2>2, <2>4, RefreshBase, EndsKept
  <1>7. CASE RotateIssue(r)
    <2> DEFINE old == tokens[f.token]
               row == Row(old.login, old.password, old.spared \/ f.late)
    <2>1. f.token \in 1..Len(tokens) /\ f.pc \in Checked
      BY <1>7, CheckedToken DEF RotateIssue, Checked
    <2>2. old \in TokenRow /\ f \in Refresh
      BY <2>1, Rows
    <2>3. old.login \in Token /\ old.password \in 0..1
      BY <2>2 DEF TokenRow
    <2>4. (old.spared \/ f.late) \in BOOLEAN
      OBVIOUS
    <2>5. row \in TokenRow
      BY <2>3, <2>4, RowType
    <2>6. row.password = old.password /\ row.spared = (old.spared \/ f.late)
      BY DEF Row
    <2>7. tokens' = Append(tokens, row)
      BY <1>7 DEF RotateIssue
    <2>8. reset = "done" => old.password # 0 \/ old.spared \/ f.late
      BY <2>1 DEF Overtaken, Marked
    <2>9. reset = "done" => row.password # 0 \/ row.spared
      BY <2>6, <2>8
    <2> HIDE DEF row
    <2>10. KeepsRows
      BY <2>5, <2>7, InsertedRow
    <2>11. g.pc \notin Checked
      BY <1>7, IssueRow DEF Checked
    <2>12. TypeOK'
      BY RefreshBase
    <2>13. ResetEndsSessions'
      BY <1>1, <2>5, <2>7, <2>9, <2>12, EndsInserted
    <2>14. QED
      BY <1>3, <2>10, <2>11, <2>13
  <1>8. QED
    BY <1>4, <1>5, <1>6, <1>7 DEF RefreshHandler

\* Nothing of what the reset ends, and nothing it could overtake, is touched.
LEMMA CallOvertaken ==
  ASSUME Base, Overtaken, ResetEndsSessions, NEW c \in Calls, Send(c) \/ Validate(c) \/ Answer(c)
  PROVE  Overtaken' /\ ResetEndsSessions'
  <1> USE DEF Base
  <1>1. reset' = reset /\ auth' = auth /\ tokens' = tokens
    BY DEF Send, Validate, Answer, server
  <1>2. ResetEndsSessions'
    BY <1>1 DEF ResetEndsSessions, Live
  <1>3. CASE refreshes' = refreshes
    BY <1>1, <1>2, <1>3 DEF Overtaken, Marked
  <1>4. CASE StartRefresh(TabOf[c])
    <2> DEFINE new == [tab |-> TabOf[c], token |-> jar, pc |-> "verify", verified |-> FALSE,
                       made |-> 0, lost |-> FALSE, late |-> FALSE]
    <2>1. new \in Refresh
      BY Rows, Bounds DEF TypeOK, Refresh, RefreshStep
    <2>2. refreshes' = Append(refreshes, new)
      BY <1>4 DEF StartRefresh
    <2>3. new.pc \notin Checked
      BY DEF Checked
    <2> HIDE DEF new
    <2>4. \A r \in DOMAIN refreshes' :
             (r \in DOMAIN refreshes /\ refreshes'[r] = refreshes[r]) \/ refreshes'[r] = new
      BY <2>1, <2>2, Appended, Rows DEF TypeOK
    <2>5. QED
      BY <1>1, <1>2, <2>3, <2>4 DEF Overtaken, Marked
  <1>5. QED
    BY <1>3, <1>4 DEF Send, Validate, Answer, TryRefresh

LEMMA SessionOvertaken ==
  ASSUME Base, Overtaken, ResetEndsSessions, NEW b \in Tabs, SessionStep(b)
  PROVE  Overtaken' /\ ResetEndsSessions'
  <1> USE DEF Base
  <1> DEFINE a == auth[b]
  <1>1. a \in Auth /\ TypeOK'
    BY SessionBase DEF TypeOK
  <1>2. reset' = reset /\ refreshes' = refreshes /\ OnlyTab(b)
    BY DEF SessionStep, Login, ValidateCredentials, IssueSessionTokens, LoginArrives, Logout,
       LogoutRevoke, LogoutArrives, server, OnlyTab, TypeOK
  <1>3. ASSUME KeepsRows,
               reset = "done" /\ auth'[b].pc = "issue" => auth'[b].password # 0 \/ auth'[b].late
        PROVE  Overtaken'
    <2>1. ASSUME NEW r \in DOMAIN refreshes, refreshes[r].pc \in Checked, Marked(r)
          PROVE  Marked(r)'
      BY <1>2, <1>3, <2>1, StaysMarked
    <2>2. QED
      BY <1>2, <1>3, <2>1 DEF Overtaken, OnlyTab
  <1>4. CASE IssueSessionTokens(b)
    <2> DEFINE n == Len(tokens) + 1
               row == Row(n, a.password, a.late)
               e == [a EXCEPT !.pc = "login", !.token = n]
    <2>1. /\ tokens' = Append(tokens, row) /\ auth' = [auth EXCEPT ![b] = e]
          /\ Len(tokens) < MaxTokens /\ a.pc = "issue"
      BY <1>4 DEF IssueSessionTokens
    <2>2. row \in TokenRow
      <3>1. a.password \in 0..1 /\ a.late \in BOOLEAN
        BY <1>1 DEF Auth
      <3>2. n \in Token
        BY <2>1, Rows, Bounds DEF Token
      <3>3. QED
        BY <3>1, <3>2, RowType
    <2>3. row.password = a.password /\ row.spared = a.late
      BY DEF Row
    <2>4. e.pc = "login"
      BY <1>1 DEF Auth
    <2> HIDE DEF row, e
    <2>5. reset = "done" => row.password # 0 \/ row.spared
      BY <2>1, <2>3 DEF Overtaken
    <2>6. ResetEndsSessions' /\ KeepsRows
      BY <1>1, <1>2, <2>1, <2>2, <2>5, EndsInserted, InsertedRow
    <2>7. auth'[b].pc # "issue"
      BY <2>1, <2>4 DEF TypeOK
    <2>8. QED
      BY <1>3, <2>6, <2>7
  <1>5. CASE LogoutRevoke(b)
    <2>1. a.token \in 0..Len(tokens)
      BY <1>1, Rows DEF Auth, Known
    <2>2. KeepsRows /\ Len(tokens') = Len(tokens)
      BY <1>5, <2>1, RevokedRow DEF LogoutRevoke, Revoked
    <2>3. auth'[b].pc # "issue"
      BY <1>1, <1>5 DEF LogoutRevoke, TypeOK, Auth
    <2>4. QED
      BY <1>1, <1>2, <1>3, <2>2, <2>3, EndsKept
  <1>6. ASSUME tokens' = tokens,
               reset = "done" /\ auth'[b].pc = "issue" => auth'[b].password # 0 \/ auth'[b].late
        PROVE  Overtaken' /\ ResetEndsSessions'
    BY <1>1, <1>2, <1>3, <1>6, UnchangedRows, EndsKept
  <1>7. CASE ValidateCredentials(b)
    <2> DEFINE p == IF reset \in {"changed", "done"} THEN 1 ELSE 0
               e == [a EXCEPT !.pc = "issue", !.password = p]
    <2>1. (auth' = [auth EXCEPT ![b] = e] \/ auth' = [auth EXCEPT ![b] = NoAuth])
             /\ tokens' = tokens
      BY <1>7 DEF ValidateCredentials, server
    <2>2. e.password = p /\ NoAuth.pc = "none"
      BY <1>1 DEF Auth, NoAuth
    <2>3. reset = "done" => p = 1
      OBVIOUS
    <2> HIDE DEF e, p
    <2>4. auth'[b] \in {e, NoAuth}
      BY <2>1 DEF TypeOK
    <2>5. QED
      BY <1>6, <2>1, <2>2, <2>3, <2>4
  <1>8. CASE Login(b) \/ Logout(b) \/ LoginArrives(b) \/ LogoutArrives(b)
    <2>1. tokens' = tokens
      BY <1>8 DEF Login, Logout, LoginArrives, LogoutArrives, server
    <2>2. auth'[b].pc # "issue"
      <3>1. CASE Login(b)
        BY <3>1 DEF Login, NoAuth, TypeOK
      <3>2. CASE Logout(b)
        BY <3>2 DEF Logout, NoAuth, TypeOK
      <3>3. CASE LoginArrives(b) \/ LogoutArrives(b)
        BY <3>3 DEF LoginArrives, LogoutArrives, NoAuth, TypeOK
      <3>4. QED
        BY <1>8, <3>1, <3>2, <3>3
    <2>3. QED
      BY <1>6, <2>1, <2>2
  <1>9. QED
    BY <1>4, <1>5, <1>7, <1>8 DEF SessionStep

LEMMA EventOvertaken ==
  ASSUME Base, Overtaken, ResetEndsSessions, EventStep \/ UNCHANGED vars
  PROVE  Overtaken' /\ ResetEndsSessions'
  <1> USE DEF Base
  <1>1. CASE ResetRevokeAll
    <2>1. \A t \in DOMAIN tokens' : ~Live(t)'
      <3>1. tokens' = RevokeAllRefreshTokens
        BY <1>1 DEF ResetRevokeAll
      <3>2. /\ DOMAIN tokens' = 1..Len(tokens)
            /\ \A t \in 1..Len(tokens) : tokens'[t].revoked # "no"
        BY <3>1, RevokeAll, Rows, LenProperties
      <3>3. QED
        BY <3>2 DEF Live
    <2>2. ASSUME NEW r \in DOMAIN refreshes', refreshes'[r].pc \in Checked
          PROVE  refreshes'[r].late
      <3>1. refreshes[r] \in Refresh
            /\ refreshes'[r] = [refreshes[r] EXCEPT !.late = refreshes[r].pc \in Checked]
        BY <1>1, MarkedLate, Rows
      <3>2. refreshes'[r].pc = refreshes[r].pc
        BY <3>1 DEF Refresh
      <3>3. refreshes'[r].late = (refreshes[r].pc \in Checked)
        BY <3>1 DEF Refresh
      <3>4. QED
        BY <2>2, <3>2, <3>3
    <2>3. ASSUME NEW b \in Tabs, auth'[b].pc = "issue"
          PROVE  auth'[b].late
      <3>1. auth[b] \in Auth
            /\ auth'[b] = [auth[b] EXCEPT !.late = auth[b].pc = "issue"]
        BY <1>1, MarkedLate DEF TypeOK
      <3>2. auth'[b].pc = auth[b].pc
        BY <3>1 DEF Auth
      <3>3. auth'[b].late = (auth[b].pc = "issue")
        BY <3>1 DEF Auth
      <3>4. QED
        BY <2>3, <3>2, <3>3
    <2>4. QED
      BY <2>1, <2>2, <2>3 DEF Overtaken, Marked, ResetEndsSessions
  <1>2. CASE ResetCheck \/ ResetCommit
    <2>1. reset' # "done"
      BY <1>2 DEF ResetCheck, ResetCommit
    <2>2. QED
      BY <2>1 DEF Overtaken, ResetEndsSessions
  <1>3. CASE UNCHANGED <<reset, tokens, refreshes, auth>>
    BY <1>3 DEF Overtaken, ResetEndsSessions, Marked, Live
  <1>4. QED
    BY <1>1, <1>2, <1>3 DEF EventStep, SetStatus, Tick, vars, server

LEMMA OvertakenInit == Init => Overtaken /\ ResetEndsSessions
  BY DEF Init, Overtaken, ResetEndsSessions

LEMMA OvertakenKept ==
  Base /\ Overtaken /\ ResetEndsSessions /\ [Next]_vars => Overtaken' /\ ResetEndsSessions'
  BY StepOf, CallOvertaken, RefreshOvertaken, SessionOvertaken, EventOvertaken

\* resetPassword revokes the sessions after its transaction: what survives of
\* the old password was past its checks at that moment.
THEOREM ResetEnds == Spec => []ResetEndsSessions
  BY BaseInit, BaseKept, OvertakenInit, OvertakenKept, PTL DEF Spec

----------------------------------------------------------------------------
(* Rotation. A login that is not forked has one holder: a usable token, or *)
(* a refresh that has verified a token of its own and revoked, or lost, it. *)

LoginOf(r) == tokens[refreshes[r].token].login
Spare(r) == refreshes[r].pc \in Checked /\ ~Live(refreshes[r].token)

\* What a refresh knows of itself, and the login of a row is of an older row.
Verified(f) ==
    /\ f.pc \in Checked => f.verified
    /\ f.verified => f.token # 0 /\ f.pc # "verify"
Rotating ==
    /\ \A r \in DOMAIN refreshes :
          /\ Verified(refreshes[r])
          /\ refreshes[r].pc = "issue" => ~Live(refreshes[r].token)
    /\ \A t \in DOMAIN tokens : tokens[t].login <= t

OneHolder ==
    \A l :
        /\ \A t, u \in DOMAIN tokens :
              (t # u /\ Live(t) /\ Live(u) /\ tokens[t].login = l /\ tokens[u].login = l)
                  => Forked(l)
        /\ \A t \in DOMAIN tokens, r \in DOMAIN refreshes :
              (Live(t) /\ tokens[t].login = l /\ Spare(r) /\ LoginOf(r) = l) => Forked(l)
        /\ \A r, s \in DOMAIN refreshes :
              (r # s /\ Spare(r) /\ Spare(s) /\ LoginOf(r) = l /\ LoginOf(s) = l) => Forked(l)

\* How a step may move a refresh on: it checks what is usable, and goes on to
\* issue when its token is not.
MovesOn(r) ==
    /\ refreshes'[r].token = refreshes[r].token
    /\ refreshes[r].verified => refreshes'[r].verified
    /\ Verified(refreshes'[r])
    /\ refreshes'[r].pc \in Checked =>
          refreshes[r].pc \in Checked \/ Live(refreshes[r].token)'
    /\ refreshes'[r].pc = "issue" => ~Live(refreshes[r].token)'

\* The refreshes move on, and those that begin have verified nothing.
RefreshesMoveOn ==
    /\ \A r \in DOMAIN refreshes : r \in DOMAIN refreshes' /\ MovesOn(r)
    /\ \A r \in DOMAIN refreshes' :
          r \in DOMAIN refreshes \/ (refreshes'[r].pc = "verify" /\ ~refreshes'[r].verified)

LEMMA TokenInTable ==
  ASSUME Base, NEW r \in DOMAIN refreshes, refreshes[r].token # 0
  PROVE  refreshes[r].token \in 1..Len(tokens)
  <1> USE DEF Base
  <1>1. refreshes[r].token \in Nat /\ refreshes[r].token <= Len(tokens)
    BY Rows DEF Refresh, Known
  <1>2. QED
    BY <1>1, Rows

ForksStay == \A l : Forked(l) => Forked(l)'

\* A fork stays: what was verified stays so, and rows keep their login.
LEMMA ForkStays ==
  ASSUME Base, Rotating, KeepsRows, NEW l, Forked(l),
         \A r \in DOMAIN refreshes :
            /\ r \in DOMAIN refreshes'
            /\ refreshes'[r].token = refreshes[r].token
            /\ refreshes[r].verified => refreshes'[r].verified
  PROVE  Forked(l)'
  <1>1. PICK r, s \in DOMAIN refreshes :
           /\ r # s
           /\ refreshes[r].verified /\ refreshes[s].verified
           /\ refreshes[r].token = refreshes[s].token
           /\ tokens[refreshes[r].token].login = l
    BY DEF Forked
  <1>2. refreshes[r].token \in 1..Len(tokens)
    BY <1>1, TokenInTable DEF Rotating, Verified
  <1>3. tokens'[refreshes[r].token].login = l
    BY <1>1, <1>2 DEF KeepsRows, Stays
  <1>4. QED
    BY <1>1, <1>3 DEF Forked

\* Where no row is inserted, a holder after the step was one before it, or
\* verified the token that stopped being one.
LEMMA HoldersStay ==
  ASSUME Base, TypeOK', Rotating, OneHolder, KeepsRows, Len(tokens') = Len(tokens),
         RefreshesMoveOn
  PROVE  Rotating' /\ OneHolder' /\ ForksStay
  <1> USE DEF Base
  <1>0. DOMAIN tokens = 1..Len(tokens) /\ DOMAIN tokens' = 1..Len(tokens)
    BY Rows, LenProperties DEF TypeOK
  <1>1. \A l : Forked(l) => Forked(l)'
    BY ForkStays DEF RefreshesMoveOn, MovesOn
  <1>2. \A t : Live(t)' /\ t \in 1..Len(tokens) => Live(t)
    BY DEF Live, KeepsRows, Stays
  <1>3. ASSUME NEW r \in DOMAIN refreshes', refreshes'[r].pc \in Checked
        PROVE  /\ r \in DOMAIN refreshes /\ refreshes'[r].verified
               /\ refreshes'[r].token = refreshes[r].token
               /\ refreshes[r].token \in 1..Len(tokens)
               /\ LoginOf(r)' = LoginOf(r)
               /\ Spare(r)' => Spare(r) \/ (Live(refreshes[r].token) /\ refreshes[r].verified)
    <2>1. r \in DOMAIN refreshes /\ MovesOn(r)
      BY <1>3 DEF RefreshesMoveOn, Checked
    <2>2. refreshes'[r].verified /\ refreshes[r].token # 0
      BY <1>3, <2>1 DEF MovesOn, Verified
    <2>3. refreshes[r].token \in 1..Len(tokens)
      BY <2>1, <2>2, TokenInTable
    <2>4. LoginOf(r)' = LoginOf(r)
      BY <2>1, <2>3 DEF LoginOf, MovesOn, KeepsRows, Stays
    <2>5. ASSUME Spare(r)'
          PROVE  Spare(r) \/ (Live(refreshes[r].token) /\ refreshes[r].verified)
      BY <2>1, <2>5 DEF Spare, MovesOn, Rotating, Verified
    <2>6. QED
      BY <2>1, <2>2, <2>3, <2>4, <2>5 DEF MovesOn
  <1>4. Rotating'
    <2>1. ASSUME NEW r \in DOMAIN refreshes'
          PROVE  /\ Verified(refreshes'[r])
                 /\ refreshes'[r].pc = "issue" => ~Live(refreshes[r].token)'
      BY DEF RefreshesMoveOn, MovesOn, Verified, Checked
    <2>2. \A t \in 1..Len(tokens) : tokens'[t].login <= t
      BY <1>0 DEF Rotating, KeepsRows, Stays
    <2>3. QED
      BY <1>0, <2>1, <2>2 DEF Rotating
  <1>5. ASSUME NEW l, NEW t \in 1..Len(tokens), NEW u \in 1..Len(tokens), t # u,
               Live(t)', Live(u)', tokens'[t].login = l, tokens'[u].login = l
        PROVE  Forked(l)'
    <2>1. tokens[t].login = l /\ tokens[u].login = l
      BY <1>5 DEF KeepsRows, Stays
    <2>2. Forked(l)
      BY <1>0, <1>2, <1>5, <2>1 DEF OneHolder
    <2>3. QED
      BY <1>1, <2>2
  <1>6. ASSUME NEW l, NEW t \in 1..Len(tokens), NEW r \in DOMAIN refreshes', Live(t)',
               tokens'[t].login = l, Spare(r)', LoginOf(r)' = l
        PROVE  Forked(l)'
    <2> DEFINE v == refreshes[r].token
    <2>1. /\ r \in DOMAIN refreshes /\ refreshes'[r].token = v /\ v \in 1..Len(tokens)
          /\ LoginOf(r) = l /\ tokens[v].login = l /\ (Spare(r) \/ Live(v))
      BY <1>3, <1>6 DEF Spare, LoginOf
    <2>2. tokens[t].login = l /\ Live(t)
      BY <1>2, <1>6 DEF KeepsRows, Stays
    <2>3. t # v
      BY <1>6, <2>1 DEF Spare
    <2>4. Forked(l)
      BY <1>0, <2>1, <2>2, <2>3 DEF OneHolder
    <2>5. QED
      BY <1>1, <2>4
  <1>7. ASSUME NEW l, NEW r \in DOMAIN refreshes', NEW s \in DOMAIN refreshes', r # s,
               Spare(r)', Spare(s)', LoginOf(r)' = l, LoginOf(s)' = l
        PROVE  Forked(l)'
    <2> SUFFICES Forked(l)
      BY <1>1
    <2> DEFINE v == refreshes[r].token
               w == refreshes[s].token
    <2>1. /\ r \in DOMAIN refreshes /\ v \in 1..Len(tokens)
          /\ LoginOf(r) = l /\ tokens[v].login = l
          /\ Spare(r) \/ (Live(v) /\ refreshes[r].verified)
      BY <1>3, <1>7 DEF Spare, LoginOf
    <2>2. /\ s \in DOMAIN refreshes /\ w \in 1..Len(tokens)
          /\ LoginOf(s) = l /\ tokens[w].login = l
          /\ Spare(s) \/ (Live(w) /\ refreshes[s].verified)
      BY <1>3, <1>7 DEF Spare, LoginOf
    <2>3. CASE Spare(r) /\ Spare(s)
      BY <1>7, <2>1, <2>2, <2>3 DEF OneHolder
    <2>4. CASE Spare(r) /\ Live(w)
      BY <1>0, <2>1, <2>2, <2>4 DEF OneHolder
    <2>5. CASE Spare(s) /\ Live(v)
      BY <1>0, <2>1, <2>2, <2>5 DEF OneHolder
    <2>6. CASE Live(v) /\ Live(w) /\ v # w
      BY <1>0, <2>1, <2>2, <2>6 DEF OneHolder
    <2>7. CASE refreshes[r].verified /\ refreshes[s].verified /\ v = w
      BY <1>7, <2>1, <2>2, <2>7 DEF Forked
    <2>8. QED
      BY <2>1, <2>2, <2>3, <2>4, <2>5, <2>6, <2>7
  <1>8. QED
    BY <1>0, <1>1, <1>4, <1>5, <1>6, <1>7 DEF OneHolder, ForksStay

\* A new row joins the holders of its login; it must find none that remains.
LEMMA HolderInserted ==
  ASSUME Base, TypeOK', Rotating, OneHolder, RefreshesMoveOn,
         NEW e, e \in TokenRow, tokens' = Append(tokens, e), e.login <= Len(tokens) + 1,
         \A t \in 1..Len(tokens) : Live(t) /\ tokens[t].login = e.login => Forked(e.login),
         \A r \in DOMAIN refreshes : Spare(r)' /\ LoginOf(r) = e.login => Forked(e.login)
  PROVE  Rotating' /\ OneHolder' /\ ForksStay
  <1> USE DEF Base
  <1> DEFINE n == Len(tokens) + 1
  <1>0. /\ Len(tokens) \in Nat /\ DOMAIN tokens = 1..Len(tokens) /\ DOMAIN tokens' = 1..n
        /\ \A t \in 1..Len(tokens) : tokens'[t] = tokens[t]
        /\ tokens'[n] = e /\ KeepsRows
    BY Rows, Appended, InsertedRow, LenProperties DEF TypeOK
  <1>1. \A l : Forked(l) => Forked(l)'
    BY <1>0, ForkStays DEF RefreshesMoveOn, MovesOn
  <1>2. \A t \in 1..n : t # n => t \in 1..Len(tokens) /\ (Live(t)' <=> Live(t))
    BY <1>0 DEF Live
  <1>3. ASSUME NEW r \in DOMAIN refreshes', Spare(r)'
        PROVE  r \in DOMAIN refreshes /\ Spare(r) /\ LoginOf(r)' = LoginOf(r)
    <2>1. r \in DOMAIN refreshes /\ MovesOn(r)
      BY <1>3 DEF Spare, RefreshesMoveOn, Checked
    <2>2. refreshes[r].token # 0 /\ refreshes[r].pc \in Checked
      BY <1>3, <2>1 DEF Spare, MovesOn, Verified
    <2>3. refreshes[r].token \in 1..Len(tokens) /\ refreshes'[r].token = refreshes[r].token
      BY <2>1, <2>2, TokenInTable DEF MovesOn
    <2>4. tokens'[refreshes'[r].token] = tokens[refreshes[r].token]
      BY <1>0, <2>3
    <2>5. ~Live(refreshes[r].token) /\ LoginOf(r)' = LoginOf(r)
      BY <1>3, <2>3, <2>4 DEF Spare, Live, LoginOf
    <2>6. QED
      BY <2>1, <2>2, <2>5 DEF Spare
  <1>4. Rotating'
    <2>1. ASSUME NEW r \in DOMAIN refreshes'
          PROVE  /\ Verified(refreshes'[r])
                 /\ refreshes'[r].pc = "issue" => ~Live(refreshes[r].token)'
      BY DEF RefreshesMoveOn, MovesOn, Verified, Checked
    <2>2. \A t \in 1..n : tokens'[t].login <= t
      BY <1>0 DEF Rotating
    <2>3. QED
      BY <1>0, <2>1, <2>2 DEF Rotating
  <1> HIDE DEF n
  <1>5. ASSUME NEW l, NEW t \in 1..n, NEW u \in 1..n, t # u, Live(t)', Live(u)',
               tokens'[t].login = l, tokens'[u].login = l
        PROVE  Forked(l)'
    <2> SUFFICES Forked(l)
      BY <1>1
    <2>1. CASE t # n /\ u # n
      BY <1>0, <1>2, <1>5, <2>1 DEF OneHolder
    <2>2. CASE t = n
      BY <1>0, <1>2, <1>5, <2>2
    <2>3. CASE u = n
      BY <1>0, <1>2, <1>5, <2>3
    <2>4. QED
      BY <2>1, <2>2, <2>3
  <1>6. ASSUME NEW l, NEW t \in 1..n, NEW r \in DOMAIN refreshes', Live(t)',
               tokens'[t].login = l, Spare(r)', LoginOf(r)' = l
        PROVE  Forked(l)'
    <2> SUFFICES Forked(l)
      BY <1>1
    <2>1. r \in DOMAIN refreshes /\ Spare(r) /\ LoginOf(r) = l
      BY <1>3, <1>6
    <2>2. CASE t # n
      BY <1>0, <1>2, <1>6, <2>1, <2>2 DEF OneHolder
    <2>3. CASE t = n
      BY <1>0, <1>6, <2>1, <2>3
    <2>4. QED
      BY <2>2, <2>3
  <1>7. ASSUME NEW l, NEW r \in DOMAIN refreshes', NEW s \in DOMAIN refreshes', r # s,
               Spare(r)', Spare(s)', LoginOf(r)' = l, LoginOf(s)' = l
        PROVE  Forked(l)'
    <2>1. Forked(l)
      BY <1>3, <1>7 DEF OneHolder
    <2>2. QED
      BY <1>1, <2>1
  <1>8. QED
    BY <1>0, <1>1, <1>4, <1>5, <1>6, <1>7 DEF OneHolder, ForksStay

\* A refresh a step leaves as it was.
LEMMA StaysPut ==
  ASSUME Base, Rotating, KeepsRows, NEW r \in DOMAIN refreshes,
         refreshes'[r].pc = refreshes[r].pc, refreshes'[r].token = refreshes[r].token,
         refreshes'[r].verified = refreshes[r].verified
  PROVE  MovesOn(r)
  <1>1. Verified(refreshes[r]) /\ Verified(refreshes'[r])
    BY DEF Rotating, Verified
  <1>2. ASSUME refreshes[r].pc = "issue"
        PROVE  ~Live(refreshes[r].token)'
    <2>1. ~Live(refreshes[r].token) /\ refreshes[r].token \in 1..Len(tokens)
      BY <1>2, CheckedToken DEF Rotating, Checked
    <2>2. QED
      BY <2>1 DEF Live, KeepsRows, Stays
  <1>3. QED
    BY <1>1, <1>2 DEF MovesOn

LEMMA AloneMovesOn ==
  ASSUME Base, Rotating, KeepsRows, NEW r \in DOMAIN refreshes, OnlyRow(r), MovesOn(r)
  PROVE  RefreshesMoveOn
  BY StaysPut DEF OnlyRow, RefreshesMoveOn

LEMMA RefreshHolders ==
  ASSUME Base, Rotating, OneHolder,
         NEW r \in DOMAIN refreshes, RefreshHandler(r) \/ RefreshLost(r)
  PROVE  Rotating' /\ OneHolder' /\ ForksStay
  <1> USE DEF Base
  <1> DEFINE f == refreshes[r]
             g == refreshes'[r]
  <1>0. TypeOK' /\ f \in Refresh /\ Verified(f)
    BY RefreshBase, Rows DEF Rotating
  <1>1. CASE VerifyRefreshToken(r)
    <2>1. KeepsRows /\ Len(tokens') = Len(tokens) /\ OnlyRow(r)
      BY <1>1, VerifiedRows, VerifyRow
    <2>2. Verified(g) /\ g.pc # "issue"
      BY <1>1, VerifyRow DEF Verified, Checked, Live, OnlyRow
    <2>3. ~f.verified
      BY <1>0, <1>1 DEF VerifyRefreshToken, Verified
    <2>4. ASSUME g.pc \in Checked
          PROVE  Live(f.token)'
      <3>1. g.pc = "checkUser" /\ Live(f.token) /\ g.token = f.token
        BY <1>1, <2>4, VerifyRow DEF Checked, OnlyRow
      <3>2. tokens' = tokens
        <4> DEFINE usable == Live(f.token) /\ now - tokens[f.token].at <= RefreshTtl
                   inactive == usable /\ now - tokens[f.token].lastUsedAt > Inactivity
                   e == [f EXCEPT !.pc = IF usable /\ ~inactive THEN "checkUser" ELSE "refused",
                                  !.verified = usable /\ ~inactive]
        <4>1. refreshes' = [refreshes EXCEPT ![r] = e] /\ (inactive \/ tokens' = tokens)
          BY <1>1 DEF VerifyRefreshToken
        <4>2. inactive => e.pc = "refused"
          BY <1>0 DEF Refresh
        <4> HIDE DEF e, inactive
        <4>3. g = e
          BY <4>1, Rows
        <4>4. QED
          BY <3>1, <4>1, <4>2, <4>3
      <3>3. QED
        BY <3>1, <3>2 DEF Live
    <2>5. MovesOn(r)
      BY <2>1, <2>2, <2>3, <2>4 DEF MovesOn, OnlyRow
    <2>6. QED
      BY <1>0, <2>1, <2>5, AloneMovesOn, HoldersStay
  <1>2. CASE RefreshCheckUser(r) \/ RefreshArrives(r)
    <2>1. KeepsRows /\ Len(tokens') = Len(tokens)
      BY <1>2, UnchangedRows DEF RefreshCheckUser, RefreshArrives, server
    <2>2. /\ OnlyRow(r) /\ g.verified = f.verified
          /\ g.pc \in {"revoke", "refused", "over"}
          /\ g.pc \in Checked => f.pc \in Checked
          /\ f.pc # "verify"
      BY <1>2, PcRow DEF RefreshCheckUser, RefreshArrives, Keeps, Checked
    <2>3. MovesOn(r)
      BY <1>0, <2>2 DEF MovesOn, OnlyRow, Verified
    <2>4. QED
      BY <1>0, <2>1, <2>2, <2>3, AloneMovesOn, HoldersStay
  <1>3. CASE RefreshLost(r)
    <2>1. KeepsRows /\ Len(tokens') = Len(tokens)
      BY <1>3, UnchangedRows DEF RefreshLost, server
    <2>2. OnlyRow(r) /\ MovesOn(r)
      BY <1>3, <2>1, LostRow, StaysPut DEF OnlyRow
    <2>3. QED
      BY <1>0, <2>1, <2>2, AloneMovesOn, HoldersStay
  <1>4. CASE RotateRevoke(r)
    <2>1. f.token \in 1..Len(tokens) /\ f.pc \in Checked
      BY <1>4, CheckedToken DEF RotateRevoke, Checked
    <2>2. "rotated" \in Revoked \ {"no"} /\ f.token \in 0..Len(tokens)
      BY <2>1, Rows DEF Revoked
    <2>3. tokens' = RevokeRefreshToken(f.token, "rotated")
      BY <1>4 DEF RotateRevoke
    <2>4. KeepsRows /\ Len(tokens') = Len(tokens)
      BY <2>2, <2>3, RevokedRow
    <2>5. OnlyRow(r) /\ g.verified = f.verified /\ g.pc = "issue"
      BY <1>4, PcRow DEF RotateRevoke, Keeps
    <2>6. tokens'[f.token].revoked # "no"
      <3>1. CASE Live(f.token)
        <4>1. tokens' = [tokens EXCEPT ![f.token].revoked = "rotated"]
          BY <2>3, <3>1 DEF RevokeRefreshToken
        <4>2. tokens[f.token] \in TokenRow
          BY <2>1, Rows
        <4>3. QED
          BY <2>1, <4>1, <4>2, Rows DEF TokenRow
      <3>2. CASE ~Live(f.token)
        BY <2>1, <2>3, <3>2 DEF RevokeRefreshToken, Live
      <3>3. QED
        BY <3>1, <3>2
    <2>7. ~Live(f.token)'
      BY <2>5, <2>6 DEF Live, OnlyRow
    <2>8. MovesOn(r)
      BY <1>0, <2>1, <2>5, <2>7 DEF MovesOn, OnlyRow, Verified
    <2>9. QED
      BY <1>0, <2>4, <2>5, <2>8, AloneMovesOn, HoldersStay
  <1>5. CASE RotateIssue(r)
    <2> DEFINE old == tokens[f.token]
               row == Row(old.login, old.password, old.spared \/ f.late)
    <2>1. f.token \in 1..Len(tokens) /\ f.pc = "issue"
      BY <1>5, CheckedToken DEF RotateIssue, Checked
    <2>2. old \in TokenRow /\ Len(tokens) \in Nat
      BY <2>1, Rows
    <2>3. old.login \in Token /\ old.password \in 0..1 /\ (old.spared \/ f.late) \in BOOLEAN
      BY <2>2 DEF TokenRow
    <2>4. row \in TokenRow
      BY <2>3, RowType
    <2>5. row.login = old.login
      BY DEF Row
    <2>6. tokens' = Append(tokens, row)
      BY <1>5 DEF RotateIssue
    <2> HIDE DEF row
    <2>7. KeepsRows
      BY <2>4, <2>6, InsertedRow
    <2>8. OnlyRow(r) /\ g.verified = f.verified /\ g.pc = "granted"
      BY <1>5, IssueRow
    <2>9. MovesOn(r)
      BY <1>0, <2>8 DEF MovesOn, OnlyRow, Verified, Checked, RotateIssue
    <2>10. RefreshesMoveOn
      BY <2>7, <2>8, <2>9, AloneMovesOn
    <2>11. row.login <= Len(tokens) + 1
      <3>1. old.login <= f.token
        BY <2>1, Rows DEF Rotating
      <3>2. QED
        BY <2>1, <2>2, <2>3, <2>5, <3>1 DEF Token
    <2>12. Spare(r) /\ LoginOf(r) = row.login
      BY <2>1, <2>5 DEF Spare, Checked, Rotating, LoginOf
    <2>13. \A t \in 1..Len(tokens) :
              Live(t) /\ tokens[t].login = row.login => Forked(row.login)
      BY <2>12, Rows DEF OneHolder
    <2>14. ASSUME NEW s \in DOMAIN refreshes, Spare(s)', LoginOf(s) = row.login
           PROVE  Forked(row.login)
      <3>1. s # r /\ refreshes'[s] = refreshes[s]
        BY <2>8, <2>14 DEF Spare, Checked, OnlyRow
      <3>2. refreshes[s].pc \in Checked /\ ~Live(refreshes[s].token)'
        BY <2>14, <3>1 DEF Spare
      <3>3. refreshes[s].token \in 1..Len(tokens)
        BY <3>2, CheckedToken
      <3>4. ~Live(refreshes[s].token)
        BY <2>4, <2>6, <3>1, <3>2, <3>3, Appended DEF Live, TypeOK
      <3>5. QED
        BY <2>12, <2>14, <3>1, <3>2, <3>4 DEF Spare, OneHolder
    <2>15. QED
      BY <1>0, <2>4, <2>6, <2>10, <2>11, <2>13, <2>14, HolderInserted
  <1>6. QED
    BY <1>1, <1>2, <1>3, <1>4, <1>5 DEF RefreshHandler

LEMMA CallHolders ==
  ASSUME Base, Rotating, OneHolder, NEW c \in Calls, Send(c) \/ Validate(c) \/ Answer(c)
  PROVE  Rotating' /\ OneHolder' /\ ForksStay
  <1> USE DEF Base
  <1>1. TypeOK' /\ KeepsRows /\ Len(tokens') = Len(tokens)
    BY CallBase, UnchangedRows DEF Send, Validate, Answer, server
  <1>2. CASE refreshes' = refreshes
    BY <1>1, <1>2, StaysPut, HoldersStay DEF RefreshesMoveOn
  <1>3. CASE StartRefresh(TabOf[c])
    <2> DEFINE new == [tab |-> TabOf[c], token |-> jar, pc |-> "verify", verified |-> FALSE,
                       made |-> 0, lost |-> FALSE, late |-> FALSE]
    <2>1. new \in Refresh
      BY Rows, Bounds DEF TypeOK, Refresh, RefreshStep
    <2>2. refreshes' = Append(refreshes, new)
      BY <1>3 DEF StartRefresh
    <2>3. new.pc = "verify" /\ ~new.verified
      OBVIOUS
    <2> HIDE DEF new
    <2>4. /\ \A r \in DOMAIN refreshes' : r \in DOMAIN refreshes \/ refreshes'[r] = new
          /\ \A r \in DOMAIN refreshes : r \in DOMAIN refreshes' /\ refreshes'[r] = refreshes[r]
      BY <2>1, <2>2, Appended, Rows DEF TypeOK
    <2>5. RefreshesMoveOn
      BY <1>1, <2>3, <2>4, StaysPut DEF RefreshesMoveOn
    <2>6. QED
      BY <1>1, <2>5, HoldersStay
  <1>4. QED
    BY <1>2, <1>3 DEF Send, Validate, Answer, TryRefresh

LEMMA SessionHolders ==
  ASSUME Base, Rotating, OneHolder, NEW b \in Tabs, SessionStep(b)
  PROVE  Rotating' /\ OneHolder' /\ ForksStay
  <1> USE DEF Base
  <1>1. TypeOK' /\ refreshes' = refreshes
    BY SessionBase DEF SessionStep, Login, ValidateCredentials, IssueSessionTokens, LoginArrives,
       Logout, LogoutRevoke, LogoutArrives
  <1>2. ASSUME KeepsRows
        PROVE  RefreshesMoveOn
    BY <1>1, <1>2, StaysPut DEF RefreshesMoveOn
  <1>3. CASE IssueSessionTokens(b)
    <2> DEFINE n == Len(tokens) + 1
               row == Row(n, auth[b].password, auth[b].late)
    <2>1. tokens' = Append(tokens, row) /\ Len(tokens) < MaxTokens /\ Len(tokens) \in Nat
      BY <1>3, Rows DEF IssueSessionTokens
    <2>2. row \in TokenRow
      <3>1. auth[b].password \in 0..1 /\ auth[b].late \in BOOLEAN
        BY DEF TypeOK, Auth
      <3>2. n \in Token
        BY <2>1, Bounds DEF Token
      <3>3. QED
        BY <3>1, <3>2, RowType
    <2>3. row.login = n
      BY DEF Row
    <2> HIDE DEF row
    <2>4. \A t \in 1..Len(tokens) : tokens[t].login # n
      <3>1. \A t \in 1..Len(tokens) : tokens[t].login \in Nat /\ tokens[t].login <= t
        BY Rows DEF Rotating, TokenRow, Token
      <3>2. QED
        BY <2>1, <3>1
    <2>5. ASSUME NEW r \in DOMAIN refreshes, Spare(r)'
          PROVE  LoginOf(r) # n
      <3>1. refreshes[r].pc \in Checked
        BY <1>1, <2>5 DEF Spare
      <3>2. QED
        BY <2>4, <3>1, CheckedToken DEF LoginOf
    <2>6. row.login <= Len(tokens) + 1 /\ KeepsRows
      BY <2>1, <2>2, <2>3, InsertedRow
    <2>7. \A t \in 1..Len(tokens) :
             Live(t) /\ tokens[t].login = row.login => Forked(row.login)
      BY <2>3, <2>4
    <2>8. \A r \in DOMAIN refreshes : Spare(r)' /\ LoginOf(r) = row.login => Forked(row.login)
      BY <2>3, <2>5
    <2>9. QED
      BY <1>1, <1>2, <2>1, <2>2, <2>6, <2>7, <2>8, HolderInserted
  <1>4. CASE LogoutRevoke(b)
    <2>1. auth[b].token \in 0..Len(tokens)
      <3>1. auth[b].token \in Nat /\ auth[b].token <= Len(tokens)
        BY DEF TypeOK, Auth, Known
      <3>2. QED
        BY <3>1, Rows
    <2>2. KeepsRows /\ Len(tokens') = Len(tokens)
      BY <1>4, <2>1, RevokedRow DEF LogoutRevoke, Revoked
    <2>3. QED
      BY <1>1, <1>2, <2>2, HoldersStay
  <1>5. CASE tokens' = tokens
    BY <1>1, <1>2, <1>5, UnchangedRows, HoldersStay
  <1>6. QED
    BY <1>3, <1>4, <1>5 DEF SessionStep, Login, ValidateCredentials, LoginArrives, Logout,
       LogoutArrives, server

\* RevokeAllRefreshTokens as it bears on the rows.
LEMMA AllRevoked ==
  ASSUME TypeOK, ResetRevokeAll
  PROVE  KeepsRows /\ Len(tokens') = Len(tokens)
  <1>1. tokens' = RevokeAllRefreshTokens /\ "reset" \in Revoked \ {"no"}
    BY DEF ResetRevokeAll, Revoked
  <1>2. /\ Len(tokens') = Len(tokens)
        /\ \A i \in 1..Len(tokens) :
              tokens'[i] = tokens[i] \/ tokens'[i] = [tokens[i] EXCEPT !.revoked = "reset"]
    BY <1>1, RevokeAll
  <1>3. QED
    BY <1>1, <1>2, OneRowOlder

LEMMA EventHolders ==
  ASSUME Base, Rotating, OneHolder, EventStep \/ UNCHANGED vars
  PROVE  Rotating' /\ OneHolder' /\ ForksStay
  <1> USE DEF Base
  <1>1. KeepsRows /\ Len(tokens') = Len(tokens)
    <2>1. CASE ResetRevokeAll
      BY <2>1, AllRevoked
    <2>2. CASE ~ResetRevokeAll
      <3>1. tokens' = tokens
        BY <2>2 DEF EventStep, ResetCheck, ResetCommit, SetStatus, Tick, vars, server
      <3>2. QED
        BY <3>1, UnchangedRows
    <2>3. QED
      BY <2>1, <2>2
  <1>2. TypeOK'
    BY EventBase, BaseKept
  <1>3. RefreshesMoveOn
    BY <1>1, OthersAge, StaysPut DEF Ages, RefreshesMoveOn
  <1>4. QED
    BY <1>1, <1>2, <1>3, HoldersStay

LEMMA HoldersInit == Init => Rotating /\ OneHolder
  BY DEF Init, Rotating, OneHolder, Row

LEMMA HoldersKept ==
  Base /\ Rotating /\ OneHolder /\ [Next]_vars => Rotating' /\ OneHolder' /\ ForksStay
  BY StepOf, CallHolders, RefreshHolders, SessionHolders, EventHolders

LEMMA AlwaysHeld == Spec => [](Base /\ Rotating /\ OneHolder)
  BY BaseInit, BaseKept, HoldersInit, HoldersKept, PTL DEF Spec

\* rotateRefreshToken: one login has two usable refresh tokens only if two
\* refreshes verified the same one, whatever is revoked, lost or reset meanwhile.
THEOREM RotatedInLine == Spec => []RotationLinear
  <1>1. OneHolder => RotationLinear
    BY DEF OneHolder, RotationLinear
  <1>2. QED
    BY <1>1, AlwaysHeld, PTL

----------------------------------------------------------------------------
(* Inactivity. Of a login that is not forked the usable token is the newest, *)
(* and no access token of it outlives its row by more than its lifetime.   *)

Stamps == \A t \in DOMAIN tokens :
              tokens[t].at <= now /\ tokens[t].lastUsedAt = tokens[t].at
Newest ==
    \A l : \A t, u \in DOMAIN tokens :
        (Live(t) /\ tokens[t].login = l /\ tokens[u].login = l)
            => tokens[u].at <= tokens[t].at \/ Forked(l)
Held == \A c \in Calls : calls[c].access <= Len(tokens)
ServedBy(t) ==
    \E u \in DOMAIN tokens : /\ tokens[u].login = tokens[t].login
                             /\ served[tokens[t].login] < tokens[u].at + AccessTtl
Served == \A t \in DOMAIN tokens : ServedBy(t)
Dated == Stamps /\ Newest /\ Held /\ Served

\* No row is newly revoked as inactive.
NoneIdle ==
    \A t \in 1..Len(tokens) :
        tokens'[t].revoked = "inactive" =>
            tokens[t].revoked = "inactive" /\ tokens'[t].idle = tokens[t].idle

LEMMA Dates ==
  ASSUME TypeOK
  PROVE  /\ DOMAIN tokens = 1..Len(tokens) /\ Len(tokens) \in Nat /\ now \in Nat
         /\ AccessTtl \in Nat \ {0} /\ Inactivity \in Nat
         /\ \A t \in 1..Len(tokens) :
               /\ tokens[t].at \in Nat /\ tokens[t].idle \in Nat
               /\ tokens[t].login \in Token /\ tokens[t].login \in Nat
               /\ served[tokens[t].login] \in Nat
  <1>1. AccessTtl \in Nat \ {0} /\ Inactivity \in Nat
    BY SessionAssumption
  <1>2. ASSUME NEW t \in 1..Len(tokens)
        PROVE  /\ tokens[t].at \in Nat /\ tokens[t].idle \in Nat
               /\ tokens[t].login \in Token /\ tokens[t].login \in Nat
               /\ served[tokens[t].login] \in Nat
    <2>1. /\ tokens[t].at \in 0..MaxTime /\ tokens[t].idle \in 0..MaxTime
          /\ tokens[t].login \in Token
      BY Rows DEF TokenRow
    <2>2. served[tokens[t].login] \in 0..MaxTime
      BY <2>1 DEF TypeOK
    <2>3. QED
      BY <2>1, <2>2 DEF Token
  <1>3. now \in Nat
    BY DEF TypeOK
  <1>4. QED
    BY <1>1, <1>2, <1>3, Rows

\* Time passes, and rows are revoked.
LEMMA RowsAge ==
  ASSUME TypeOK, TypeOK', KeepsRows, Len(tokens') = Len(tokens), ForksStay, now <= now',
         Stamps, Newest
  PROVE  Stamps' /\ Newest'
  <1>0. /\ DOMAIN tokens = 1..Len(tokens) /\ DOMAIN tokens' = 1..Len(tokens)
        /\ now \in Nat /\ now' \in Nat
    BY Dates, LenProperties DEF TypeOK
  <1>1. \A t \in 1..Len(tokens) :
           /\ tokens'[t].at = tokens[t].at /\ tokens'[t].lastUsedAt = tokens[t].lastUsedAt
           /\ tokens'[t].login = tokens[t].login /\ (Live(t)' => Live(t))
    BY DEF KeepsRows, Stays, Live
  <1>2. Stamps'
    <2>1. \A t \in 1..Len(tokens) : tokens[t].at \in Nat
      BY Dates
    <2>2. \A t \in 1..Len(tokens) : tokens[t].at <= now'
      BY <1>0, <2>1 DEF Stamps
    <2>3. QED
      BY <1>0, <1>1, <2>2 DEF Stamps
  <1>3. Newest'
    BY <1>0, <1>1 DEF Newest, ForksStay
  <1>4. QED
    BY <1>2, <1>3

LEMMA ServedAge ==
  ASSUME TypeOK, TypeOK', KeepsRows, Len(tokens') = Len(tokens), served' = served, Served
  PROVE  Served'
  <1>0. DOMAIN tokens = 1..Len(tokens) /\ DOMAIN tokens' = 1..Len(tokens)
    BY Dates, LenProperties DEF TypeOK
  <1>1. \A t \in 1..Len(tokens) :
           tokens'[t].at = tokens[t].at /\ tokens'[t].login = tokens[t].login
    BY DEF KeepsRows, Stays
  <1>2. QED
    BY <1>0, <1>1 DEF Served, ServedBy

LEMMA IdleAge ==
  ASSUME TypeOK, TypeOK', KeepsRows, Len(tokens') = Len(tokens), ForksStay, NoneIdle,
         InactiveMeansIdle
  PROVE  InactiveMeansIdle'
  <1>0. DOMAIN tokens = 1..Len(tokens) /\ DOMAIN tokens' = 1..Len(tokens)
    BY Dates, LenProperties DEF TypeOK
  <1> SUFFICES ASSUME NEW t \in 1..Len(tokens), tokens'[t].revoked = "inactive"
               PROVE  tokens'[t].idle > Inactivity - AccessTtl \/ Forked(tokens[t].login)'
    BY <1>0 DEF InactiveMeansIdle
  <1>1. tokens[t].revoked = "inactive" /\ tokens'[t].idle = tokens[t].idle
    BY DEF NoneIdle
  <1>2. tokens[t].idle > Inactivity - AccessTtl \/ Forked(tokens[t].login)
    BY <1>0, <1>1 DEF InactiveMeansIdle
  <1>3. PICK l : l = tokens[t].login
    OBVIOUS
  <1>4. tokens'[t].login = l
    BY <1>3 DEF KeepsRows, Stays
  <1>5. CASE Forked(l)
    <2>1. Forked(l)'
      BY <1>5 DEF ForksStay
    <2>2. QED
      BY <1>4, <2>1 DEF Forked
  <1>6. QED
    BY <1>1, <1>2, <1>3, <1>5

\* A row inserted now is the newest of its login.
LEMMA RowAdded ==
  ASSUME TypeOK, TypeOK', ForksStay, now' = now,
         NEW e, e \in TokenRow, tokens' = Append(tokens, e),
         e.revoked = "no", e.at = now, e.lastUsedAt = now,
         \A t \in 1..Len(tokens) : Live(t) /\ tokens[t].login = e.login => Forked(e.login),
         Stamps, Newest, InactiveMeansIdle
  PROVE  Stamps' /\ Newest' /\ InactiveMeansIdle'
  <1> DEFINE n == Len(tokens) + 1
  <1>0. /\ Len(tokens) \in Nat /\ DOMAIN tokens = 1..Len(tokens) /\ DOMAIN tokens' = 1..n
        /\ \A t \in 1..Len(tokens) : tokens'[t] = tokens[t]
        /\ tokens'[n] = e /\ KeepsRows
    BY Rows, Appended, InsertedRow, LenProperties DEF TypeOK
  <1>1. \A t \in 1..n : t # n => t \in 1..Len(tokens) /\ (Live(t)' <=> Live(t))
    BY <1>0 DEF Live
  <1>2. NoneIdle
    BY <1>0 DEF NoneIdle
  <1>3. now \in Nat /\ \A t \in 1..Len(tokens) : tokens[t].at \in Nat
    BY Dates
  <1> HIDE DEF n
  <1>4. Stamps'
    <2>1. ASSUME NEW t \in 1..n
          PROVE  tokens'[t].at <= now /\ tokens'[t].lastUsedAt = tokens'[t].at
      <3>1. CASE t = n
        BY <1>0, <1>3, <3>1
      <3>2. CASE t # n
        BY <1>0, <1>1, <3>2 DEF Stamps
      <3>3. QED
        BY <3>1, <3>2
    <2>2. QED
      BY <1>0, <2>1 DEF Stamps
  <1>5. ASSUME NEW l, NEW t \in 1..n, NEW u \in 1..n, Live(t)',
               tokens'[t].login = l, tokens'[u].login = l
        PROVE  tokens'[u].at <= tokens'[t].at \/ Forked(l)'
    <2>1. CASE t = n
      <3>1. tokens'[u].at <= now
        BY <1>0, <1>4 DEF Stamps
      <3>2. QED
        BY <1>0, <2>1, <3>1
    <2>2. CASE t # n /\ u = n
      <3>1. Forked(l)
        BY <1>0, <1>1, <1>5, <2>2
      <3>2. QED
        BY <3>1 DEF ForksStay
    <2>3. CASE t # n /\ u # n
      <3>1. tokens[u].at <= tokens[t].at \/ Forked(l)
        BY <1>0, <1>1, <1>5, <2>3 DEF Newest
      <3>2. tokens'[u] = tokens[u] /\ tokens'[t] = tokens[t]
        BY <1>0, <1>1, <2>3
      <3>3. QED
        BY <3>1, <3>2 DEF ForksStay
    <2>4. QED
      BY <2>1, <2>2, <2>3
  <1>6. Newest'
    BY <1>0, <1>5 DEF Newest
  <1>7. InactiveMeansIdle'
    <2> SUFFICES ASSUME NEW t \in 1..n, tokens'[t].revoked = "inactive"
                 PROVE  tokens'[t].idle > Inactivity - AccessTtl \/ Forked(tokens[t].login)'
      BY <1>0 DEF InactiveMeansIdle
    <2>1. t # n
      BY <1>0
    <2>2. t \in 1..Len(tokens) /\ tokens'[t] = tokens[t]
      BY <1>0, <1>1, <2>1
    <2>3. tokens[t].idle > Inactivity - AccessTtl \/ Forked(tokens[t].login)
      BY <1>0, <2>2 DEF InactiveMeansIdle
    <2>4. PICK l : l = tokens[t].login
      OBVIOUS
    <2>5. CASE Forked(l)
      <3>1. Forked(l)'
        BY <2>5 DEF ForksStay
      <3>2. QED
        BY <2>2, <2>4, <3>1 DEF Forked
    <2>6. QED
      BY <2>2, <2>3, <2>4, <2>5
  <1>8. QED
    BY <1>4, <1>6, <1>7

\* A refusal for inactivity: the row is the newest of its login, and the last
\* access token of the login was accepted within its lifetime.
LEMMA FoundIdle ==
  ASSUME Base, Dated, NEW t \in 1..Len(tokens), Live(t),
         now - tokens[t].lastUsedAt > Inactivity
  PROVE  now - served[tokens[t].login] > Inactivity - AccessTtl \/ Forked(tokens[t].login)
  <1> USE DEF Base
  <1>1. PICK u \in 1..Len(tokens) :
           /\ tokens[u].login = tokens[t].login
           /\ served[tokens[t].login] < tokens[u].at + AccessTtl
    BY Rows DEF Dated, Served, ServedBy
  <1>2. tokens[u].at <= tokens[t].at \/ Forked(tokens[t].login)
    BY <1>1, Rows DEF Dated, Newest
  <1>3. tokens[t].lastUsedAt = tokens[t].at
    BY Rows DEF Dated, Stamps
  <1>4. /\ tokens[u].at \in Nat /\ tokens[t].at \in Nat /\ now \in Nat /\ Inactivity \in Nat
        /\ AccessTtl \in Nat /\ served[tokens[t].login] \in Nat
    BY Dates
  <1> DEFINE l == tokens[t].login
             x == served[l]
             a == tokens[u].at
             b == tokens[t].at
  <1>5. CASE a <= b
    <2>1. x < a + AccessTtl /\ now - b > Inactivity
      BY <1>1, <1>3
    <2>2. x \in Nat /\ a \in Nat /\ b \in Nat
      BY <1>4
    <2> HIDE DEF x, a, b
    <2>3. now - x > Inactivity - AccessTtl
      BY <1>4, <1>5, <2>1, <2>2
    <2>4. QED
      BY <2>3 DEF x
  <1>6. QED
    BY <1>2, <1>5

LEMMA CallDated ==
  ASSUME Base, Dated, InactiveMeansIdle, ForksStay,
         NEW c \in Calls, Send(c) \/ Validate(c) \/ Answer(c)
  PROVE  Dated' /\ InactiveMeansIdle'
  <1> USE DEF Base
  <1>1. /\ TypeOK' /\ KeepsRows /\ Len(tokens') = Len(tokens) /\ now' = now
        /\ tokens' = tokens /\ now <= now'
    <2>1. tokens' = tokens /\ now' = now
      BY DEF Send, Validate, Answer, server, clock
    <2>2. now \in Nat
      BY Dates
    <2>3. QED
      BY <2>1, <2>2, CallBase, UnchangedRows
  <1>2. InactiveMeansIdle'
    BY <1>1, IdleAge DEF NoneIdle
  <1>3. Stamps' /\ Newest'
    BY <1>1, RowsAge DEF Dated
  <1>4. Held'
    <2>1. calls[c] \in Call /\ calls' \in [Calls -> Call] /\ 0 <= Len(tokens)
          /\ jar <= Len(tokens)
      BY <1>1, Rows DEF TypeOK
    <2>2. calls'[c].access <= Len(tokens)
      <3>1. CASE Send(c)
        BY <2>1, <3>1 DEF Send, TypeOK
      <3>2. CASE Validate(c)
        BY <2>1, <3>2 DEF Validate, TypeOK, Call
      <3>3. CASE Answer(c)
        <4> DEFINE e == [calls[c] EXCEPT !.pc = "waiting"]
        <4>1. calls' = [calls EXCEPT ![c] = e] \/ calls' = [calls EXCEPT ![c] = NoCall]
          BY <3>3 DEF Answer
        <4>2. e.access = calls[c].access /\ NoCall.access = 0
          BY <2>1 DEF Call, NoCall
        <4> HIDE DEF e
        <4>3. QED
          BY <2>1, <4>1, <4>2 DEF TypeOK, Dated, Held
      <3>4. QED
        BY <3>1, <3>2, <3>3
    <2>3. \A d \in Calls : d # c => calls'[d] = calls[d]
      BY DEF Send, Validate, Answer, TypeOK
    <2>4. QED
      BY <1>1, <2>2, <2>3 DEF Dated, Held
  <1>5. Served'
    <2>1. CASE served' = served
      BY <1>1, <2>1, ServedAge DEF Dated
    <2>2. CASE Validate(c) /\ AccessAccepted(calls[c].access)
      <3> DEFINE a == calls[c].access
      <3>1. a \in 1..Len(tokens) /\ now - tokens[a].at < AccessTtl
        <4>1. a \in Nat /\ a <= Len(tokens)
          BY DEF Dated, Held, TypeOK, Call
        <4>2. QED
          BY <2>2, <4>1, Dates DEF AccessAccepted
      <3>2. served' = [served EXCEPT ![tokens[a].login] = now] \/ served' = served
        BY <2>2 DEF Validate
      <3>3. ASSUME NEW t \in 1..Len(tokens), served' = [served EXCEPT ![tokens[a].login] = now]
            PROVE  \E u \in 1..Len(tokens) :
                      /\ tokens[u].login = tokens[t].login
                      /\ served'[tokens[t].login] < tokens[u].at + AccessTtl
        <4>1. CASE tokens[t].login = tokens[a].login
          <5>1. served'[tokens[t].login] = now
            BY <3>1, <3>3, <4>1, Dates DEF TypeOK
          <5>2. now < tokens[a].at + AccessTtl
            BY <3>1, Dates
          <5>3. QED
            BY <3>1, <4>1, <5>1, <5>2
        <4>2. CASE tokens[t].login # tokens[a].login
          <5>1. served'[tokens[t].login] = served[tokens[t].login]
            BY <3>3, <4>2 DEF TypeOK
          <5>2. QED
            BY <5>1, Dates DEF Dated, Served, ServedBy
        <4>3. QED
          BY <4>1, <4>2
      <3>4. CASE served' = [served EXCEPT ![tokens[a].login] = now]
        BY <1>1, <3>3, <3>4, Dates DEF Served, ServedBy
      <3>5. QED
        BY <2>1, <3>2, <3>4
    <2>3. QED
      BY <2>1, <2>2 DEF Send, Validate, Answer
  <1>6. QED
    BY <1>2, <1>3, <1>4, <1>5 DEF Dated

\* Revoking for another reason finds nobody idle.
LEMMA RevokedNoneIdle ==
  ASSUME TypeOK, NEW why \in Revoked \ {"inactive"}, NEW t \in 0..Len(tokens),
         tokens' = RevokeRefreshToken(t, why)
  PROVE  NoneIdle
  <1>1. why \in Revoked
    OBVIOUS
  <1>2. \A i \in 1..Len(tokens) :
           tokens'[i] = tokens[i] \/ tokens'[i] = [tokens[i] EXCEPT !.revoked = why]
    BY <1>1, RevokeOne
  <1>3. ASSUME NEW i \in 1..Len(tokens)
        PROVE  [tokens[i] EXCEPT !.revoked = why].revoked # "inactive"
    <2>1. tokens[i] \in TokenRow
      BY Rows
    <2>2. QED
      BY <2>1 DEF TokenRow
  <1>4. QED
    BY <1>2, <1>3 DEF NoneIdle

\* While a handler is about to issue, another usable token of its login is a fork.
LEMMA IssuesAlone ==
  ASSUME Base, Rotating, OneHolder, NEW r \in DOMAIN refreshes, RotateIssue(r)
  PROVE  /\ refreshes[r].token \in 1..Len(tokens)
         /\ \A t \in 1..Len(tokens) :
               Live(t) /\ tokens[t].login = LoginOf(r) => Forked(LoginOf(r))
  <1>1. Spare(r)
    BY DEF RotateIssue, Rotating, Spare, Checked
  <1>2. refreshes[r].token \in 1..Len(tokens)
    BY <1>1, CheckedToken DEF Spare
  <1>3. QED
    BY <1>1, <1>2, Rows DEF OneHolder, Base

LEMMA RefreshDated ==
  ASSUME Base, Rotating, OneHolder, Dated, InactiveMeansIdle, ForksStay,
         NEW r \in DOMAIN refreshes, RefreshHandler(r) \/ RefreshLost(r)
  PROVE  Dated' /\ InactiveMeansIdle'
  <1> USE DEF Base
  <1> DEFINE f == refreshes[r]
  <1>0. /\ TypeOK' /\ f \in Refresh /\ now' = now /\ served' = served /\ now <= now'
        /\ f.made <= Len(tokens) /\ 0 <= Len(tokens) /\ Len(tokens) \in Nat
    <2>1. now' = now /\ served' = served
      BY DEF RefreshHandler, VerifyRefreshToken, RefreshCheckUser, RotateRevoke, RotateIssue,
             RefreshArrives, RefreshLost, clock
    <2>2. QED
      BY <2>1, RefreshBase, Rows, Dates DEF Known
  <1>1. \A c \in Calls : calls'[c].access <= Len(tokens)
    <2>1. CASE RefreshArrives(r)
      BY <1>0, <2>1 DEF RefreshArrives, NoCall, Dated, Held
    <2>2. CASE RefreshLost(r)
      BY <1>0, <2>2 DEF RefreshLost, NoCall, Dated, Held
    <2>3. CASE calls' = calls
      BY <2>3 DEF Dated, Held
    <2>4. QED
      BY <2>1, <2>2, <2>3
      DEF RefreshHandler, VerifyRefreshToken, RefreshCheckUser, RotateRevoke, RotateIssue
  <1>2. ASSUME KeepsRows, Len(tokens') = Len(tokens)
        PROVE  Dated'
    BY <1>0, <1>1, <1>2, RowsAge, ServedAge DEF Dated, Held
  <1>3. CASE VerifyRefreshToken(r)
    <2> DEFINE v == f.token
               x == now - served[tokens[v].login]
               row == [tokens[v] EXCEPT !.revoked = "inactive", !.idle = x]
    <2>1. KeepsRows /\ Len(tokens') = Len(tokens)
      BY <1>3, VerifiedRows
    <2>2. \/ tokens' = tokens
          \/ /\ Live(v) /\ now - tokens[v].lastUsedAt > Inactivity
             /\ tokens' = [tokens EXCEPT ![v] = row]
      BY <1>3 DEF VerifyRefreshToken
    <2>3. CASE tokens' = tokens
      BY <1>0, <1>2, <2>1, <2>3, IdleAge DEF NoneIdle
    <2>4. CASE /\ Live(v) /\ now - tokens[v].lastUsedAt > Inactivity
               /\ tokens' = [tokens EXCEPT ![v] = row]
      <3>1. v \in 1..Len(tokens)
        BY <2>4, TokenInTable DEF Live
      <3>2. x > Inactivity - AccessTtl \/ Forked(tokens[v].login)
        BY <2>4, <3>1, FoundIdle
      <3>3. row.idle = x /\ row.login = tokens[v].login
        <4>1. tokens[v] \in TokenRow
          BY <3>1, Rows
        <4> HIDE DEF x
        <4>2. QED
          BY <4>1 DEF TokenRow
      <3> HIDE DEF row, x
      <3>4. tokens'[v] = row /\ \A t \in 1..Len(tokens) : t # v => tokens'[t] = tokens[t]
        BY <2>4, <3>1, Rows DEF TypeOK
      <3>5. ASSUME NEW t \in 1..Len(tokens), tokens'[t].revoked = "inactive"
            PROVE  tokens'[t].idle > Inactivity - AccessTtl \/ Forked(tokens[t].login)'
        <4>1. tokens'[t].idle > Inactivity - AccessTtl \/ Forked(tokens[t].login)
          <5>1. CASE t = v
            BY <3>2, <3>3, <3>4, <5>1
          <5>2. CASE t # v
            BY <3>4, <3>5, <5>2, Rows DEF InactiveMeansIdle
          <5>3. QED
            BY <5>1, <5>2
        <4>2. PICK l : l = tokens[t].login
          OBVIOUS
        <4>3. tokens'[t].login = l
          BY <2>1, <4>2 DEF KeepsRows, Stays
        <4>4. CASE Forked(l)
          <5>1. Forked(l)'
            BY <4>4 DEF ForksStay
          <5>2. QED
            BY <4>3, <5>1 DEF Forked
        <4>5. QED
          BY <4>1, <4>2, <4>4
      <3>6. DOMAIN tokens' = 1..Len(tokens)
        BY <1>0, <2>1, LenProperties DEF TypeOK
      <3>7. InactiveMeansIdle'
        BY <3>5, <3>6 DEF InactiveMeansIdle
      <3>8. QED
        BY <1>2, <2>1, <3>7
    <2>5. QED
      BY <2>2, <2>3, <2>4
  <1>4. CASE RefreshCheckUser(r) \/ RefreshArrives(r) \/ RefreshLost(r)
    <2>1. tokens' = tokens
      BY <1>4 DEF RefreshCheckUser, RefreshArrives, RefreshLost, server
    <2>2. QED
      BY <1>0, <1>2, <2>1, UnchangedRows, IdleAge DEF NoneIdle
  <1>5. CASE RotateRevoke(r)
    <2>1. f.token \in 0..Len(tokens) /\ tokens' = RevokeRefreshToken(f.token, "rotated")
      BY <1>5, CheckedToken, Rows DEF RotateRevoke, Checked
    <2>2. "rotated" \in Revoked \ {"no"} /\ "rotated" \in Revoked \ {"inactive"}
      BY DEF Revoked
    <2>3. KeepsRows /\ Len(tokens') = Len(tokens) /\ NoneIdle
      BY <2>1, <2>2, RevokedRow, RevokedNoneIdle
    <2>4. QED
      BY <1>0, <1>2, <2>3, IdleAge
  <1>6. CASE RotateIssue(r)
    <2> DEFINE old == tokens[f.token]
               row == Row(old.login, old.password, old.spared \/ f.late)
               n == Len(tokens) + 1
    <2>1. /\ f.token \in 1..Len(tokens)
          /\ \A t \in 1..Len(tokens) :
                Live(t) /\ tokens[t].login = old.login => Forked(old.login)
      BY <1>6, IssuesAlone DEF LoginOf
    <2>2. old.login \in Token /\ old.password \in 0..1 /\ (old.spared \/ f.late) \in BOOLEAN
      BY <2>1, Rows DEF TokenRow
    <2>3. row \in TokenRow
      BY <2>2, RowType
    <2>4. /\ row.login = old.login /\ row.revoked = "no"
          /\ row.at = now /\ row.lastUsedAt = now
      BY DEF Row
    <2>5. tokens' = Append(tokens, row)
      BY <1>6 DEF RotateIssue
    <2> HIDE DEF row
    <2>6. Stamps' /\ Newest' /\ InactiveMeansIdle'
      BY <1>0, <2>1, <2>3, <2>4, <2>5, RowAdded DEF Dated
    <2>7. /\ DOMAIN tokens' = 1..n /\ tokens'[n] = row /\ Len(tokens') = n
          /\ \A t \in 1..Len(tokens) : tokens'[t] = tokens[t]
      BY <1>0, <2>3, <2>5, Appended, LenProperties DEF TypeOK
    <2>8. ASSUME NEW t \in 1..n
          PROVE  \E u \in 1..n : /\ tokens'[u].login = tokens'[t].login
                                 /\ served[tokens'[t].login] < tokens'[u].at + AccessTtl
      <3>1. PICK s \in 1..Len(tokens) : tokens[s].login = tokens'[t].login
        <4>1. CASE t = n
          BY <2>1, <2>4, <2>7, <4>1
        <4>2. CASE t # n
          BY <1>0, <2>7, <4>2
        <4>3. QED
          BY <4>1, <4>2
      <3>2. PICK u \in 1..Len(tokens) : /\ tokens[u].login = tokens[s].login
                                        /\ served[tokens[s].login] < tokens[u].at + AccessTtl
        BY Rows DEF Dated, Served, ServedBy
      <3>3. u \in 1..n /\ tokens'[u] = tokens[u]
        BY <1>0, <2>7
      <3>4. QED
        BY <3>1, <3>2, <3>3
    <2>9. Served'
      BY <1>0, <2>7, <2>8 DEF Served, ServedBy
    <2>10. Held'
      <3>1. \A c \in Calls : calls'[c].access \in Nat
        BY <1>0 DEF TypeOK, Call
      <3>2. QED
        BY <1>0, <1>1, <2>7, <3>1 DEF Held
    <2>11. QED
      BY <2>6, <2>9, <2>10 DEF Dated
  <1>7. QED
    BY <1>3, <1>4, <1>5, <1>6 DEF RefreshHandler

LEMMA SessionDated ==
  ASSUME Base, Rotating, Dated, InactiveMeansIdle, ForksStay, NEW b \in Tabs, SessionStep(b)
  PROVE  Dated' /\ InactiveMeansIdle'
  <1> USE DEF Base
  <1>0. /\ TypeOK' /\ now' = now /\ calls' = calls /\ now <= now' /\ Len(tokens) \in Nat
    <2>1. now' = now /\ calls' = calls
      BY DEF SessionStep, Login, ValidateCredentials, IssueSessionTokens, LoginArrives,
             Logout, LogoutRevoke, LogoutArrives, clock
    <2>2. QED
      BY <2>1, SessionBase, Dates
  <1>1. ASSUME KeepsRows, Len(tokens') = Len(tokens), served' = served, NoneIdle
        PROVE  Dated' /\ InactiveMeansIdle'
    BY <1>0, <1>1, RowsAge, ServedAge, IdleAge DEF Dated, Held
  <1>2. CASE LogoutRevoke(b)
    <2>1. auth[b].token \in 0..Len(tokens)
      BY <1>0 DEF TypeOK, Auth, Known
    <2>2. "logout" \in Revoked \ {"no"} /\ "logout" \in Revoked \ {"inactive"}
      BY DEF Revoked
    <2>3. KeepsRows /\ Len(tokens') = Len(tokens) /\ NoneIdle
      BY <1>2, <2>1, <2>2, RevokedRow, RevokedNoneIdle DEF LogoutRevoke
    <2>4. QED
      BY <1>1, <1>2, <2>3 DEF LogoutRevoke
  <1>3. CASE IssueSessionTokens(b)
    <2> DEFINE n == Len(tokens) + 1
               row == Row(n, auth[b].password, auth[b].late)
    <2>1. /\ tokens' = Append(tokens, row) /\ Len(tokens) < MaxTokens
          /\ served' = [served EXCEPT ![n] = now]
      BY <1>3 DEF IssueSessionTokens
    <2>2. row \in TokenRow /\ n \in Token
      <3>1. auth[b].password \in 0..1 /\ auth[b].late \in BOOLEAN
        BY DEF TypeOK, Auth
      <3>2. n \in Token
        BY <1>0, <2>1, Bounds DEF Token
      <3>3. QED
        BY <3>1, <3>2, RowType
    <2>3. row.login = n /\ row.revoked = "no" /\ row.at = now /\ row.lastUsedAt = now
      BY DEF Row
    <2> HIDE DEF row
    <2>4. \A t \in 1..Len(tokens) : tokens[t].login # n
      <3>1. \A t \in 1..Len(tokens) : tokens[t].login \in Nat /\ tokens[t].login <= t
        BY Dates DEF Rotating
      <3>2. QED
        BY <1>0, <3>1
    <2>5. Stamps' /\ Newest' /\ InactiveMeansIdle'
      BY <1>0, <2>1, <2>2, <2>3, <2>4, RowAdded DEF Dated
    <2>6. /\ DOMAIN tokens' = 1..n /\ tokens'[n] = row /\ Len(tokens') = n
          /\ \A t \in 1..Len(tokens) : tokens'[t] = tokens[t]
      BY <1>0, <2>1, <2>2, Appended, LenProperties DEF TypeOK
    <2>7. ASSUME NEW t \in 1..n
          PROVE  \E u \in 1..n : /\ tokens'[u].login = tokens'[t].login
                                 /\ served'[tokens'[t].login] < tokens'[u].at + AccessTtl
      <3>1. CASE t = n
        <4>1. served'[n] = now
          BY <2>1, <2>2 DEF TypeOK
        <4>2. now < now + AccessTtl
          BY Dates
        <4>3. QED
          BY <2>3, <2>6, <3>1, <4>1, <4>2
      <3>2. CASE t # n
        <4>1. t \in 1..Len(tokens) /\ tokens'[t] = tokens[t]
          BY <1>0, <2>6, <3>2
        <4>2. served'[tokens[t].login] = served[tokens[t].login]
          BY <2>1, <2>4, <4>1 DEF TypeOK
        <4>3. PICK u \in 1..Len(tokens) : /\ tokens[u].login = tokens[t].login
                                          /\ served[tokens[t].login] < tokens[u].at + AccessTtl
          BY <4>1, Rows DEF Dated, Served, ServedBy
        <4>4. u \in 1..n /\ tokens'[u] = tokens[u]
          BY <1>0, <2>6
        <4>5. QED
          BY <4>1, <4>2, <4>3, <4>4
      <3>3. QED
        BY <3>1, <3>2
    <2>8. Served'
      BY <2>6, <2>7 DEF Served, ServedBy
    <2>9. Held'
      <3>1. \A c \in Calls : calls[c].access \in Nat
        BY DEF TypeOK, Call
      <3>2. QED
        BY <1>0, <2>6, <3>1 DEF Dated, Held
    <2>10. QED
      BY <2>5, <2>8, <2>9 DEF Dated
  <1>4. CASE tokens' = tokens /\ served' = served
    BY <1>0, <1>1, <1>4, UnchangedRows DEF NoneIdle
  <1>5. QED
    BY <1>2, <1>3, <1>4 DEF SessionStep, Login, ValidateCredentials, LoginArrives, Logout,
       LogoutArrives, server

LEMMA EventDated ==
  ASSUME Base, Dated, InactiveMeansIdle, ForksStay, EventStep \/ UNCHANGED vars
  PROVE  Dated' /\ InactiveMeansIdle'
  <1> USE DEF Base
  <1>0. /\ TypeOK' /\ calls' = calls /\ served' = served /\ now <= now'
    <2>1. calls' = calls /\ served' = served /\ (now' = now \/ now' = now + 1)
      BY DEF EventStep, ResetCheck, ResetCommit, ResetRevokeAll, SetStatus, Tick, vars, clock
    <2>2. QED
      BY <2>1, EventBase, BaseKept, Dates
  <1>1. KeepsRows /\ Len(tokens') = Len(tokens) /\ NoneIdle
    <2>1. CASE ResetRevokeAll
      <3>1. \A i \in 1..Len(tokens) :
               tokens'[i] = tokens[i] \/ tokens'[i] = [tokens[i] EXCEPT !.revoked = "reset"]
        BY <2>1, RevokeAll DEF ResetRevokeAll
      <3>2. ASSUME NEW i \in 1..Len(tokens)
            PROVE  [tokens[i] EXCEPT !.revoked = "reset"].revoked # "inactive"
        <4>1. tokens[i] \in TokenRow
          BY Rows
        <4>2. QED
          BY <4>1 DEF TokenRow
      <3>3. QED
        BY <2>1, <3>1, <3>2, AllRevoked DEF NoneIdle
    <2>2. CASE ~ResetRevokeAll
      <3>1. tokens' = tokens
        BY <2>2 DEF EventStep, ResetCheck, ResetCommit, SetStatus, Tick, vars, server
      <3>2. QED
        BY <3>1, UnchangedRows DEF NoneIdle
    <2>3. QED
      BY <2>1, <2>2
  <1>2. QED
    BY <1>0, <1>1, RowsAge, ServedAge, IdleAge DEF Dated, Held

LEMMA DatedInit == Init => Dated /\ InactiveMeansIdle
  <1> SUFFICES ASSUME Init PROVE Dated /\ InactiveMeansIdle
    OBVIOUS
  <1>1. /\ DOMAIN tokens = {1} /\ Len(tokens) = 1 /\ now = 0
        /\ tokens[1].at = 0 /\ tokens[1].lastUsedAt = 0
        /\ tokens[1].login = 1 /\ tokens[1].revoked = "no"
    BY DEF Init, Row
  <1>2. Stamps /\ Newest /\ InactiveMeansIdle
    BY <1>1 DEF Stamps, Newest, InactiveMeansIdle
  <1>3. Held
    BY <1>1 DEF Init, Held, NoCall
  <1>4. served[1] = 0 /\ 0 < 0 + AccessTtl
    BY SessionAssumption DEF Init, Token
  <1>5. Served
    BY <1>1, <1>4 DEF Served, ServedBy
  <1>6. QED
    BY <1>2, <1>3, <1>5 DEF Dated

LEMMA DatedKept ==
  Base /\ Rotating /\ OneHolder /\ Dated /\ InactiveMeansIdle /\ [Next]_vars
      => Dated' /\ InactiveMeansIdle'
  <1> SUFFICES ASSUME Base, Rotating, OneHolder, Dated, InactiveMeansIdle, [Next]_vars
               PROVE  Dated' /\ InactiveMeansIdle'
    OBVIOUS
  <1>1. ForksStay
    BY HoldersKept
  <1>2. QED
    BY <1>1, StepOf, CallDated, RefreshDated, SessionDated, EventDated

\* verifyRefreshToken: who is thrown out as inactive was last served longer ago
\* than the window less the lifetime of an access token, or holds one of two
\* branches of a login.
THEOREM IdleWhenThrownOut == Spec => []InactiveMeansIdle
  BY AlwaysHeld, DatedInit, DatedKept, BaseInit, BaseKept, HoldersInit, HoldersKept, PTL DEF Spec
===============================================================================
