------------------------------ MODULE Session ------------------------------
(***************************************************************************)
(* The account session: what is stored of it (TokenStore, the process-wide *)
(* ServerRankingCache, LastGoodServerStore) and the coroutines that read   *)
(* and write it: login, the profile refresh and the logout of              *)
(* AccountActivity, the rankings of HomeActivity and ServerListActivity,   *)
(* and a connection that remembers its server.                             *)
(*                                                                         *)
(* A session is the number of the login that began it; it stands for the   *)
(* token, the user, the server list and everything derived from them.  0   *)
(* is null.  One call of SharedPreferences or one write of a volatile      *)
(* field is a step; so is the answer to a request.  When an activity is    *)
(* destroyed its coroutines stop at the next place where they suspend, and *)
(* code that does not suspend runs to its end.                             *)
(*                                                                         *)
(* Bounds: one refresh, one logout and one connection at a time, and the   *)
(* rankings of Rankers.  Only login is limited by the code (its button is  *)
(* disabled); a second press of logout starts a coroutine that repeats the *)
(* same clears.                                                            *)
(***************************************************************************)
EXTENDS Integers

CONSTANTS MaxLogins,        \* bound: logins the server answers
          Rankers,          \* the coroutines that rank servers
          PromptDestroy     \* see LoginSaves

ASSUME SessionAssumption == MaxLogins \in Nat /\ PromptDestroy \in BOOLEAN

VARIABLES auth,          \* TokenStore
          rankedServers, \* ServerRankingCache.rankedServers
          isValid,       \* ServerRankingCache.isValid(): lastUpdated is recent
          lastGood,      \* LastGoodServerStore
          front,         \* the task's front: "login", "main"
          doomed,        \* activities cleared from the task, not yet destroyed
          login,         \* LoginActivity.attemptLogin
          logout,        \* AccountActivity.handleLogout
          refresh,       \* AccountActivity.loadAccountData
          ranker,        \* getOrBuildRankings, loadServers
          keeper,        \* a connection attempt of HomeActivity
          issued,        \* external: sessions the server has opened
          newest         \* history: the latest session ever stored

sessionVars == <<auth, rankedServers, isValid, lastGood, front, doomed, login, logout, refresh, ranker,
                 keeper, issued, newest>>

Off == [pc |-> "off", of |-> 0]
Is(pc, of) == [pc |-> pc, of |-> of]

stores == <<auth, rankedServers, isValid, lastGood>>
ui == <<front, doomed>>

SessionInit ==
  /\ auth = 0 /\ rankedServers = 0 /\ isValid = FALSE /\ lastGood = 0
  /\ front = "login" /\ doomed = FALSE
  /\ login = Off /\ logout = Off /\ refresh = Off /\ keeper = Off
  /\ ranker = [r \in Rankers |-> Off]
  /\ issued = 0 /\ newest = 0

---------------------------------------------------------------------------
(***************************************************************************)
(* attemptLogin and VpnRepository.login.                                   *)
(***************************************************************************)
attemptLogin ==
  /\ front = "login" /\ login.pc = "off"
  /\ login' = Is("request", 0)
  /\ UNCHANGED <<stores, ui, logout, refresh, ranker, keeper, issued, newest>>

LoginAnswered ==
  /\ login.pc = "request" /\ issued < MaxLogins
  /\ issued' = issued + 1
  /\ login' = Is("save", issued + 1)
  /\ UNCHANGED <<stores, ui, logout, refresh, ranker, keeper, newest>>

\* The request fails, or withTimeout cancels the coroutine before saveAuth: the
\* button can be used again.  The server may have opened a session all the same.
LoginFails ==
  /\ login.pc \in {"request", "save"}
  /\ login' = Off
  /\ UNCHANGED <<stores, ui, logout, refresh, ranker, keeper, issued, newest>>

\* saveAuth, and HomeActivity is opened.  With PromptDestroy the activities of
\* the session before are destroyed by then: the system does so when the login
\* screen is shown, well before anybody has typed a password.
LoginSaves ==
  /\ login.pc = "save"
  /\ PromptDestroy => ~doomed
  /\ auth' = login.of /\ newest' = login.of
  /\ login' = Off
  /\ front' = "main"
  /\ UNCHANGED <<rankedServers, isValid, lastGood, doomed, logout, refresh, ranker, keeper, issued>>

\* withTimeout fires while saveAuth runs: stored, but reported as timed out.
LoginSavesLate ==
  /\ login.pc = "save"
  /\ PromptDestroy => ~doomed
  /\ auth' = login.of /\ newest' = login.of
  /\ login' = Off
  /\ UNCHANGED <<rankedServers, isValid, lastGood, ui, logout, refresh, ranker, keeper, issued>>

\* The application is started again: AuthGateActivity reads the token.
AuthGate ==
  /\ login' = Off /\ logout' = Off /\ refresh' = Off /\ keeper' = Off
  /\ ranker' = [r \in Rankers |-> Off]
  /\ rankedServers' = 0 /\ isValid' = FALSE
  /\ doomed' = FALSE
  /\ front' = IF auth = 0 THEN "login" ELSE "main"
  /\ UNCHANGED <<auth, lastGood, issued, newest>>

---------------------------------------------------------------------------
(***************************************************************************)
(* refreshProfile: it stores again the token it read before the request.   *)
(***************************************************************************)
loadAccountData ==
  /\ front = "main" /\ refresh.pc = "off" /\ auth # 0
  /\ refresh' = Is("profile", auth)
  /\ UNCHANGED <<stores, ui, login, logout, ranker, keeper, issued, newest>>

RefreshSaves ==
  /\ refresh.pc = "profile"
  /\ auth' = refresh.of
  /\ refresh' = Off
  /\ UNCHANGED <<rankedServers, isValid, lastGood, ui, login, logout, ranker, keeper, issued, newest>>

RefreshFails ==
  /\ refresh.pc = "profile"
  /\ refresh' = Off
  /\ UNCHANGED <<stores, ui, login, logout, ranker, keeper, issued, newest>>

---------------------------------------------------------------------------
(***************************************************************************)
(* handleLogout: repo.logout() tells the server, which may fail, and       *)
(* clears the token; then the ranking, its time, the last good server; and *)
(* the task is replaced by LoginActivity.                                  *)
(***************************************************************************)
handleLogout ==
  /\ front = "main" /\ logout.pc = "off"
  /\ logout' = Is("clear", auth)
  /\ UNCHANGED <<stores, ui, login, refresh, ranker, keeper, issued, newest>>

ClearAuth ==
  /\ logout.pc = "clear"
  /\ auth' = 0
  /\ logout' = Is("ranking", logout.of)
  /\ UNCHANGED <<rankedServers, isValid, lastGood, ui, login, refresh, ranker, keeper, issued, newest>>

\* AccountActivity is left before clear() begins: its withContext throws the
\* cancellation, which handleLogout catches, and the rest is done all the same.
LogoutCancelled ==
  /\ logout.pc = "clear"
  /\ logout' = Is("ranking", logout.of)
  /\ UNCHANGED <<stores, ui, login, refresh, ranker, keeper, issued, newest>>

ClearRanking ==
  /\ logout.pc = "ranking"
  /\ rankedServers' = 0
  /\ logout' = Is("time", logout.of)
  /\ UNCHANGED <<auth, isValid, lastGood, ui, login, refresh, ranker, keeper, issued, newest>>

ClearTime ==
  /\ logout.pc = "time"
  /\ isValid' = FALSE
  /\ logout' = Is("lastGood", logout.of)
  /\ UNCHANGED <<auth, rankedServers, lastGood, ui, login, refresh, ranker, keeper, issued, newest>>

ClearLastGood ==
  /\ logout.pc = "lastGood"
  /\ lastGood' = 0
  /\ logout' = Is("open", logout.of)
  /\ UNCHANGED <<auth, rankedServers, isValid, ui, login, refresh, ranker, keeper, issued, newest>>

OpenLogin ==
  /\ logout.pc = "open"
  /\ front' = "login" /\ doomed' = TRUE
  /\ logout' = Off
  /\ UNCHANGED <<stores, login, refresh, ranker, keeper, issued, newest>>

\* Mutant: the coroutines do not belong to the activity.
StoppedNever(c) == c

\* The old activities are destroyed: their coroutines end where they suspend.
Stopped(c) == IF c.pc \in {"profile", "servers", "rank", "connect"} THEN Off ELSE c

Destroyed ==
  /\ doomed
  /\ doomed' = FALSE
  /\ refresh' = Stopped(refresh) /\ keeper' = Stopped(keeper)
  /\ ranker' = [r \in Rankers |-> Stopped(ranker[r])]
  /\ UNCHANGED <<stores, front, login, logout, issued, newest>>

---------------------------------------------------------------------------
(***************************************************************************)
(* Rankings: the list of servers of the session, then the cached ranking   *)
(* or a new one.                                                           *)
(***************************************************************************)
Rank(r, c) == ranker' = [ranker EXCEPT ![r] = c]

RankStart(r) ==
  /\ front = "main" /\ ranker[r].pc = "off" /\ auth # 0
  /\ Rank(r, Is("servers", auth))
  /\ UNCHANGED <<stores, ui, login, logout, refresh, keeper, issued, newest>>

RankServers(r) ==
  /\ ranker[r].pc = "servers"
  /\ \/ Rank(r, Off)
     \/ Rank(r, Is("cached", ranker[r].of))
  /\ UNCHANGED <<stores, ui, login, logout, refresh, keeper, issued, newest>>

\* rankedServers != null && isValid(), then rankedServers!!: three reads.
RankCached(r) ==
  /\ ranker[r].pc = "cached"
  /\ Rank(r, Is(IF rankedServers # 0 THEN "valid" ELSE "rank", ranker[r].of))
  /\ UNCHANGED <<stores, ui, login, logout, refresh, keeper, issued, newest>>

RankValid(r) ==
  /\ ranker[r].pc = "valid"
  /\ Rank(r, Is(IF isValid THEN "use" ELSE "rank", ranker[r].of))
  /\ UNCHANGED <<stores, ui, login, logout, refresh, keeper, issued, newest>>

RankUse(r) ==
  /\ ranker[r].pc = "use"
  /\ Rank(r, Off)
  /\ UNCHANGED <<stores, ui, login, logout, refresh, keeper, issued, newest>>

RankDone(r) ==
  /\ ranker[r].pc = "rank"
  /\ Rank(r, Is("setTime", ranker[r].of))
  /\ rankedServers' = ranker[r].of
  /\ UNCHANGED <<auth, isValid, lastGood, ui, login, logout, refresh, keeper, issued, newest>>

RankSetTime(r) ==
  /\ ranker[r].pc = "setTime"
  /\ isValid' = TRUE
  /\ Rank(r, Off)
  /\ UNCHANGED <<auth, rankedServers, lastGood, ui, login, logout, refresh, keeper, issued, newest>>

\* Two minutes pass.
RankingExpires ==
  /\ isValid /\ isValid' = FALSE
  /\ UNCHANGED <<auth, rankedServers, lastGood, ui, login, logout, refresh, ranker, keeper, issued, newest>>

\* A connection of HomeActivity; when it works its server is remembered.
Connecting ==
  /\ front = "main" /\ keeper.pc = "off" /\ auth # 0
  /\ keeper' = Is("connect", auth)
  /\ UNCHANGED <<stores, ui, login, logout, refresh, ranker, issued, newest>>

Connected ==
  /\ keeper.pc = "connect"
  /\ keeper' = Off
  /\ lastGood' \in {lastGood, keeper.of}
  /\ UNCHANGED <<auth, rankedServers, isValid, ui, login, logout, refresh, ranker, issued, newest>>

---------------------------------------------------------------------------
LogoutStep ==
  ClearAuth \/ LogoutCancelled \/ ClearRanking \/ ClearTime \/ ClearLastGood \/ OpenLogin

RankStep(r) ==
  RankServers(r) \/ RankCached(r) \/ RankValid(r) \/ RankUse(r) \/ RankDone(r) \/ RankSetTime(r)

SessionNext ==
  \/ attemptLogin \/ LoginAnswered \/ LoginFails \/ LoginSaves \/ LoginSavesLate \/ AuthGate
  \/ loadAccountData \/ RefreshSaves \/ RefreshFails
  \/ handleLogout \/ LogoutStep \/ Destroyed
  \/ \E r \in Rankers : RankStart(r) \/ RankStep(r)
  \/ RankingExpires \/ Connecting \/ Connected

SessionSpec == SessionInit /\ [][SessionNext]_sessionVars

---------------------------------------------------------------------------

\* A profile refresh of an earlier session never replaces the token of a later
\* login (refreshProfile stores the token it read before the request): once a
\* session is stored, an older one is never stored again.  (It needs
\* PromptDestroy.)
NoOldToken == [][auth' # auth /\ auth' # 0 => auth' >= newest]_sessionVars

\* The inductive invariant behind it: while coroutines of an earlier session may
\* still store its token, no later session is stored.
RefreshInv ==
  /\ newest <= issued /\ auth \in {0, newest}
  /\ login.pc # "off" => front = "login"
  /\ login.pc = "save" => login.of \in newest + 1 .. issued
  /\ refresh.pc = "profile" => refresh.of = newest /\ (front = "main" \/ doomed)

\* ServerRankingCache.rankedServers!! (HomeActivity.getOrBuildRankings): the
\* ranking found in the cache is still there when it is used.
RankingThere == \A r \in Rankers : ranker[r].pc = "use" => rankedServers # 0
=============================================================================
