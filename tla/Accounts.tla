------------------------------ MODULE Accounts ------------------------------
(***************************************************************************)
(* Accounts: the kernel's user database (kernel/rust/users.rs), its copy    *)
(* in USERS.CFG, the login screen (login.rs) and the graphical first-run    *)
(* wizard (firstrun.rs) that write and read that file.                      *)
(*                                                                          *)
(* A name and a password are sequences of letters.  A hash is the pair of   *)
(* what it was computed from, so it matches exactly the password and salt   *)
(* it was made with.  A file that may be absent is a set of at most one     *)
(* content.  Widgets are named, not placed: a click names what it hits.     *)
(* Status texts, the show-password eye and the choice of the session's      *)
(* program are left out.                                                    *)
(***************************************************************************)
EXTENDS Naturals, Sequences, FiniteSets, SequencesExt

CONSTANTS Letters,        \* the characters typed
          MaxUsers,       \* MAX_USERS
          Threshold,      \* LOCKOUT_THRESHOLD
          NameMax,        \* MAX_USERNAME_LEN
          PasswordMax,    \* MAX_PASSWORD_LEN
          Shipped,        \* the records of USERS.CFG on the shipped disk
          Presets,        \* the wizard's account presets: [name, pw]
          ConsoleUsers,   \* what may be typed into the console wizard: [name, pw]
          Tries,          \* the passwords given to sudo
          MaxClicks,      \* bound: clicks on the graphical wizard
          MaxBoots        \* bound: restarts

VARIABLES users,     \* the kernel's table
          cfg,       \* the four files: [system, users, firewall, access]
          app,       \* the program on the screen
          ident,     \* the identity of its process
          ls,        \* the login screen
          wz,        \* the wizard
          boots, clicks,
          fresh,     \* history: USERS.CFG is as the kernel read it
          misses,    \* history: wrong passwords in a row against a uid, up to Threshold
          pastLimit  \* history: an identity was granted after too many

acctVars == <<users, cfg, app, ident, ls, wz, boots, clicks, fresh, misses, pastLimit>>

---------------------------------------------------------------------------
(* users.rs *)

Salt(seed, name) == <<seed, name>>
Hash(pw, salt) == <<pw, salt>>
EmptyUser == [used |-> FALSE, name |-> <<>>, uid |-> 0, gid |-> 0, hash |-> Hash(<<>>, Salt(0, <<>>)),
              salt |-> Salt(0, <<>>), failed |-> 0]
NoUsers == [i \in 1..MaxUsers |-> EmptyUser]
Named(r, name) == r.used /\ r.name = name

\* rust_users_add: refused for a name in use and for a full table.
WithUser(table, name, uid, gid, pw, seed) ==
  LET salt == Salt(seed, name)
      rec == [used |-> TRUE, name |-> name, uid |-> uid, gid |-> gid, hash |-> Hash(pw, salt), salt |-> salt,
              failed |-> 0]
      free == {i \in 1..MaxUsers : ~table[i].used}
  IN IF (\E i \in 1..MaxUsers : Named(table[i], name)) \/ free = {} THEN table
     ELSE [table EXCEPT ![Min(free)] = rec]

\* The attempt both checks make on record i: a locked record refuses it
\* unread, a right password clears the count, a wrong one raises it.
Locked(r) == r.failed >= Threshold
Right(r, pw) == ~Locked(r) /\ r.hash = Hash(pw, r.salt)
Counted(i, pw) ==
  LET r == users[i]
  IN IF Locked(r) THEN users
     ELSE [users EXCEPT ![i].failed = IF Right(r, pw) THEN 0 ELSE @ + 1]

Uids == {0} \cup {Shipped[i].uid : i \in 1..MaxUsers}
\* History of one attempt against a uid.
Guess(uid, right) ==
  /\ misses' = [misses EXCEPT ![uid] = IF right THEN 0 ELSE IF @ < Threshold THEN @ + 1 ELSE @]
  /\ pastLimit' = (pastLimit \/ (right /\ misses[uid] >= Threshold))
NoGuess == UNCHANGED <<misses, pastLimit>>

\* USERS.CFG: one record per used slot, the length of the name before it.
Saved(table) == [i \in 1..MaxUsers |->
  [len |-> IF table[i].used THEN Len(table[i].name) ELSE 0, name |-> table[i].name, uid |-> table[i].uid,
   gid |-> table[i].gid, salt |-> table[i].salt, hash |-> table[i].hash]]
Loaded(recs) == [i \in 1..MaxUsers |->
  IF recs[i].len = 0 THEN EmptyUser
  ELSE [used |-> TRUE, name |-> SubSeq(recs[i].name, 1, recs[i].len), uid |-> recs[i].uid, gid |-> recs[i].gid,
        salt |-> recs[i].salt, hash |-> recs[i].hash, failed |-> 0]]

---------------------------------------------------------------------------
(* The file system as its callers see it: a write makes a new file and is   *)
(* refused when the name exists or the disk is full (ok).                   *)

WriteFile(f, content, ok) == IF f = {} /\ ok THEN {content} ELSE f
Written(f, ok) == f = {} /\ ok

\* The programs' first states.
Default == << [name |-> <<"d">>, uid |-> 800, gid |-> 0], [name |-> <<"e">>, uid |-> 700, gid |-> 700] >>
\* load_users_config: a record counts when its first byte is not 0; its name
\* runs to the first zero byte.
Listed(recs) == LET used == SelectSeq(recs, LAMBDA r : r.len # 0)
                IN [i \in DOMAIN used |-> [name |-> used[i].name, uid |-> used[i].uid, gid |-> used[i].gid]]
ListedFile(f) == IF f = {} THEN <<>> ELSE Listed(CHOOSE u \in f : TRUE)
Accounts(f) == IF ListedFile(f) = <<>> THEN Default ELSE ListedFile(f)

FreshLogin(f) == [accounts |-> Accounts(f), sel |-> 1, custom |-> FALSE, cname |-> <<>>, pw |-> <<>>,
                  focus |-> "password"]
Steps == <<"welcome", "identity", "account", "network", "preferences", "review", "complete">>
StepNo(s) == CHOOSE i \in 1..7 : Steps[i] = s
FreshWizard == [step |-> "welcome", host |-> 1, init |-> 1, acct |-> 1, mask |-> TRUE,
                net |-> [dhcp |-> TRUE, drop |-> TRUE, allow |-> {"ssh", "http", "icmp"}],
                pref |-> [theme |-> "dark", scale |-> 1, cursor |-> "dark", hc |-> FALSE], applied |-> FALSE]

\* Boot: a machine with SYSTEM.CFG loads the accounts; one without asks for
\* the first account on the console and saves it, deleting the old file.
Boot ==
  /\ app = "off" /\ boots < MaxBoots /\ boots' = boots + 1
  /\ app' = "idle" /\ ident' = [uid |-> 0, gid |-> 0]
  /\ \/ /\ cfg.system # {}
        /\ users' = (IF cfg.users = {} THEN NoUsers ELSE Loaded(CHOOSE u \in cfg.users : TRUE))
        /\ fresh' = TRUE
        /\ UNCHANGED cfg
     \/ /\ cfg.system = {}
        /\ \E who \in ConsoleUsers, okUsers \in BOOLEAN, okSystem \in BOOLEAN :
             LET table == WithUser(NoUsers, who.name, 0, 0, who.pw, boots)
             IN /\ users' = table
                /\ cfg' = [cfg EXCEPT !.users = WriteFile({}, Saved(table), okUsers),
                                      !.system = WriteFile({}, [host |-> 1, user |-> who.name, init |-> 1], okSystem)]
                /\ fresh' = okUsers
  /\ UNCHANGED <<ls, wz, clicks, misses, pastLimit>>

\* Memory is lost; so is a program's state when it ends.
Off == /\ app' = "off" /\ users' = NoUsers /\ ident' = [uid |-> 0, gid |-> 0]
       /\ ls' = FreshLogin({}) /\ wz' = FreshWizard /\ fresh' = TRUE /\ misses' = [u \in Uids |-> 0]
       /\ UNCHANGED <<cfg, boots, clicks, pastLimit>>
PowerOff == app # "off" /\ Off

---------------------------------------------------------------------------
(* login.rs *)

StartLogin ==
  /\ app = "idle" /\ app' = "login"
  /\ ls' = FreshLogin(cfg.users)
  /\ UNCHANGED <<users, cfg, ident, wz, boots, clicks, fresh>> /\ NoGuess

ActiveName == IF ls.custom THEN ls.cname
              ELSE IF ls.sel <= Len(ls.accounts) THEN ls.accounts[ls.sel].name ELSE <<>>

\* attempt_login and, when it succeeds, launch_session.  An unknown name
\* fails like a wrong password.  The typed password is wiped either way.
AttemptLogin ==
  \/ /\ ActiveName = <<>>
     /\ UNCHANGED <<users, ident, ls, app>> /\ NoGuess
  \/ /\ ActiveName # <<>>
     /\ LET hits == {i \in 1..MaxUsers : Named(users[i], ActiveName)}
            i == Min(hits)
        IN IF hits # {} /\ Right(users[i], ls.pw)
           THEN /\ users' = Counted(i, ls.pw)
                /\ ident' = [uid |-> users[i].uid, gid |-> users[i].gid]
                /\ ls' = FreshLogin({})
                /\ app' = "session"
                /\ Guess(users[i].uid, TRUE)
           ELSE /\ users' = (IF hits = {} THEN users ELSE Counted(i, ls.pw))
                /\ ls' = [ls EXCEPT !.pw = <<>>]
                /\ UNCHANGED <<ident, app>>
                /\ IF hits = {} \/ Locked(users[i]) THEN NoGuess
                   ELSE Guess(users[i].uid, FALSE)
LoginOnly == UNCHANGED <<users, ident, app>> /\ NoGuess
LoginFrame == app = "login" /\ UNCHANGED <<cfg, wz, boots, clicks, fresh>>

KeyEnter == LoginFrame /\ AttemptLogin
KeyBackspace ==
  /\ LoginFrame /\ LoginOnly
  /\ ls' = CASE ls.focus = "password" /\ ls.pw # <<>> -> [ls EXCEPT !.pw = Front(@)]
             [] ls.focus = "username" /\ ls.custom /\ ls.cname # <<>> -> [ls EXCEPT !.cname = Front(@)]
             [] OTHER -> ls
KeyTab ==
  /\ LoginFrame /\ LoginOnly
  /\ ls' = [ls EXCEPT !.focus = CASE ls.focus = "password" -> "button"
                                  [] ls.focus = "button" -> IF ls.custom THEN "username" ELSE "password"
                                  [] OTHER -> "password"]
KeyEsc == LoginFrame /\ LoginOnly /\ ls' = [ls EXCEPT !.pw = <<>>]
KeyChar(c) ==
  /\ LoginFrame /\ LoginOnly
  /\ ls' = CASE ls.focus = "password" /\ Len(ls.pw) < PasswordMax -> [ls EXCEPT !.pw = Append(@, c)]
             [] ls.focus = "username" /\ ls.custom /\ Len(ls.cname) < NameMax -> [ls EXCEPT !.cname = Append(@, c)]
             [] OTHER -> ls

\* handle_mouse_click, by the widget that is hit.
ClickAccount(i) ==
  /\ LoginFrame /\ LoginOnly /\ i \in 1..Len(ls.accounts)
  /\ ls' = [ls EXCEPT !.sel = i, !.custom = FALSE, !.pw = <<>>, !.focus = "password"]
ClickOther ==
  /\ LoginFrame /\ LoginOnly
  /\ ls' = [ls EXCEPT !.custom = TRUE, !.pw = <<>>, !.focus = "username"]
ClickField ==
  /\ LoginFrame /\ LoginOnly
  /\ \/ ls.custom /\ ls' = [ls EXCEPT !.focus = "username"]
     \/ ls' = [ls EXCEPT !.focus = "password"]
     \/ ls' = [ls EXCEPT !.pw = <<>>]
\* SYS_SHUTDOWN is root's: the screen's process still is.
ClickShutdown ==
  app = "login" /\ ident.uid = 0 /\ Off
\* The "Sign In" button does what Enter does.
Login == \/ KeyEnter \/ KeyBackspace \/ KeyTab \/ KeyEsc \/ (\E c \in Letters : KeyChar(c))
         \/ (\E i \in 1..MaxUsers : ClickAccount(i)) \/ ClickOther \/ ClickField \/ ClickShutdown

\* SYS_SUDO from the session: the first record with the caller's uid, and
\* only a member of gid 0 becomes root.
Sudo(pw) ==
  /\ app = "session"
  /\ LET hits == {i \in 1..MaxUsers : users[i].used /\ users[i].uid = ident.uid}
         i == Min(hits)
     IN /\ hits # {}
        /\ users' = Counted(i, pw)
        /\ ident' = (IF Right(users[i], pw) /\ users[i].gid = 0 THEN [uid |-> 0, gid |-> 0] ELSE ident)
        /\ IF Locked(users[i]) THEN NoGuess
           ELSE Guess(ident.uid, Right(users[i], pw))
  /\ UNCHANGED <<cfg, app, ls, wz, boots, clicks, fresh>>
Logout == /\ app = "session" /\ app' = "idle" /\ ident' = [uid |-> 0, gid |-> 0]
          /\ UNCHANGED <<users, cfg, ls, wz, boots, clicks, fresh>> /\ NoGuess

---------------------------------------------------------------------------
(* firstrun.rs *)

StartWizard ==
  /\ app = "idle" /\ app' = "wizard" /\ wz' = FreshWizard
  /\ UNCHANGED <<users, cfg, ident, ls, boots, clicks, fresh>> /\ NoGuess
QuitWizard ==
  /\ app = "wizard" /\ app' = "idle" /\ wz' = FreshWizard
  /\ UNCHANGED <<users, cfg, ident, ls, boots, clicks, fresh>> /\ NoGuess
WizardClick == /\ app = "wizard" /\ clicks < MaxClicks /\ clicks' = clicks + 1
               /\ UNCHANGED <<users, app, ident, ls, boots>> /\ NoGuess
WizardOnly == WizardClick /\ UNCHANGED <<cfg, fresh>>

\* The navigation row: Next stops short of applying, a badge jumps anywhere.
Navigate ==
  /\ WizardOnly
  /\ \E s \in 1..7 : wz' = [wz EXCEPT !.step = Steps[s]]
ChooseIdentity ==
  /\ WizardOnly /\ wz.step = "identity"
  /\ \/ \E p \in 1..3 : wz' = [wz EXCEPT !.host = p]
     \/ wz' = [wz EXCEPT !.init = IF @ = 3 THEN 1 ELSE @ + 1]
ChooseAccount ==
  /\ WizardOnly /\ wz.step = "account"
  /\ \/ \E p \in 1..3 : wz' = [wz EXCEPT !.acct = p]
     \/ wz' = [wz EXCEPT !.mask = ~@]
Flip(S, x) == IF x \in S THEN S \ {x} ELSE S \cup {x}
ChooseNetwork ==
  /\ WizardOnly /\ wz.step = "network"
  /\ \/ wz' = [wz EXCEPT !.net.dhcp = ~@]
     \/ wz' = [wz EXCEPT !.net.drop = ~@]
     \/ \E s \in {"ssh", "http", "icmp"} : wz' = [wz EXCEPT !.net.allow = Flip(@, s)]
\* Choosing the high-contrast theme chooses its cursor, leaving it takes it back.
Themed(p, t) == [p EXCEPT !.theme = t, !.hc = (t = "contrast"), !.cursor = IF t = "contrast" THEN "contrast" ELSE "dark"]
NextCursor(c) == CASE c = "dark" -> "classic" [] c = "classic" -> "amber" [] c = "amber" -> "contrast" [] OTHER -> "dark"
ChoosePreferences ==
  /\ WizardOnly /\ wz.step = "preferences"
  /\ \/ \E t \in {"dark", "light", "contrast"} : wz' = [wz EXCEPT !.pref = Themed(@, t)]
     \/ \E s \in 1..4 : wz' = [wz EXCEPT !.pref.scale = s]
     \/ wz' = [wz EXCEPT !.pref.cursor = NextCursor(@)]
     \/ wz' = [wz EXCEPT !.pref = Themed(@, IF wz.pref.theme = "contrast" THEN "dark" ELSE "contrast")]

SystemCfg == [host |-> wz.host, user |-> Presets[wz.acct].name, init |-> wz.init]
\* to_users_cfg: one record, uid 0; its first byte is 1.
UsersCfg ==
  LET salt == Salt(99, Presets[wz.acct].name)
      rec == [len |-> 1, name |-> Presets[wz.acct].name, uid |-> 0, gid |-> 0, salt |-> salt,
              hash |-> Hash(Presets[wz.acct].pw, salt)]
  IN [i \in 1..MaxUsers |-> IF i = 1 THEN rec ELSE Saved(NoUsers)[i]]
FirewallCfg == <<IF wz.net.drop THEN "drop" ELSE "accept", wz.net.allow>>
AccessCfg == wz.pref
\* apply_all_configurations: four writes, each tried whatever the others did.
ExecuteApply ==
  /\ WizardClick /\ wz.step = "review"
  /\ \E ok \in [{"system", "users", "firewall", "access"} -> BOOLEAN] :
       /\ cfg' = [system |-> WriteFile(cfg.system, SystemCfg, ok["system"]),
                  users |-> WriteFile(cfg.users, UsersCfg, ok["users"]),
                  firewall |-> WriteFile(cfg.firewall, FirewallCfg, ok["firewall"]),
                  access |-> WriteFile(cfg.access, AccessCfg, ok["access"])]
       /\ fresh' = (fresh /\ cfg.users' = cfg.users)
       /\ LET all == \A f \in DOMAIN ok : Written(cfg[f], ok[f])
          IN wz' = [wz EXCEPT !.applied = all, !.step = IF all THEN "complete" ELSE @]
Wizard == \/ Navigate \/ ChooseIdentity \/ ChooseAccount \/ ChooseNetwork \/ ChoosePreferences \/ ExecuteApply

---------------------------------------------------------------------------
AcctInit ==
  /\ users = NoUsers /\ app = "off" /\ ident = [uid |-> 0, gid |-> 0]
  /\ cfg \in { [system |-> {}, users |-> {}, firewall |-> {}, access |-> {}],
               [system |-> {[host |-> 1, user |-> <<>>, init |-> 1]}, users |-> {Shipped}, firewall |-> {}, access |-> {}] }
  /\ ls = FreshLogin({}) /\ wz = FreshWizard
  /\ boots = 0 /\ clicks = 0
  /\ fresh = TRUE /\ misses = [u \in Uids |-> 0] /\ pastLimit = FALSE

AcctNext ==
  \/ Boot \/ PowerOff
  \/ StartLogin \/ Login \/ Logout \/ (\E pw \in Tries : Sudo(pw))
  \/ StartWizard \/ QuitWizard \/ Wizard

---------------------------------------------------------------------------

\* Every account the login screen offers from USERS.CFG is one the kernel knows by
\* that name, when the file is as the kernel loaded it (users.rs: a record is
\* "username_len(1) + username(32, zero-padded)"; firstrun.rs, to_users_cfg).
OfferedAccountsExist ==
  app = "login" /\ fresh /\ ListedFile(cfg.users) # <<>> =>
    \A i \in 1..Len(ls.accounts) : \E u \in 1..MaxUsers : Named(users[u], ls.accounts[i].name)
=============================================================================
