---------------------------- MODULE Settings ----------------------------
(***************************************************************************)
(* The settings shell (userland/settings-rs/settings.rs): its in-memory    *)
(* configurations, the files they are loaded from and saved to, and what a *)
(* click on each panel's buttons does.  The firewall panel is the module   *)
(* FirewallPanel and the updates panel the module Update.                  *)
(*                                                                         *)
(* A file is [st |-> "none" | "bad" | "ok", data |-> its records].  The    *)
(* kernel's SYS_WRITE_FILE creates files and never replaces one            *)
(* (fat32_write_file returns false when the name exists), which is the     *)
(* reason a save can fail.  `session` is the set of panels the user opens  *)
(* in this run of the program: the environment's bound.                    *)
(***************************************************************************)
EXTENDS Naturals, Sequences, SequencesExt, FiniteSetsExt

CONSTANTS
    Sessions,
    MaxUsers,
    UidBound,
    UserPresets,
    Seeded,
    Hostnames,
    FontScales,
    Devices

VARIABLES
    disk,
    cfg,
    ui,
    live,
    dev,
    status,
    dirty,
    session

setVars == <<disk, cfg, ui, live, dev, status, dirty, session>>

-----------------------------------------------------------------------------
(* The accounts *)

Gid(uid, admin) == IF admin THEN 0 ELSE IF uid # 0 THEN uid ELSE 1000

(* The salt is derived from a seed and the name; the seed is left out *)
Cred(name, pw) == [salt |-> name, hash |-> pw]

UserRecord(name, uid, admin, pw) ==
    [name |-> name, uid |-> uid, gid |-> Gid(uid, admin),
     cred |-> Cred(name, pw)]

is_admin(u) == u.gid = 0

AdminsOf(us) == {i \in DOMAIN us : is_admin(us[i])}

admin_count(us) == Cardinality(AdminsOf(us))

find_user(us, name) == {i \in DOMAIN us : us[i].name = name}

next_available_uid(us) ==
    Max({999} \cup {us[i].uid : i \in DOMAIN us}) + 1

MayAdd(us, name, pw) ==
    /\ name # ""
    /\ find_user(us, name) = {}
    /\ pw # ""
    /\ Len(us) < MaxUsers

MayDeleteUnguarded(us, i) == i \in DOMAIN us /\ Len(us) > 1

MayDelete(us, i) ==
    /\ i \in DOMAIN us
    /\ Len(us) > 1
    /\ ~(is_admin(us[i]) /\ admin_count(us) <= 1)

MayToggle(us, i) ==
    /\ i \in DOMAIN us
    /\ ~(is_admin(us[i]) /\ admin_count(us) <= 1)

Toggled(us, i) == [us EXCEPT ![i].gid = Gid(us[i].uid, ~is_admin(us[i]))]

(* USERS.CFG has MaxUsers slots, each empty or holding one record *)
UsersToBytes(us) ==
    [i \in 1..MaxUsers |-> IF i <= Len(us) THEN {us[i]} ELSE {}]

UsersParse(slots) ==
    FlattenSeq([i \in DOMAIN slots |-> SetToSeq(slots[i])])

-----------------------------------------------------------------------------
(* The other configuration files *)

NextPolicy(p) ==
    [always |-> "on-crash", on |-> "never", never |-> "always"]
        [IF p = "on-crash" THEN "on" ELSE p]

from_str(p) == IF p \in {"always", "on-crash"} THEN p ELSE "never"

(* A line of SERVICES.CFG: the fields between the bars *)
ServiceLine(s) ==
    <<s.name, s.restart, IF s.trusted THEN "yes" ELSE "no">>

ServicesToBytes(ss) == <<<<"name">>>> \o [i \in DOMAIN ss |-> ServiceLine(ss[i])]

ServicesParse(lines) ==
    LET kept == SelectSeq(lines, LAMBDA l : l[1] # "name" /\ Len(l) >= 2)
    IN  [i \in DOMAIN kept |->
            [name |-> kept[i][1], restart |-> from_str(kept[i][2]),
             trusted |-> Len(kept[i]) > 2 /\ kept[i][3] \in {"yes", "true"}]]

DisplayDefault ==
    [theme |-> "Dark", cursor |-> "ModernDark", font |-> 100,
     hcCursor |-> FALSE, focus |-> FALSE, large |-> FALSE, sheen |-> TRUE]

ThemeByte == <<"Dark", "Light", "HighContrast">>

CursorByte == <<"Classic", "ModernDark", "ModernLight", "Amber", "HighContrast">>

Serialize(d) ==
    [theme |-> CHOOSE i \in 1..3 : ThemeByte[i] = d.theme,
     font |-> d.font,
     cursor |-> CHOOSE i \in 1..5 : CursorByte[i] = d.cursor,
     flags |-> <<d.hcCursor, d.focus, d.large>>]

from_percent(pct) ==
    IF pct >= 180 THEN 200 ELSE IF pct >= 140 THEN 150
    ELSE IF pct >= 115 THEN 125 ELSE 100

Deserialize(b) ==
    LET th == ThemeByte[b.theme]
    IN  [theme |-> th, cursor |-> CursorByte[b.cursor],
         font |-> from_percent(b.font), hcCursor |-> b.flags[1],
         focus |-> b.flags[2], large |-> b.flags[3],
         sheen |-> th # "HighContrast"]

Themed(d, th) ==
    LET hc == th = "HighContrast"
    IN  [d EXCEPT !.theme = th,
                  !.cursor = IF hc THEN "HighContrast" ELSE "ModernDark",
                  !.hcCursor = hc, !.focus = hc]

CycleTheme(th) ==
    [Dark |-> "Light", Light |-> "HighContrast", HighContrast |-> "Dark"][th]

CycleCursor(c) ==
    [ModernDark |-> "Classic", Classic |-> "Amber", Amber |-> "HighContrast",
     HighContrast |-> "ModernLight", ModernLight |-> "ModernDark"][c]

SystemDefault == [host |-> "novaos", init |-> "SHELL.ELF"]

ServicesDefault ==
    << [name |-> "network-check", restart |-> "always", trusted |-> FALSE] >>

FileData ==
    [system |-> SystemDefault, users |-> UsersToBytes(Seeded),
     services |-> ServicesToBytes(ServicesDefault),
     access |-> Serialize(DisplayDefault)]

Encoded(f) ==
    CASE f = "system" -> cfg.system
      [] f = "users" -> UsersToBytes(cfg.users)
      [] f = "services" -> ServicesToBytes(cfg.services)
      [] f = "access" -> Serialize(cfg.access)

Parsed(f, data) ==
    CASE f = "system" -> data
      [] f = "users" -> UsersParse(data)
      [] f = "services" -> ServicesParse(data)
      [] f = "access" -> Deserialize(data)

FileOf(p) ==
    [System |-> "system", Users |-> "users", Services |-> "services",
     Display |-> "access"][p]

-----------------------------------------------------------------------------
(* Loading and saving *)

Loaded(f) == IF disk[f].st = "ok" THEN Parsed(f, disk[f].data) ELSE cfg[f]

(* SYS_WRITE_FILE creates a file; a name that exists is refused *)
Creates(f) == disk[f].st = "none"

Written(f, data) ==
    disk' = IF Creates(f) THEN [disk EXCEPT ![f] = [st |-> "ok", data |-> data]]
            ELSE disk

(* save_users_cfg and the message its caller shows whatever it returned *)
save_users_cfg(us, said) ==
    /\ Written("users", UsersToBytes(us))
    /\ dirty' = ~Creates("users")
    /\ cfg' = [cfg EXCEPT !.users = us]
    /\ status' = said

(* What the kernel answers: how many services its supervisor reports, how *)
(* many devices it enumerates, or an error; the answer is new only in a   *)
(* session that looks at it.                                               *)
ServicesSync ==
    \/ UNCHANGED live
    \/ \E n \in 1..3 :
          /\ "Services" \in session
          /\ live' = [live EXCEPT !.count = n,
                               !.sel = IF live.sel > n THEN 1 ELSE live.sel]

DevicesSync ==
    \/ UNCHANGED dev
    \/ \E n \in 0..Len(Devices) :
          /\ "Devices" \in session
          /\ dev' = [dev EXCEPT !.count = n]

Shown == {i \in 1..dev.count : dev.filter \in {"All", Devices[i]}}

-----------------------------------------------------------------------------
(* The shell: panels, save, reload *)

(* The user acts on a panel of this session *)
Uses(p) == ui.panel = p /\ p \in session

Said(s) == status' = s

Marks == dirty' = TRUE

SelectPanel(p) ==
    /\ p \in session
    /\ ui' = [ui EXCEPT !.panel = p]
    /\ Said("")
    /\ UNCHANGED <<disk, cfg, live, dev, dirty, session>>

SaveFile ==
    /\ ui.panel \in session \ {"Devices"}
    /\ Written(FileOf(ui.panel), Encoded(FileOf(ui.panel)))
    /\ dirty' = (dirty /\ ~Creates(FileOf(ui.panel)))
    /\ Said("")
    /\ UNCHANGED <<cfg, ui, live, dev, session>>

SaveDevices ==
    /\ Uses("Devices")
    /\ DevicesSync
    /\ Said("")
    /\ dirty' = FALSE
    /\ UNCHANGED <<disk, cfg, ui, live, session>>

ReloadAll ==
    /\ cfg' = [f \in DOMAIN cfg |-> Loaded(f)]
    /\ ServicesSync
    /\ DevicesSync
    /\ Said("")
    /\ dirty' = FALSE
    /\ UNCHANGED <<disk, ui, session>>

(* Another program deletes a file: the only way it can be written again *)
DeleteFile(f) ==
    /\ disk[f].st # "none"
    /\ \E p \in session \ {"Devices"} : f = FileOf(p)
    /\ disk' = [disk EXCEPT ![f] = [st |-> "none", data |-> FileData[f]]]
    /\ UNCHANGED <<cfg, ui, live, dev, status, dirty, session>>

-----------------------------------------------------------------------------
(* The system panel *)

SystemToggleInit ==
    /\ Uses("System")
    /\ cfg' = [cfg EXCEPT !.system.init =
                  IF @ = "SHELL.ELF" THEN "NOVAINIT.ELF" ELSE "SHELL.ELF"]
    /\ Said("") /\ Marks
    /\ UNCHANGED <<disk, ui, live, dev, session>>

SystemPresetHostname(h) ==
    /\ Uses("System")
    /\ cfg' = [cfg EXCEPT !.system.host = h]
    /\ Said("") /\ Marks
    /\ UNCHANGED <<disk, ui, live, dev, session>>

-----------------------------------------------------------------------------
(* The users panel *)

Viewing(v) == Uses("Users") /\ ui.view = v

(* Back to the list; a form is cleared when it opens, here when it closes *)
Listed(i) == [ui EXCEPT !.view = "List", !.sel = i, !.name = "", !.pw = "",
                        !.admin = FALSE, !.uid = 1000]

UsersSelectAccount(i) ==
    /\ Viewing("List")
    /\ i \in DOMAIN cfg.users
    /\ ui' = [ui EXCEPT !.sel = i]
    /\ Said("")
    /\ UNCHANGED <<disk, cfg, live, dev, dirty, session>>

UsersOpenCreateForm ==
    /\ Viewing("List")
    /\ next_available_uid(cfg.users) <= UidBound
    /\ ui' = [ui EXCEPT !.view = "Create", !.name = "", !.pw = "",
                        !.admin = FALSE, !.uid = next_available_uid(cfg.users)]
    /\ Said("")
    /\ UNCHANGED <<disk, cfg, live, dev, dirty, session>>

UsersCancelForm ==
    /\ Viewing("Create") \/ Viewing("Password")
    /\ ui' = Listed(ui.sel)
    /\ Said("")
    /\ UNCHANGED <<disk, cfg, live, dev, dirty, session>>

UsersFormToggleAdmin ==
    /\ Viewing("Create")
    /\ ui' = [ui EXCEPT !.admin = ~@]
    /\ UNCHANGED <<disk, cfg, live, dev, status, dirty, session>>

(* The presets fill in the password and its confirmation alike *)
UsersFormPreset(p) ==
    /\ \/ Viewing("Create") /\ ~p.change
       \/ Viewing("Password") /\ p.change
    /\ ui' = [ui EXCEPT !.name = p.name, !.admin = p.admin, !.pw = p.pw]
    /\ UNCHANGED <<disk, cfg, live, dev, status, dirty, session>>

UsersSubmitCreate ==
    /\ Viewing("Create")
    /\ IF MayAdd(cfg.users, ui.name, ui.pw)
       THEN /\ save_users_cfg(Append(cfg.users,
                   UserRecord(ui.name, ui.uid, ui.admin, ui.pw)),
                   "saved to USERS.CFG")
            /\ ui' = Listed(Len(cfg.users) + 1)
       ELSE UNCHANGED <<disk, cfg, ui, status, dirty>>
    /\ UNCHANGED <<live, dev, session>>

UsersToggleAdmin ==
    /\ Viewing("List")
    /\ ui.sel \in DOMAIN cfg.users
    /\ IF MayToggle(cfg.users, ui.sel)
       THEN save_users_cfg(Toggled(cfg.users, ui.sel), "")
       ELSE Said("") /\ UNCHANGED <<disk, cfg, dirty>>
    /\ UNCHANGED <<ui, live, dev, session>>

UsersDeleteAccount ==
    /\ Viewing("List")
    /\ ui.sel \in DOMAIN cfg.users
    /\ IF MayDelete(cfg.users, ui.sel)
       THEN /\ save_users_cfg(RemoveAt(cfg.users, ui.sel), "saved to USERS.CFG")
            /\ ui' = [ui EXCEPT !.sel = Min({@, Len(cfg.users) - 1})]
       ELSE Said("") /\ UNCHANGED <<disk, cfg, ui, dirty>>
    /\ UNCHANGED <<live, dev, session>>

UsersOpenChangePassword ==
    /\ Viewing("List")
    /\ ui.sel \in DOMAIN cfg.users
    /\ ui' = [ui EXCEPT !.view = "Password", !.pw = ""]
    /\ Said("")
    /\ UNCHANGED <<disk, cfg, live, dev, dirty, session>>

UsersSubmitChangePassword ==
    /\ Viewing("Password")
    /\ IF ui.pw # "" /\ ui.sel \in DOMAIN cfg.users
       THEN /\ save_users_cfg([cfg.users EXCEPT ![ui.sel].cred =
                    Cred(cfg.users[ui.sel].name, ui.pw)],
                    "saved to USERS.CFG")
            /\ ui' = Listed(ui.sel)
       ELSE UNCHANGED <<disk, cfg, ui, status, dirty>>
    /\ UNCHANGED <<live, dev, session>>

-----------------------------------------------------------------------------
(* The services panel *)

ServicesSelectRow(i) ==
    /\ Uses("Services") /\ live.view = "Live"
    /\ i <= live.count
    /\ live' = [live EXCEPT !.sel = i]
    /\ Said("")
    /\ UNCHANGED <<disk, cfg, ui, dev, dirty, session>>

ServicesToggleViewMode ==
    /\ Uses("Services")
    /\ live' = [live EXCEPT !.view = IF @ = "Live" THEN "Config" ELSE "Live"]
    /\ Said("")
    /\ UNCHANGED <<disk, cfg, ui, dev, dirty, session>>

ServicesRefresh ==
    /\ Uses("Services") /\ live.view = "Live"
    /\ ServicesSync
    /\ Said("")
    /\ UNCHANGED <<disk, cfg, ui, dev, dirty, session>>

(* Restart, stop and start ask the supervisor for the selected row's name, *)
(* then read its table again.                                              *)
ServicesControl ==
    /\ Uses("Services") /\ live.view = "Live"
    /\ IF live.sel <= live.count
       THEN ServicesSync ELSE UNCHANGED live
    /\ Said("")
    /\ UNCHANGED <<disk, cfg, ui, dev, dirty, session>>

ServicesToggleRestart(i) ==
    /\ Uses("Services") /\ live.view = "Config"
    /\ i \in DOMAIN cfg.services
    /\ cfg' = [cfg EXCEPT !.services[i].restart = NextPolicy(@)]
    /\ Said("") /\ Marks
    /\ UNCHANGED <<disk, ui, live, dev, session>>

-----------------------------------------------------------------------------
(* The display and devices panels *)

Displays(d) ==
    /\ Uses("Display")
    /\ cfg' = [cfg EXCEPT !.access = d]
    /\ Said("") /\ Marks
    /\ UNCHANGED <<disk, ui, live, dev, session>>

DisplayCycleTheme == Displays(Themed(cfg.access, CycleTheme(cfg.access.theme)))

DisplayToggleHighContrast ==
    Displays(Themed(cfg.access,
        IF cfg.access.theme = "HighContrast" THEN "Dark" ELSE "HighContrast"))

DisplaySetFontScale(pct) == Displays([cfg.access EXCEPT !.font = pct])

DisplayCycleCursor ==
    Displays([cfg.access EXCEPT !.cursor = CycleCursor(@)])

DevicesShow(d) ==
    /\ Uses("Devices")
    /\ dev' = d
    /\ Said("") /\ Marks
    /\ UNCHANGED <<disk, cfg, ui, live, session>>

DevicesToggleViewMode ==
    DevicesShow([dev EXCEPT !.view = IF @ = "Tree" THEN "Drivers" ELSE "Tree"])

DevicesSelectCategory(c) ==
    LET hit == {i \in 1..dev.count : c \in {"All", Devices[i]}}
    IN  /\ dev.view = "Tree"
        /\ DevicesShow([dev EXCEPT !.filter = c,
                            !.sel = IF hit = {} THEN @ ELSE Min(hit)])

DevicesSelectDevice(i) ==
    /\ dev.view = "Tree"
    /\ i \in Shown
    /\ DevicesShow([dev EXCEPT !.sel = i])

DevicesRescan ==
    /\ Uses("Devices")
    /\ DevicesSync
    /\ Said("") /\ Marks
    /\ UNCHANGED <<disk, cfg, ui, live, session>>

-----------------------------------------------------------------------------

(* init(): the built-in defaults, then reload_all() *)
SetInit ==
    /\ session \in Sessions
    /\ \E st \in {"none", "bad", "ok"} :
          /\ disk = [f \in DOMAIN FileData |-> [st |-> st, data |-> FileData[f]]]
          /\ cfg = [f \in DOMAIN FileData |-> Parsed(f, FileData[f])]
    /\ ui = [panel |-> "System", view |-> "List", sel |-> 1, name |-> "",
             pw |-> "", admin |-> FALSE, uid |-> 1000]
    /\ live = [view |-> "Live", count |-> 3, sel |-> 1]
    /\ dev = [view |-> "Tree", filter |-> "All", sel |-> 1, count |-> Len(Devices)]
    /\ status = ""
    /\ dirty = FALSE

SetNext ==
    \/ \E p \in session : SelectPanel(p)
    \/ SaveFile
    \/ SaveDevices
    \/ ReloadAll
    \/ \E f \in DOMAIN disk : DeleteFile(f)
    \/ SystemToggleInit
    \/ \E h \in Hostnames : SystemPresetHostname(h)
    \/ \E i \in 1..MaxUsers : UsersSelectAccount(i)
    \/ UsersOpenCreateForm
    \/ UsersCancelForm
    \/ UsersFormToggleAdmin
    \/ \E p \in UserPresets : UsersFormPreset(p)
    \/ UsersSubmitCreate
    \/ UsersToggleAdmin
    \/ UsersDeleteAccount
    \/ UsersOpenChangePassword
    \/ UsersSubmitChangePassword
    \/ \E i \in 1..3 : ServicesSelectRow(i)
    \/ ServicesToggleViewMode
    \/ ServicesRefresh
    \/ ServicesControl
    \/ \E i \in DOMAIN cfg.services : ServicesToggleRestart(i)
    \/ DisplayCycleTheme
    \/ DisplayToggleHighContrast
    \/ \E pct \in FontScales : DisplaySetFontScale(pct)
    \/ DisplayCycleCursor
    \/ DevicesToggleViewMode
    \/ \E c \in Range(Devices) \cup {"All", "Audio"} : DevicesSelectCategory(c)
    \/ \E i \in DOMAIN Devices : DevicesSelectDevice(i)
    \/ DevicesRescan

SetSpec == SetInit /\ [][SetNext]_setVars

-----------------------------------------------------------------------------

(* The last-administrator safeguards of delete_account and toggle_admin    *)
(* hold over every sequence of creations, deletions, role changes, saves,  *)
(* refused saves, file deletions and reloads: the accounts in memory, and  *)
(* those in a readable USERS.CFG, always include an administrator.         *)
AdminRemains ==
    /\ AdminsOf(cfg.users) # {}
    /\ disk["users"].st = "ok" => AdminsOf(UsersParse(disk["users"].data)) # {}

(* When the panel says that an account was created, deleted or given a new *)
(* password and saved to USERS.CFG, USERS.CFG holds the accounts the panel *)
(* shows.                                                                  *)
SavedAsReported ==
    [][status' = "saved to USERS.CFG"
          /\ cfg'.users # cfg.users
        => disk'["users"].st = "ok" /\ UsersParse(disk'["users"].data) = cfg'.users]_setVars

=============================================================================
