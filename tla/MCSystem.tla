------------------------------ MODULE MCSystem ------------------------------
(***************************************************************************)
(* The user side of the system for TLC: accounts and the login screen, the *)
(* package server and the store, the disk installer, the log viewer, the   *)
(* service manager, the activity monitor, the settings and their firewall  *)
(* panel, the layouts of all screens, the file manager, the editor and the *)
(* window manager, and the 3D self-test of the graphics card.  They share  *)
(* no state, so a behaviour drives one of them (focus): the self-test over *)
(* its own variables, and the others over x1 .. x11, which stand for the   *)
(* variables of that one.                                                  *)
(***************************************************************************)
EXTENDS Virgl, TLC

VARIABLES focus, x1, x2, x3, x4, x5, x6, x7, x8, x9, x10, x11

xs == <<x1, x2, x3, x4, x5, x6, x7, x8, x9, x10, x11>>
vars == <<focus, virglVars, xs>>

(* A device with the capset the self-test needs, and one without.          *)
MCCapsets == {<<"virgl", "virgl2">>, <<"virgl2">>}

----------------------------------------------------------------------------
(* Two shipped accounts, locked after two misses, over two boots.          *)
Account(name, uid, gid, pw) ==
  [len |-> Len(name), name |-> name, uid |-> uid, gid |-> gid, salt |-> <<5, name>>, hash |-> <<pw, <<5, name>>>>]
Chosen(name, pw) == [name |-> name, pw |-> pw]
Ac == INSTANCE Accounts WITH Letters <- {"a", "b"}, MaxUsers <- 2, Threshold <- 2, NameMax <- 1, PasswordMax <- 1,
        Shipped <- <<Account(<<"a">>, 700, 700, <<"b">>), Account(<<"a", "b">>, 800, 0, <<"a">>)>>,
        Presets <- <<Chosen(<<"a", "b">>, <<"a">>), Chosen(<<"b">>, <<"b">>), Chosen(<<"b", "a">>, <<"b">>)>>,
        ConsoleUsers <- {Chosen(<<"a">>, <<"b">>)}, Tries <- {<<"a">>, <<"b">>}, MaxClicks <- 2, MaxBoots <- 2,
        users <- x1, cfg <- x2, app <- x3, ident <- x4, ls <- x5, wz <- x6, boots <- x7, clicks <- x8,
        fresh <- x9, misses <- x10, pastLimit <- x11

(* Two clients and two contexts that poll; a sound package and a bad one.  *)
Signed(n, b) == <<[magic |-> TRUE, name |-> n, size |-> Len(b), sig |-> <<n, Len(b), b>>]>> \o b
Forged == <<Signed("e", <<"y">>)[1], "x">>
Re == INSTANCE PkgRepo WITH Clients <- {"c1", "c2"}, Pollers <- {"p1", "p2"}, Files <- {"e"},
        Contents <- {Signed("e", <<"x", "y">>), Forged}, SendCap <- 3, IndexCap <- 2, CountWrap <- 2,
        disk <- x1, server <- x2, buf <- x3, poller <- x4, conn <- x5, got <- x6, seen <- x7

(* Tables of one entry, and fetches that end early or are damaged.         *)
Pk == INSTANCE Packages WITH Names <- {"e", "g"}, FileOrder <- <<"e", "g">>, Catalog <- <<"e">>,
        Contents <- {Signed("e", <<"x">>), Forged},
        Fetched <- {Signed("g", <<"x">>), SubSeq(Signed("g", <<"x">>), 1, 1), <<Signed("g", <<"x">>)[1], "y">>},
        MaxPackages <- 1, MaxInstalled <- 1, SyncCap <- 1, MaxCopies <- 1,
        pkgs <- x1, apps <- x2, db <- x3, items <- x4, st <- x5, sh <- x6, copies <- x7

(* Partition sizes on both sides of every overflow of a 30-bit word.       *)
MCSizes == {<<0, 0, 0, 0>>, <<1, 1, 0, 1>>, <<524288, 1, 1, 1>>, <<524286, 1, 1, 1>>, <<1, 1, 1, 524285>>,
            <<524283, 1, 1, 1>>, <<262144, 262138, 1, 1>>}
In == INSTANCE Install WITH MaxU <- 1073741823, Default <- <<64, 32, 4, 1>>,
        Presets <- <<<<64, 32, 4, 1>>, <<1, 1, 1, 1>>>>,
        Calls <- [total : {0, 100000}, mb : MCSizes, fat32 : {TRUE}, ext2 : BOOLEAN],
        Devices <- <<"ata", "nvme">>, Attached <- {"ata", "nvme"}, System <- "ata",
        active <- x1, job <- x2, disk <- x3, uid <- x4, wiz <- x5

(* A ring of two entries, overwritten twice over.                          *)
Kl == INSTANCE Klog WITH Capacity <- 2, MaxCached <- 2, Batch <- 1, Page <- 1,
        Lines <- {[tag |-> "PANIC", text |-> <<"b", "A">>]}, Severities <- {"All", "ErrorsOnly"},
        Queries <- {<<>>, <<"a">>}, MaxLog <- 4,
        ring <- x1, logged <- x2, view <- x3, poll <- x4, cleared <- x5

(* Three services, one malformed line, two slots in either table.          *)
Sv == INSTANCE Services WITH MaxServices <- 2, MaxRestarts <- 1, Pids <- 1..2, Operators <- {"hi"},
        Lines <- <<<<"name">>, <<"sh", "SHELL", "-", "-", "always", "yes">>, <<"bad">>,
                   <<"hi", "HELLO", "-", "sh", "never", "no">>, <<"net", "PING", "a", "-", "on-crash", "no">>>>,
        services <- x1, procs <- x2, pass <- x3, status <- x4, launched <- x5, quit <- x6

(* Three slots, two programs, of the user and of the kernel.               *)
Program(n, u, c, m) == [name |-> n, user |-> u, cpu |-> c, mem |-> m]
Am == INSTANCE Actmon WITH Slots <- 3, MaxEntries <- 3, MaxPid <- 2, Cpus <- 2,
        Programs <- {Program(1, TRUE, 0, 8), Program(2, FALSE, 40, 2)},
        Categories <- {"All", "Apps"}, Columns <- {"Pid", "Cpu"},
        procs <- x1, pids <- x2, info <- x3, scan <- x4, rows <- x5, ui <- x6

(* A table of two accounts; a session opens one or two of the panels.      *)
Preset(n, a, p, c) == [name |-> n, admin |-> a, pw |-> p, change |-> c]
Se == INSTANCE Settings WITH Sessions <- {{"Users"}, {"System", "Devices"}, {"Services"}, {"Display"}},
        MaxUsers <- 2, UidBound <- 1000,
        UserPresets <- {Preset("bob", TRUE, "b", FALSE), Preset("guest", FALSE, "g", TRUE)},
        Seeded <- <<[name |-> "admin", uid |-> 800, gid |-> 0, cred |-> [salt |-> "admin", hash |-> "q"]]>>,
        Hostnames <- {"novaos", "novaos-dev"}, FontScales <- {100, 200}, Devices <- <<"Storage", "Network">>,
        disk <- x1, cfg <- x2, ui <- x3, live <- x4, dev <- x5, status <- x6, dirty <- x7, session <- x8

(* Two rules, in the panel and in the kernel, and a rule of another tool.  *)
Rule(v, d, port, s) == [verdict |-> v, dir |-> d, port |-> port, state |-> s]
F == INSTANCE FirewallPanel WITH PanelRules <- 2, KernelRules <- 2, OtherDirs <- {"in"}, Foreign <- 1,
        OtherRules <- {Rule("drop", "out", 8080, "any")},
        Presets <- {Rule("accept", "in", 22, "new")},
        Baseline <- <<Rule("accept", "in", 0, "established")>>,
        fw <- x1, fp <- x2, sync <- x3, file <- x4, root <- x5, stale <- x6

(* The tables as the code bounds them, on two screen sizes.                *)
Sc == INSTANCE Screens WITH Sizes <- {<<800, 600>>, <<1024, 768>>}, MaxUsers <- 8, MaxServices <- 16,
        MaxRules <- 32, MaxDevices <- 6, MaxPackages <- 16, MaxAccounts <- 4, MaxFiles <- 64, MaxEntries <- 15,
        view <- x1, did <- x2

(* Files of two and of three blocks, and a copy buffer of two.             *)
Fi == INSTANCE Files WITH BaseW <- 1, ExtW <- 2, NameCut <- 3, Suffix <- <<".", "B", "A">>, ReadMax <- 1,
        CopyMax <- 2, CpMax <- 2, MaxFiles <- 4,
        Present <- <<<<"A">>, <<>>>> :> <<1, 2>> @@ <<<<"B">>, <<"T", "X">>>> :> <<3, 3, 3>>,
        Copies <- {<<<<"B", ".", "T", "X">>, <<"A">>>>, <<<<"A">>, <<"A", ".", "B", "A">>>>}, MaxCommands <- 2,
        fs <- x1, fm <- x2, job <- x3, sh <- x4, commands <- x5

(* Two lines of two characters, and a file longer than one read.           *)
Ed == INSTANCE Editor WITH MaxLines <- 2, MaxChars <- 2, ClipMax <- 1, ReadMax <- 5, WriteMax <- 3, Keys <- {"x"},
        Fonts <- <<[rows |-> 1, cols |-> 1], [rows |-> 2, cols |-> 2]>>,
        OnDisk <- "SYSTEM.CFG" :> <<"x", "cr", "nl", "y", "x", "y">>, MaxEdits <- 2,
        disk <- x1, buf <- x2, view <- x3, file <- x4, clip <- x5, running <- x6, edits <- x7

(* Two windows and eight points: title bars, edges, menus and the dock.    *)
W == INSTANCE Wm WITH ScreenW <- 1024, ScreenH <- 768, Scale <- 100,
        Placed <- <<<<40, 40, 360, 250>>, <<440, 60, 360, 250>>>>, DockApps <- <<1, 2, 5>>,
        MenuTitle <- <<100, 2, 46, 20>>, MenuItem <- <<100, 24, 140, 60>>,
        Points <- {<<478, 38>>, <<120, 50>>, <<5, 300>>, <<385, 53>>, <<990, 35>>, <<110, 10>>, <<60, 740>>, <<310, 740>>},
        MaxPresses <- 4,
        wm <- x1, pressed <- x2, presses <- x3, floated <- x4

----------------------------------------------------------------------------
(* The variables from x_n on, which the component driven does not use.     *)
None == <<>>
From9 == <<x9, x10, x11>>
From8 == <<x8, x9, x10, x11>>
From7 == <<x7, x8, x9, x10, x11>>
From6 == <<x6, x7, x8, x9, x10, x11>>
From5 == <<x5, x6, x7, x8, x9, x10, x11>>
From3 == <<x3, x4, x5, x6, x7, x8, x9, x10, x11>>
Unused9 == x9 = None /\ x10 = None /\ x11 = None
Unused8 == x8 = None /\ Unused9
Unused7 == x7 = None /\ x8 = None /\ Unused9
Unused6 == x6 = None /\ x7 = None /\ x8 = None /\ Unused9
Unused5 == x5 = None /\ Unused6
Unused3 == x3 = None /\ x4 = None /\ Unused5
Unused1 == x1 = None /\ x2 = None /\ Unused3
NoGpu == /\ mode = None /\ pc = None /\ sc = None /\ mem = None /\ img = None /\ caps = None /\ failed = None
         /\ ok = None /\ host = None /\ req = None /\ owed = None /\ used = None /\ faults = None
         /\ late = None /\ dropped = None

Init ==
  \/ focus = "accounts" /\ Ac!AcctInit /\ NoGpu
  \/ focus = "pkgrepo" /\ Re!RepoInit /\ NoGpu /\ Unused8
  \/ focus = "packages" /\ Pk!PkInit /\ NoGpu /\ x1["g"] = {} /\ Unused8
  \/ focus = "install" /\ In!InInit /\ NoGpu /\ Unused6
  \/ focus = "klog" /\ Kl!KlInit /\ NoGpu /\ Unused6
  \/ focus = "services" /\ Sv!SvInit /\ NoGpu /\ Unused7
  \/ focus = "actmon" /\ Am!AmInit /\ NoGpu /\ Unused7
  \/ focus = "settings" /\ Se!SetInit /\ NoGpu /\ Unused9
  \/ focus = "firewall" /\ F!FpInit /\ NoGpu /\ Unused7
  \/ focus = "screens" /\ Sc!ScInit /\ NoGpu /\ Unused3
  \/ focus = "files" /\ Fi!FiInit /\ NoGpu /\ Unused6
  \/ focus = "editor" /\ Ed!EdInit /\ NoGpu /\ Unused8
  \/ focus = "wm" /\ W!WmInit /\ NoGpu /\ Unused5
  \/ focus = "virgl" /\ VirglInit /\ Unused1

Next ==
  /\ focus' = focus
  /\ \/ focus = "accounts" /\ Ac!AcctNext /\ UNCHANGED virglVars
     \/ focus = "pkgrepo" /\ Re!RepoNext /\ UNCHANGED <<virglVars, From8>>
     \/ focus = "packages" /\ Pk!PkNext /\ UNCHANGED <<virglVars, From8>>
     \/ focus = "install" /\ In!InNext /\ UNCHANGED <<virglVars, From6>>
     \/ focus = "klog" /\ Kl!KlNext /\ UNCHANGED <<virglVars, From6>>
     \/ focus = "services" /\ Sv!SvNext /\ UNCHANGED <<virglVars, From7>>
     \/ focus = "actmon" /\ Am!AmNext /\ UNCHANGED <<virglVars, From7>>
     \/ focus = "settings" /\ Se!SetNext /\ UNCHANGED <<virglVars, From9>>
     \/ focus = "firewall" /\ F!FpNext /\ UNCHANGED <<virglVars, From7>>
     \/ focus = "screens" /\ Sc!ScNext /\ UNCHANGED <<virglVars, From3>>
     \/ focus = "files" /\ Fi!FiNext /\ UNCHANGED <<virglVars, From6>>
     \/ focus = "editor" /\ Ed!EdNext /\ UNCHANGED <<virglVars, From8>>
     \/ focus = "wm" /\ W!WmNext /\ UNCHANGED <<virglVars, From5>>
     \/ focus = "virgl" /\ VirglNext /\ UNCHANGED xs

Spec == Init /\ [][Next]_vars

----------------------------------------------------------------------------
\* Packages, InstalledAppsVerified: every application file is the payload of one signed
\* package, whatever the two installers and the network do (store.rs, pkgmgr.c).
InstalledAppsVerified == focus = "packages" => Pk!InstalledAppsVerified
\* Klog, FollowsTheLog: the viewer gets every entry once and in order, but for those the ring
\* had overwritten when it asked (klog.rs).
FollowsTheLog == focus = "klog" => Kl!FollowsTheLog
\* Services, CrashLoopBounded: a service that is always restarted is launched at most
\* MAX_RESTARTS + 1 times between two requests of an operator (novainit.rs).
CrashLoopBounded == focus = "services" => Sv!CrashLoopBounded
\* Actmon, RowsOrdered: the rows shown are those of the copy that match the filter, each
\* once, in the order of the sort column (actmon.rs).
RowsOrdered == focus = "actmon" => Am!RowsOrdered
\* Settings, AdminRemains: the accounts in memory and those in a readable USERS.CFG always
\* include an administrator (settings.rs, delete_account and toggle_admin).
AdminRemains == focus = "settings" => Se!AdminRemains
\* FirewallPanel, PanelMatchesKernel: once it has synchronised, the panel shows what the
\* kernel enforces until another administrator changes it (settings.rs).
PanelMatchesKernel == focus = "firewall" => F!PanelMatchesKernel
\* Screens, CentresAct: a click at the middle of what a program draws does what the control
\* says (button_at, handle_click and the render functions).
CentresAct == focus = "screens" => Sc!CentresAct
\* Wm, PreSnapIsLastFloating: a snapped window remembers the rectangle it last had while it
\* floated (wm.rs).
PreSnapIsLastFloating == focus = "wm" => W!PreSnapIsLastFloating

\* Virgl, PassMeansRendered: the self-test reports success only if the host carried out every
\* command stream, although it answers OK to one it drops (virgl.rs, run_steps).
SelfTestSeesPixels == focus = "virgl" => PassMeansRendered
\* Virgl, LeavesAsFound: wherever the self-test fails, teardown leaves neither context, nor
\* resource, nor memory behind and gives the scanout back (virgl.rs, teardown).
DeviceLeftAsFound == focus = "virgl" => LeavesAsFound

Editing == focus = "editor"
FT == INSTANCE FlatText WITH
        text <- (IF Editing THEN Ed!Flat(x2.lines) ELSE <<>>),
        caret <- (IF Editing THEN Ed!FlatCaret ELSE 0),
        documents <- (IF Editing THEN {Ed!Flat(Ed!Loaded(n).lines) : n \in DOMAIN x1} ELSE {})
=============================================================================
