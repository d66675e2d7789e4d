------------------------------ MODULE Screens -------------------------------
(***************************************************************************)
(* The programs of the desktop under a user who clicks on what is drawn.   *)
(* A view is what a program can show: its panel or step, the sub-view, the *)
(* number of rows in its list and the flags that show a control.  Pressing *)
(* the middle of a drawn control runs the click handler of the program.    *)
(***************************************************************************)
EXTENDS SettingsScreen, ToolScreens

CONSTANTS Sizes,            \* screen sizes <<width, height>>
          MaxUsers, MaxServices, MaxRules, MaxDevices, MaxPackages,
          MaxAccounts, MaxFiles,
          MaxEntries        \* rows of the log and of the process table

VARIABLES view, did         \* what is shown; what was pressed, and what that did

scVars == <<view, did>>

Show(app, tab, modes, rows, flags) ==
    [app: {app}, tab: {tab}, mode: modes, n: rows, flags: flags,
     w: {s[1] : s \in Sizes}, h: {s[2] : s \in Sizes}]

SettingsViews ==
    Show("settings", "System", {""}, {0}, {{}})
      \cup Show("settings", "Users", {"List"}, 0..MaxUsers, {{}, {"admin"}, {"deletable"}, {"admin", "deletable"}})
      \cup Show("settings", "Users", {"Create", "Password"}, {1}, {{}, {"admin"}})
      \cup Show("settings", "Services", {"Live", "Config"}, 0..MaxServices, {{}})
      \cup Show("settings", "Firewall", {"Rules", "Adapter", "Flows"}, 0..MaxRules, {{}})
      \cup Show("settings", "Display", {""}, {0}, {{}})
      \cup Show("settings", "Devices", {"Tree", "Drivers"}, 0..MaxDevices, {{}})
      \cup Show("settings", "Updates", {"Idle", "Checking", "Available", "Confirm", "Applying", "Complete",
                                        "RolledBack"}, {0}, {{}, {"testing"}})

ToolViews ==
    UNION {Show("installer", Steps[i], {""}, {0}, {{}, {"valid", "confirm", "done"}}) : i \in DOMAIN Steps}
      \cup UNION {Show("store", t, {""}, 0..MaxPackages, {{}, {"installed"}}) : t \in {"All", "Installed"}}
      \cup UNION {Show("store", t, {""}, {0}, {{}}) : t \in {"Repo", "Security"}}
      \cup Show("klog", "", {""}, 0..MaxEntries, {{}})
      \cup UNION {Show("actmon", t, {""}, 0..MaxEntries, {{}}) : t \in {"Processes", "Performance"}}
      \cup UNION {Show("crashrep", t, {""}, {0}, {{}}) : t \in {"Overview", "Raw"}}

SessionViews ==
    Show("login", "", {"listed", "custom"}, 0..MaxAccounts, {{}, {"message"}})
      \cup UNION {Show("firstrun", WizardSteps[i], {""}, {0}, {{}}) : i \in DOMAIN WizardSteps}
      \cup Show("files", "", {"List", "Grid"}, 0..MaxFiles, {{}, {"preview"}})

Views == {v \in SettingsViews \cup ToolViews \cup SessionViews : <<v.w, v.h>> \in Sizes}

(* The settings program draws its frame and the panel that is open. *)
SettingsDrawn(v) ==
    DrawnFrame(v)
      \o CASE v.tab = "System"   -> DrawnSystem
           [] v.tab = "Users"    ->
                CASE v.mode = "List"   -> DrawnUserList(v) \o DrawnUserInspector(v)
                  [] v.mode = "Create" -> DrawnCreateForm(v)
                  [] OTHER             -> DrawnPasswordForm
           [] v.tab = "Services" ->
                DrawnServices(v) \o (IF v.mode = "Live" THEN DrawnServicesLive(v) \o DrawnServiceInspector(v)
                                                        ELSE DrawnServicesConfig(v))
           [] v.tab = "Firewall" ->
                DrawnFirewallTabs \o CASE v.mode = "Rules" -> DrawnRules(v)
                                       [] v.mode = "Flows" -> DrawnFlows
                                       [] OTHER -> <<>>
           [] v.tab = "Display"  -> DrawnDisplay
           [] v.tab = "Devices"  ->
                DrawnDevices(v) \o (IF v.mode = "Tree" THEN DrawnDeviceTree(v) ELSE DrawnDriverTable(v))
           [] v.tab = "Updates"  -> DrawnUpdateBanner(v) \o DrawnUpdateStep(v)

Drawn(v) ==
    CASE v.app = "settings"  -> SettingsDrawn(v)
      [] v.app = "installer" -> InstallerDrawn(v)
      [] v.app = "store"     -> StoreDrawn(v)
      [] v.app = "klog"      -> LogDrawn(v)
      [] v.app = "actmon"    -> MonitorDrawn(v)
      [] v.app = "crashrep"  -> ReporterDrawn(v)
      [] v.app = "login"     -> LoginDrawn(v)
      [] v.app = "firstrun"  -> WizardDrawn(v)
      [] v.app = "files"     -> FilesDrawn(v)

Hit(v) ==
    CASE v.app = "settings"  -> button_at(v)
      [] v.app = "installer" -> InstallerHit(v)
      [] v.app = "store"     -> StoreHit(v)
      [] v.app = "klog"      -> LogHit(v)
      [] v.app = "actmon"    -> MonitorHit(v)
      [] v.app = "crashrep"  -> ReporterHit(v)
      [] v.app = "login"     -> LoginHit(v)
      [] v.app = "firstrun"  -> WizardHit(v)
      [] v.app = "files"     -> FilesHit(v)
--------------------------------------------------------------------------------
Idle == <<Nothing, Nothing>>

ScInit == view \in Views /\ did = Idle

Press ==
    /\ did = Idle
    /\ \E k \in DOMAIN Drawn(view) :
        did' = <<Meaning(Drawn(view)[k]), ClickOn(Hit(view), Drawn(view)[k])>>
    /\ UNCHANGED view

Release == did # Idle /\ did' = Idle /\ UNCHANGED view

ScNext == Press \/ Release

ScSpec == ScInit /\ [][ScNext]_scVars

(* The controls whose hit region is somewhere else than their picture: the   *)
(* policy of a service sits one row lower than it is tested, the flush       *)
(* button of the flows eighteen pixels lower; nine services push the last    *)
(* row over the inspector's buttons; rules beyond the screen move the        *)
(* buttons below the table; half of the installer, two tabs of the store and *)
(* the form of the first-run wizard were drawn anew without their handler;   *)
(* the accounts of the login screen are drawn below where they are tested,   *)
(* and its restart button shuts the machine down.                            *)
Adrift(v, control) ==
    LET what == control[1] IN
    \/ v.app = "settings" /\ what \in {"ServicesToggleRestart", "FirewallFlushConns"}
    \/ v.app = "settings" /\ v.tab = "Services" /\ v.n > 8
         /\ what \in {"ServicesRestart", "ServicesStop", "ServicesStart"}
    \/ v.app = "settings" /\ v.tab = "Firewall" /\ v.n > RulesShown(v)
         /\ what \in {"FirewallAddPresetSsh", "FirewallAddPresetHttp", "FirewallDeleteRule", "FirewallSyncKernel"}
    \/ v.app = "installer" /\ what \in {"Step", "SelectPreset", "Field", "Session", "ConfirmFormat", "Quit"}
    \/ v.app = "store" /\ what \in {"ToggleServer", "RefreshServer", "Reverify"}
    \/ v.app = "login" /\ what \in {"Account", "Restart"}
    \/ v.app = "firstrun" /\ what \notin {"JumpStep", "PrevStep", "FinishDesktop", "FinishShell"}
         /\ control \notin {<<"NextStep", 0>>, <<"ExecuteApply", 0>>}

(* A click at the middle of what a program draws does what the control says: *)
(* whatever is shown, however many rows its list has and whatever the size   *)
(* of the screen, no other region of the click handler takes it and none     *)
(* misses it (button_at, handle_click and the render functions).             *)
CentresAct == ~Adrift(view, did[1]) => did[2] = did[1]

(* The same with nothing left out. *)
EveryCentreActs == did[2] = did[1]
=============================================================================
