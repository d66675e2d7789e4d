---------------------------- MODULE ToolScreens -----------------------------
(***************************************************************************)
(* The tools of the desktop, the login screen, the first-run wizard and the *)
(* file manager: what each draws, and what its click handler tests, in     *)
(* order.                                                                  *)
(***************************************************************************)
EXTENDS Layout

(* installer.rs: a card below a stepper, a navigation bar at the bottom. *)
Steps == <<"Welcome", "Disk", "Account", "Summary", "Installing", "Complete">>
StepNo(v) == CHOOSE i \in DOMAIN Steps : Steps[i] = v.tab
CardW(v) == Max({v.w - 48, 300})
CardH(v) == Max({v.h - 140, 200})
FieldW(v) == Min({CardW(v) - 60, 380})

(* What the button on the right does in this step, if it is enabled. *)
MayAdvance(v) ==
    CASE v.tab = "Account"    -> "valid" \in v.flags
      [] v.tab = "Summary"    -> "confirm" \in v.flags
      [] v.tab = "Installing" -> "done" \in v.flags
      [] OTHER -> TRUE

DrawnStepper(v) ==
    Row("Step", Min({StepNo(v), 4}), v.w - 6 * 98 - 24, 16, 98, 0, 90, 24)

DrawnNavigation(v) ==
    When(v.tab \in {"Disk", "Account", "Summary"}, One("Back", 0, 24, v.h - 52, 100, 36))
      \o When(MayAdvance(v), One("Next", 0, v.w - 170, v.h - 52, 146, 36))
      \o When(v.tab = "Complete", One("Quit", 0, 24, v.h - 52, 120, 36))

DrawnDiskStep(v) ==
    LET pw == (CardW(v) - 68) \div 3 IN
    Row("SelectDisk", 3, 48, 68 + 68, 0, 48, CardW(v) - 48, 40)
      \o Row("SelectPreset", 3, 48, 68 + 316, pw + 10, 0, pw, 32)

DrawnAccountStep(v) ==
    Row("Field", 4, 48, 68 + 86, 0, 54, FieldW(v), 32)
      \o Row("Session", 2, 24 + FieldW(v) + 66, 68 + 134, 0, 56, CardW(v) - FieldW(v) - 106, 48)

DrawnSummaryStep(v) == One("ConfirmFormat", 0, 48, 68 + 286, CardW(v) - 48, 28)

InstallerDrawn(v) ==
    DrawnStepper(v)
      \o CASE v.tab = "Disk"    -> DrawnDiskStep(v)
           [] v.tab = "Account" -> DrawnAccountStep(v)
           [] v.tab = "Summary" -> DrawnSummaryStep(v)
           [] OTHER -> <<>>
      \o DrawnNavigation(v)

(* The navigation buttons swallow a click even when they do nothing. *)
InstallerHit(v) ==
    LET pw == (CardW(v) - 60) \div 3
        sw == (CardW(v) - 60) \div 2
    IN One(IF v.tab \in {"Disk", "Account", "Summary"} THEN "Back" ELSE Nothing[1], 0, 24, v.h - 52, 100, 36)
         \o One(IF MayAdvance(v) THEN "Next" ELSE Nothing[1], 0, v.w - 170, v.h - 52, 146, 36)
         \o Row("Step", Min({StepNo(v), 4}), 24, 16, 122, 0, 110, 28)
         \o CASE v.tab = "Disk" ->
                   Row("SelectDisk", 3, 44, 68 + 60, 0, 52, CardW(v) - 40, 44)
                     \o Row("SelectPreset", 3, 44, 68 + 60 + 3 * 52 + 56, pw + 10, 0, pw, 36)
              [] v.tab = "Account" ->
                   Row("Field", 4, 44, 68 + 60, 0, 54, FieldW(v), 36)
                     \o Row("Session", 2, 44, 68 + 60 + 224, sw + 10, 0, sw, 44)
              [] v.tab = "Summary" ->
                   One("ConfirmFormat", 0, 48, 68 + CardH(v) - 60, CardW(v) - 48, 30)
              [] v.tab = "Complete" -> One("Quit", 0, 48, v.h - 52, 140, 36)
              [] OTHER -> <<>>
--------------------------------------------------------------------------------
(* store.rs *)
StoreTabs  == <<100, 110, 96, 108>>
Categories == <<40, 112, 56, 96, 64>>               \* 8 * length + 16
StoreCardW(v) == Min({(v.w * 6) \div 10, 600})
InspectorX(v) == 24 + StoreCardW(v)
InspectorW(v) == v.w - InspectorX(v) - 16
CardAction(v) == IF "installed" \in v.flags THEN "Launch" ELSE "Install"

DrawnStoreFrame == Bar("Tab", StoreTabs, 16, 39, 8, 22)
DrawnCategories(v) == When(v.tab = "All", Bar("Category", Categories, 16, 72, 8, 20))

(* Cards are drawn until one would reach the status bar. *)
CardsShown(v, top) == Cardinality({k \in 0..(v.n - 1) : top + 76 * k + 68 <= v.h - 30})
DrawnCards(v) ==
    LET top == IF v.tab = "All" THEN 100 ELSE 72
        bx  == 16 + StoreCardW(v) - 70 - 12
        n   == CardsShown(v, top)
    IN Row("Select", n, 16, top, 0, 76, StoreCardW(v), 68)
         \o Row(CardAction(v), n, bx, top + 22, 0, 76, 70, 24)
         \o When("installed" \in v.flags, Row("Remove", n, bx - 78, top + 22, 0, 76, 70, 24))

DrawnInspector(v) ==
    LET top == IF v.tab = "All" THEN 100 ELSE 72
        bw  == (InspectorW(v) - 24) \div 2
    IN When(InspectorW(v) >= 160 /\ v.h - top - 30 >= 100 /\ v.n > 0,
            One("InstallSelected", 0, InspectorX(v) + 8, top + 240, bw, 28)
              \o When("installed" \in v.flags,
                      One("RemoveSelected", 0, InspectorX(v) + 16 + bw, top + 240, bw, 28)))

DrawnRepoServer == One("ToggleServer", 0, 40, 236, 140, 28) \o One("RefreshServer", 0, 190, 236, 130, 28)
DrawnSecurity == One("Reverify", 0, 40, 144 + 4 * 40 + 10, 220, 28)

StoreDrawn(v) ==
    DrawnStoreFrame
      \o CASE v.tab \in {"All", "Installed"} -> DrawnCategories(v) \o DrawnCards(v) \o DrawnInspector(v)
           [] v.tab = "Repo"     -> DrawnRepoServer
           [] v.tab = "Security" -> DrawnSecurity

(* A click inside a card never reaches what is tested after it. *)
handle_catalog_clicks(v) ==
    LET top == IF v.tab = "All" THEN 102 ELSE 74
        bx  == 16 + StoreCardW(v) - 72 - 12
        bw  == (InspectorW(v) - 24) \div 2
    IN Row(CardAction(v), v.n, bx, top + 22, 0, 76, 72, 24)
         \o When("installed" \in v.flags, Row("Remove", v.n, bx - 80, top + 22, 0, 76, 72, 24))
         \o Row("Select", v.n, 16, top, 0, 76, StoreCardW(v), 68)
         \o When(InspectorW(v) >= 160 /\ v.n > 0,
                 One("InstallSelected", 0, InspectorX(v) + 8, top + 240, bw, 28)
                   \o When("installed" \in v.flags,
                           One("RemoveSelected", 0, InspectorX(v) + 16 + bw, top + 240, bw, 28)))

StoreHit(v) ==
    Bar("Tab", StoreTabs, 16, 38, 8, 24)
      \o When(v.tab = "All", Bar("Category", Categories, 16, 70, 8, 22))
      \o CASE v.tab \in {"All", "Installed"} -> handle_catalog_clicks(v)
           [] v.tab = "Repo"     -> One("ToggleServer", 0, 32, 180, 148, 32)
                                      \o One("RefreshServer", 0, 190, 180, 130, 32)
           [] v.tab = "Security" -> One("Reverify", 0, 32, 280, 188, 32)
--------------------------------------------------------------------------------
(* klog.rs *)
Severities == <<42, 50, 56, 52, 54>>
Facilities == <<40, 64, 64, 48, 40, 32>>            \* 8 * length + 16
Searches   == <<52, 52, 36, 60>>                    \* 8 * length + 12
LogRows    == 14

DrawnLogButtons ==
    One("Pause", 0, 12, 62, 92, 22) \o One("Refresh", 0, 110, 62, 76, 22)
      \o One("Marker", 0, 192, 62, 82, 22) \o One("Clear", 0, 280, 62, 68, 22)
DrawnLogFilters ==
    Bar("Severity", Severities, 430, 62, 6, 22)
      \o Bar("Facility", Facilities, 80, 88, 6, 20)
      \o Bar("Search", Searches, 500, 88, 6, 20)
DrawnLogRows(v) == Row("Entry", Min({v.n, LogRows}), 8, 139, 0, 20, v.w - 30, 20)
DrawnScrollbar(v) == One("Scroll", 0, v.w - 22, 139, 12, LogRows * 20)

LogDrawn(v) == DrawnLogButtons \o DrawnLogFilters \o DrawnLogRows(v) \o DrawnScrollbar(v)

LogHit(v) ==
    One("Pause", 0, 12, 62, 92, 22) \o One("Refresh", 0, 110, 62, 76, 22)
      \o One("Marker", 0, 192, 62, 82, 22) \o One("Clear", 0, 280, 62, 68, 22)
      \o Bar("Severity", Severities, 430, 62, 6, 22)
      \o Bar("Facility", Facilities, 80, 88, 6, 20)
      \o Bar("Search", Searches, 500, 88, 6, 20)
      \o Row("Entry", Min({v.n, LogRows}), 8, 138, 0, 20, v.w - 24, 20)
      \o One("Scroll", 0, v.w - 18, 138, 14, LogRows * 20)
--------------------------------------------------------------------------------
(* actmon.rs; a column header is drawn as its label, eight pixels a letter. *)
DrawnMonitor(v) ==
    Bar("Tab", <<88, 100, 116, 96>>, 200, 12, 6, 26)
      \o One("Refresh", 0, v.w - 180, 12, 80, 26) \o One("Pause", 0, v.w - 94, 12, 82, 26)

DrawnProcesses(v) ==
    Bar("Chip", <<60, 80, 86, 86>>, 12, 118, 6, 24)
      \o One("Sort", 0, 20, 148, 24, 22) \o One("Sort", 1, 72, 148, 96, 22)
      \o One("Sort", 2, 392, 148, 40, 22) \o One("Sort", 3, 472, 148, 48, 22)
      \o Row("Process", Min({v.n, (460 - 172) \div 24}), 12, 172, 0, 24, v.w - 24, 24)

MonitorDrawn(v) == DrawnMonitor(v) \o When(v.tab = "Processes", DrawnProcesses(v))

MonitorHit(v) ==
    Bar("Tab", <<88, 100, 116, 96>>, 200, 12, 6, 26)
      \o One("Refresh", 0, v.w - 180, 12, 80, 26) \o One("Pause", 0, v.w - 94, 12, 82, 26)
      \o When(v.tab = "Processes",
              Bar("Chip", <<60, 80, 86, 86>>, 12, 120, 6, 24)
                \o One("Sort", 0, 16, 154, 54, 22) \o One("Sort", 1, 70, 154, 180, 22)
                \o One("Sort", 2, 360, 154, 70, 22) \o One("Sort", 3, 430, 154, 80, 22)
                \o SelectSeq(Row("Process", v.n, 0, 178, 0, 24, v.w, 24), LAMBDA c : c[4] < 460))
--------------------------------------------------------------------------------
(* crashrep.rs, in the coordinates of its window of 760 by 580. *)
DrawnReporter == One("Close", 0, 724, 6, 26, 20)
DrawnReporterTabs == Bar("Tab", <<140, 160, 150, 140>>, 20, 116, 8, 28)
DrawnRawReport == One("Up", 0, 706, 168, 22, 22) \o One("Down", 0, 706, 479, 22, 22)
DrawnBottomBar ==
    One("Reboot", 0, 20, 528, 110, 32) \o One("Clear", 0, 490, 528, 130, 32)
      \o One("Close", 0, 630, 528, 110, 32)

ReporterDrawn(v) ==
    DrawnReporter \o DrawnReporterTabs \o When(v.tab = "Raw", DrawnRawReport) \o DrawnBottomBar

ReporterHit(v) ==
    One("Close", 0, 724, 6, 26, 20)
      \o One("Tab", 0, 20, 116, 140, 28) \o One("Tab", 1, 168, 116, 160, 28)
      \o One("Tab", 2, 336, 116, 150, 28) \o One("Tab", 3, 494, 116, 140, 28)
      \o One("Close", 0, 630, 528, 110, 32) \o One("Clear", 0, 490, 528, 130, 32)
      \o One("Reboot", 0, 20, 528, 120, 32)
      \o When(v.tab = "Raw", One("Up", 0, 716, 160, 24, 24) \o One("Down", 0, 716, 480, 24, 24))

(* login.rs: render_login_card centres a card of 330, the handler one of 360. *)
LoginX(v) == (v.w - 400) \div 2
DrawnLoginY(v) == (v.h - 330) \div 2 + 30
HitLoginY(v)   == (v.h - 360) \div 2 + 30
ButtonW == (400 - 56) \div 2
Custom(v) == v.mode = "custom"

(* The pills of n accounts with names of four letters, and the one for another user. *)
AccountPills(n) == [i \in 1..(n + 1) |-> IF i <= n THEN 48 ELSE 64]

DrawnAccounts(v) == Bar("Account", AccountPills(v.n), LoginX(v) + 24, DrawnLoginY(v) + 114, 8, 22)

(* The boxes below follow each other downwards from y = 144. *)
DrawnLoginForm(v) ==
    LET x == LoginX(v)
        p == DrawnLoginY(v) + 144 + (IF Custom(v) THEN 38 ELSE 0)
    IN When(Custom(v), One("Username", 0, x + 24, DrawnLoginY(v) + 144, 352, 30))
         \o One("Password", 0, x + 24, p, 352, 32)
         \o One("ShowPassword", 0, x + 344, p + 6, 24, 20)
         \o One("SignIn", 0, x + 24, p + 42, ButtonW, 32)
         \o One("Clear", 0, x + 32 + ButtonW, p + 42, ButtonW, 32)
         \o When("message" \notin v.flags, One("Session", 0, x + 24, p + 84, 352, 22))

DrawnPower(v) == One("Shutdown", 0, v.w - 114, v.h - 30, 90, 24) \o One("Restart", 0, v.w - 206, v.h - 30, 80, 24)

LoginDrawn(v) == DrawnAccounts(v) \o DrawnLoginForm(v) \o DrawnPower(v)

(* The power buttons reach down to the bottom of the screen, and both of *)
(* them call shutdown().                                                  *)
LoginHit(v) ==
    LET x == LoginX(v)
        y == HitLoginY(v)
        p == y + (IF Custom(v) THEN 186 ELSE 154)
        b == y + (IF Custom(v) THEN 236 ELSE 204)
    IN Bar("Account", AccountPills(v.n), x + 24, y + 110, 8, 24)
         \o When(Custom(v), One("Username", 0, x + 24, y + 144, 352, 32))
         \o One("ShowPassword", 0, x + 344, p, 32, 32)
         \o One("Password", 0, x + 24, p, 352, 32)
         \o One("SignIn", 0, x + 24, b, ButtonW, 32)
         \o One("Clear", 0, x + 32 + ButtonW, b, ButtonW, 32)
         \o One("Session", 0, x + 24, b + 44, 352, 24)
         \o One("Shutdown", 0, v.w - 114, v.h - 36, 90, 36)
         \o One("Shutdown", 0, v.w - 206, v.h - 36, 80, 36)
--------------------------------------------------------------------------------
(* firstrun.rs: render starts the form at y = 96, button_at at y = 68. *)
WizardSteps == <<"Welcome", "Identity", "Account", "Network", "Preferences", "Review", "Complete">>

Forward(v) ==
    CASE v.tab = "Review"   -> "ExecuteApply"
      [] v.tab = "Complete" -> "FinishDesktop"
      [] OTHER              -> "NextStep"

DrawnWizardFrame(v) ==
    Row("JumpStep", 7, 16, 10, 82, 0, 76, 24)
      \o When(v.tab # "Welcome", One("PrevStep", 0, 16, v.h - 37, 80, 30))
      \o One(Forward(v), 0, v.w - 136, v.h - 37, 120, 30)

DrawnWizardForm(v) ==
    LET x == 24 + 16
        y == 96
    IN CASE v.tab = "Welcome"  -> One("NextStep", 1, x, y + 166, 160, 34)
         [] v.tab = "Identity" -> Row("IdentityPreset", 3, x, y + 32, 110, 0, 100, 28)
                                    \o One("IdentityToggleInit", 0, x, y + 96, 160, 28)
         [] v.tab = "Account"  -> Row("AccountPreset", 3, x, y + 32, 110, 0, 100, 28)
                                    \o One("AccountToggleMask", 0, x + 190, y + 96, 100, 28)
         [] v.tab = "Network"  -> One("NetworkToggleDhcp", 0, x, y + 32, 150, 28)
                                    \o One("NetworkToggleFirewallPolicy", 0, x + 160, y + 32, 170, 28)
                                    \o Row("NetworkTogglePort", 3, x, y + 96, 110, 0, 100, 26)
         [] OTHER -> <<>>

DrawnWizardEnd(v) ==
    LET x == 24 + 16
        y == 96
    IN CASE v.tab = "Preferences" -> Row("PrefSetTheme", 3, x, y + 32, 110, 0, 100, 28)
                                       \o Row("PrefSetFontScale", 4, x, y + 96, 80, 0, 72, 26)
         [] v.tab = "Review"      -> One("ExecuteApply", 1, x, y + 150, 220, 36)
         [] v.tab = "Complete"    -> One("FinishDesktop", 0, x, y + 130, 160, 34)
                                       \o One("FinishShell", 0, x + 170, y + 130, 160, 34)
         [] OTHER -> <<>>

WizardDrawn(v) == DrawnWizardFrame(v) \o DrawnWizardForm(v) \o DrawnWizardEnd(v)

WizardHit(v) ==
    LET x == 24
        y == 68
    IN Row("JumpStep", 7, 16, 12, 82, 0, 76, 24)
         \o When(v.tab # "Welcome", One("PrevStep", 0, 16, v.h - 48, 80, 36))
         \o One(Forward(v), 0, v.w - 130, v.h - 48, 114, 36)
         \o CASE v.tab = "Welcome"  -> One("NextStep", 1, x, y + 170, 160, 36)
              [] v.tab = "Identity" -> Row("IdentityPreset", 3, x, y + 40, 110, 0, 100, 28)
                                         \o One("IdentityToggleInit", 0, x, y + 104, 160, 28)
              [] v.tab = "Account"  -> Row("AccountPreset", 3, x, y + 40, 110, 0, 100, 28)
                                         \o One("AccountToggleMask", 0, x + 220, y + 104, 120, 28)
              [] v.tab = "Network"  -> One("NetworkToggleDhcp", 0, x, y + 40, 170, 28)
                                         \o One("NetworkToggleFirewallPolicy", 0, x + 180, y + 40, 170, 28)
                                         \o Row("NetworkTogglePort", 3, x, y + 96, 120, 0, 110, 26)
              [] v.tab = "Preferences" -> Row("PrefSetTheme", 3, x, y + 40, 110, 0, 100, 28)
                                            \o Row("PrefSetFontScale", 4, x, y + 96, 80, 0, 74, 26)
                                            \o One("PrefCycleCursor", 0, x, y + 148, 150, 26)
                                            \o One("PrefToggleHighContrast", 0, x + 160, y + 148, 160, 26)
              [] v.tab = "Review"   -> One("ExecuteApply", 1, x, y + 160, 240, 36)
              [] v.tab = "Complete" -> One("FinishDesktop", 0, x, y + 140, 180, 36)
                                         \o One("FinishShell", 0, x + 196, y + 140, 180, 36)
--------------------------------------------------------------------------------
(* files.rs *)
Toolbar == Bar("Toolbar", <<64, 64, 64, 64, 64>>, 120, 4, 6, 24)
Preview(v) == "preview" \in v.flags
Columns(v) == Max({(v.w - 16) \div 76, 1})

DrawnFileRows(v) ==
    SelectSeq(Row("File", v.n, 2, 53, 0, 22, v.w - 4, 22), LAMBDA c : c[4] + 22 <= v.h - 22)

DrawnFileGrid(v) ==
    SelectSeq([i \in 1..v.n |-> <<"File", i - 1, 8 + 76 * ((i - 1) % Columns(v)),
                                  40 + 70 * ((i - 1) \div Columns(v)), 72, 66>>],
              LAMBDA c : c[4] + 70 <= v.h - 22)

DrawnPreview(v) == When(Preview(v), One("ClosePreview", 0, v.w - 100, 51, 60, 20))

(* An open preview covers the files. *)
FilesDrawn(v) ==
    Toolbar \o DrawnPreview(v)
      \o When(~Preview(v), IF v.mode = "List" THEN DrawnFileRows(v) ELSE DrawnFileGrid(v))

(* file_at divides the position by the size of a row or of a card. *)
file_at(v) ==
    IF Preview(v) THEN <<>>
    ELSE IF v.mode = "List" THEN Row("File", v.n, 0, 56, 0, 22, v.w, 22)
    ELSE [i \in 1..v.n |-> <<"File", i - 1, 8 + 76 * ((i - 1) % Columns(v)),
                             44 + 70 * ((i - 1) \div Columns(v)), 76, 70>>]

FilesHit(v) ==
    Toolbar \o When(Preview(v), One("ClosePreview", 0, v.w - 100, 56, 60, 20)) \o file_at(v)
=============================================================================
