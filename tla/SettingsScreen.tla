--------------------------- MODULE SettingsScreen ---------------------------
(***************************************************************************)
(* The seven panels of the settings program: the controls the render       *)
(* functions draw, and the regions button_at and its helpers test, in the  *)
(* order they test them.  A view v says which panel and sub-view is shown, *)
(* how many rows its list has, and the flags that show or hide a control.  *)
(***************************************************************************)
EXTENDS Layout

cx == 176
cy == 64
Panels == <<"System", "Users", "Services", "Firewall", "Display", "Devices", "Updates">>

--------------------------------------------------------------------------------
(* Drawn. *)

DrawnFrame(v) ==
    Row("SelectPanel", Len(Panels), 6, 48, 0, 36, 148, 32)
      \o One("SaveCurrent", 0, v.w - 80, 10, 70, 28)
      \o One("ReloadAll", 0, v.w - 165, 10, 75, 28)

DrawnSystem ==
    Row("SystemPresetHostname", 3, cx, cy + 44, 96, 0, 88, 26)
      \o One("SystemToggleInit", 0, cx, cy + 112, 140, 26)

DrawnUpdateBanner(v) ==
    When("testing" \in v.flags,
         One("UpdatesConfirmHealthy", 0, cx + 220, cy + 50, 100, 28)
           \o One("UpdatesRollback", 0, cx + 330, cy + 50, 90, 28))

DrawnUpdateStep(v) ==
    LET wf == cy + 42 + 52 + 76 + 10 IN
    CASE v.mode = "Idle"      -> One("UpdatesCheck", 0, cx + 12, wf + 60, 160, 30)
      [] v.mode = "Available" -> One("UpdatesReview", 0, cx + 12, wf + 58, 130, 30)
                                   \o One("UpdatesResetStep", 0, cx + 152, wf + 58, 90, 30)
      [] v.mode = "Confirm"   -> One("UpdatesConfirmAndApply", 0, cx + 12, wf + 58, 170, 30)
                                   \o One("UpdatesCancel", 0, cx + 192, wf + 58, 90, 30)
      [] v.mode = "Complete"  -> One("UpdatesResetStep", 0, cx + 12, wf + 58, 110, 30)
      [] v.mode = "RolledBack" -> One("UpdatesDismissAlert", 0, cx + 12, wf + 58, 120, 30)
      [] OTHER -> <<>>                                    \* Checking, Applying

DrawnDisplay ==
    One("DisplayCycleTheme", 0, cx, cy + 62, 140, 26)
      \o One("DisplayToggleHighContrast", 0, cx + 150, cy + 62, 190, 26)
      \o Row("DisplaySetFontScale", 4, cx, cy + 118, 96, 0, 90, 24)
      \o One("DisplayCycleCursor", 0, cx, cy + 232, 180, 26)
      \o One("SaveCurrent", 0, cx, cy + 286, 200, 26)

(* The tab that is open is drawn too, but only the other one changes anything. *)
DrawnDevices(v) ==
    When(v.mode # "Tree", One("DevicesToggleViewMode", 0, cx, cy, 110, 24))
      \o When(v.mode # "Drivers", One("DevicesToggleViewMode", 1, cx + 116, cy, 130, 24))
      \o One("DevicesRescan", 0, cx + 380, cy, 70, 22)

DrawnDeviceTree(v) ==
    Row("DevicesSelectCategory", 8, cx, cy + 64, 56, 0, 52, 20)
      \o Row("DevicesSelectDevice", Min({v.n, 5}), cx, cy + 108, 0, 20, 450, 20)

DrawnDriverTable(v) ==
    Row("DevicesSelectDriver", Min({v.n, 5}), cx, cy + 108, 0, 20, 450, 20)

DrawnServices(v) ==
    When(v.mode # "Live", One("ServicesToggleViewMode", 0, cx, cy, 120, 24))
      \o When(v.mode # "Config", One("ServicesToggleViewMode", 0, cx + 126, cy, 120, 24))

DrawnServicesLive(v) ==
    One("ServicesRefresh", 0, cx + 390, cy + 30, 76, 22)
      \o Row("ServicesSelectRow", v.n, cx, cy + 78, 0, 22, 470, 22)

DrawnServiceInspector(v) ==
    When(v.n > 0, One("ServicesRestart", 0, cx + 10, cy + 254, 108, 20)
                    \o One("ServicesStop", 0, cx + 126, cy + 254, 88, 20)
                    \o One("ServicesStart", 0, cx + 222, cy + 254, 88, 20))

DrawnServicesConfig(v) ==
    Row("ServicesToggleRestart", v.n, cx + 226, cy + 72, 0, 24, 74, 18)

DrawnUserList(v) ==
    One("UsersOpenCreateForm", 0, cx + 106, cy + 24, 94, 22)
      \o Row("UsersSelectAccount", v.n, cx, cy + 52, 0, 40, 200, 36)

DrawnUserInspector(v) ==
    LET rx == cx + 212
        ry == cy + 24
    IN When(v.n > 0,
            When("admin" \in v.flags, One("UsersToggleAdmin", 0, rx + 12, ry + 76, 104, 24))
              \o When("admin" \notin v.flags, One("UsersToggleAdmin", 0, rx + 122, ry + 76, 108, 24))
              \o One("UsersOpenChangePassword", 0, rx + 12, ry + 186, 126, 22)
              \o When("deletable" \in v.flags, One("UsersDeleteAccount", 0, rx + 12, ry + 226, 110, 22)))

DrawnCreateForm(v) ==
    LET fx == cx + 10
        fy == cy + 24
    IN Row("UsersFormPreset", 3, fx + 76, fy + 50, 96, 0, 90, 20)
         \o When("admin" \in v.flags, One("UsersFormToggleAdmin", 0, fx + 216, fy + 94, 96, 24))
         \o When("admin" \notin v.flags, One("UsersFormToggleAdmin", 0, fx + 318, fy + 94, 100, 24))
         \o One("UsersSubmitCreate", 0, fx + 16, fy + 230, 130, 26)
         \o One("UsersCancelForm", 0, fx + 158, fy + 230, 80, 26)

DrawnPasswordForm ==
    LET fx == cx + 10
        fy == cy + 24
    IN One("UsersFormPreset", 3, fx + 16, fy + 52, 140, 20)
         \o One("UsersSubmitChangePassword", 0, fx + 16, fy + 180, 130, 26)
         \o One("UsersCancelForm", 0, fx + 158, fy + 180, 80, 26)

(* Only the rules that fit above the status bar are drawn. *)
RulesShown(v) == Cardinality({k \in 0..(v.n - 1) : cy + 82 + 22 * k + 22 <= v.h - 60})

FirewallButtons(by) ==
    One("FirewallAddPresetSsh", 0, cx, by, 96, 22)
      \o One("FirewallAddPresetHttp", 0, cx + 102, by, 96, 22)
      \o One("FirewallDeleteRule", 0, cx + 204, by, 84, 22)
      \o One("FirewallSyncKernel", 0, cx + 294, by, 88, 22)

FirewallPolicies ==
    One("FirewallToggleEnabled", 0, cx, cy + 32, 90, 22)
      \o One("FirewallToggleInbound", 0, cx + 98, cy + 32, 100, 22)
      \o One("FirewallToggleOutbound", 0, cx + 204, cy + 32, 100, 22)

DrawnFirewallTabs == Row("FirewallSelectSubtab", 3, cx, cy, 116, 0, 110, 24)

DrawnRules(v) ==
    FirewallPolicies
      \o Row("FirewallSelectRule", RulesShown(v), cx, cy + 82, 0, 22, Max({v.w - cx - 16, 380}), 20)
      \o FirewallButtons(cy + 82 + 22 * RulesShown(v) + 8)

DrawnFlows == One("FirewallFlushConns", 0, cx, cy + 36 + 22 + 108, 110, 22)
--------------------------------------------------------------------------------
(* Hit. *)

button_at_updates(v) ==
    LET wf == cy + 42 + 52 + 76 + 10 IN
    When("testing" \in v.flags,
         One("UpdatesConfirmHealthy", 0, cx + 220, cy + 50, 100, 28)
           \o One("UpdatesRollback", 0, cx + 330, cy + 50, 90, 28))
    \o CASE v.mode = "Idle"      -> One("UpdatesCheck", 0, cx + 12, wf + 60, 160, 30)
         [] v.mode = "Available" -> One("UpdatesReview", 0, cx + 12, wf + 58, 130, 30)
                                      \o One("UpdatesResetStep", 0, cx + 152, wf + 58, 90, 30)
         [] v.mode = "Confirm"   -> One("UpdatesConfirmAndApply", 0, cx + 12, wf + 58, 170, 30)
                                      \o One("UpdatesCancel", 0, cx + 192, wf + 58, 90, 30)
         [] v.mode = "Complete"  -> One("UpdatesResetStep", 0, cx + 12, wf + 58, 110, 30)
         [] v.mode = "RolledBack" -> One("UpdatesDismissAlert", 0, cx + 12, wf + 58, 120, 30)
         [] OTHER -> <<>>

button_at_devices(v) ==
    When(v.mode # "Tree", One("DevicesToggleViewMode", 0, cx, cy, 110, 24))
      \o When(v.mode # "Drivers", One("DevicesToggleViewMode", 1, cx + 116, cy, 130, 24))
      \o One("DevicesRescan", 0, cx + 380, cy, 70, 22)
      \o When(v.mode = "Tree",
              Row("DevicesSelectCategory", 8, cx, cy + 64, 56, 0, 52, 20)
                \o Row("DevicesSelectDevice", Min({v.n, 5}), cx, cy + 108, 0, 20, 455, 20))
      \o When(v.mode = "Drivers",
              Row("DevicesSelectDriver", Min({v.n, 5}), cx, cy + 108, 0, 20, 455, 20))

(* The row height of the hit test drifts from that of the drawn table. *)
LiveRowsShort(v) == Row("ServicesSelectRow", v.n, cx, cy + 78, 0, 20, 470, 20)

LiveRows(v) == Row("ServicesSelectRow", v.n, cx, cy + 78, 0, 22, 470, 22)

button_at_services(v) ==
    When(v.mode # "Live", One("ServicesToggleViewMode", 0, cx, cy, 110, 24))
      \o When(v.mode # "Config", One("ServicesToggleViewMode", 0, cx + 116, cy, 110, 24))
      \o When(v.mode = "Live",
              One("ServicesRefresh", 0, cx + 380, cy + 30, 80, 22)
                \o LiveRows(v)
                \o One("ServicesRestart", 0, cx + 10, cy + 250, 110, 22)
                \o One("ServicesStop", 0, cx + 126, cy + 250, 90, 22)
                \o One("ServicesStart", 0, cx + 222, cy + 250, 90, 22))
      \o When(v.mode = "Config",
              Row("ServicesToggleRestart", v.n, cx + 220, cy + 44, 0, 24, 90, 24))

button_at_users(v) ==
    LET rx == cx + 212
        ry == cy + 24
        fx == cx + 10
        fy == cy + 24
        role(x, y, w1, w2) ==
            When("admin" \in v.flags, One("UsersFormToggleAdmin", 0, x, y, w1, 24))
              \o When("admin" \notin v.flags, One("UsersFormToggleAdmin", 0, x + 102, y, w2, 24))
    IN CASE v.mode = "List" ->
              One("UsersOpenCreateForm", 0, cx + 106, cy + 24, 94, 22)
                \o Row("UsersSelectAccount", v.n, cx, cy + 52, 0, 40, 200, 36)
                \o When(v.n > 0,
                        When("admin" \in v.flags, One("UsersToggleAdmin", 0, rx + 12, ry + 76, 104, 24))
                          \o When("admin" \notin v.flags,
                                  One("UsersToggleAdmin", 0, rx + 122, ry + 76, 108, 24))
                          \o One("UsersOpenChangePassword", 0, rx + 12, ry + 186, 126, 22)
                          \o One("UsersDeleteAccount", 0, rx + 12, ry + 226, 110, 22))
         [] v.mode = "Create" ->
              Row("UsersFormPreset", 3, fx + 76, fy + 50, 96, 0, 90, 20)
                \o role(fx + 216, fy + 94, 96, 100)
                \o One("UsersSubmitCreate", 0, fx + 16, fy + 230, 130, 26)
                \o One("UsersCancelForm", 0, fx + 158, fy + 230, 80, 26)
         [] v.mode = "Password" ->
              One("UsersFormPreset", 3, fx + 16, fy + 52, 120, 20)
                \o One("UsersSubmitChangePassword", 0, fx + 16, fy + 180, 130, 26)
                \o One("UsersCancelForm", 0, fx + 158, fy + 180, 80, 26)

(* Every rule has a region here, drawn or not, and the buttons lie below them all. *)
button_at_firewall(v) ==
    Row("FirewallSelectSubtab", 3, cx, cy, 116, 0, 110, 24)
      \o When(v.mode = "Rules",
              FirewallPolicies
                \o Row("FirewallSelectRule", v.n, cx, cy + 82, 0, 22, 460, 20)
                \o FirewallButtons(cy + 82 + 22 * v.n + 8))
      \o When(v.mode = "Flows", One("FirewallFlushConns", 0, cx, cy + 148, 110, 22))

button_at(v) ==
    Row("SelectPanel", Len(Panels), 0, 48, 0, 36, 160, 32)
      \o One("SaveCurrent", 0, v.w - 80, 10, 70, 28)
      \o One("ReloadAll", 0, v.w - 165, 10, 75, 28)
      \o CASE v.tab = "System" ->
                Row("SystemPresetHostname", 3, cx, cy + 40, 96, 0, 88, 26)
                  \o One("SystemToggleInit", 0, cx, cy + 112, 140, 26)
           [] v.tab = "Users"    -> button_at_users(v)
           [] v.tab = "Services" -> button_at_services(v)
           [] v.tab = "Firewall" -> button_at_firewall(v)
           [] v.tab = "Display"  ->
                One("DisplayCycleTheme", 0, cx, cy + 44 + 18, 140, 26)
                  \o One("DisplayToggleHighContrast", 0, cx + 150, cy + 44 + 18, 190, 26)
                  \o Row("DisplaySetFontScale", 4, cx, cy + 100 + 18, 96, 0, 90, 24)
                  \o One("DisplayCycleCursor", 0, cx, cy + 214 + 18, 180, 26)
                  \o One("SaveCurrent", 0, cx, cy + 270 + 16, 200, 26)
           [] v.tab = "Devices"  -> button_at_devices(v)
           [] v.tab = "Updates"  -> button_at_updates(v)
=============================================================================
