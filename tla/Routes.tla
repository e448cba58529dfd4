------------------------------- MODULE Routes -------------------------------
(***************************************************************************)
(* The routes of the HTTP controllers behind JwtGuard: what the decorators *)
(* @Roles and @UseGuards ask of the caller, and the name of the handler.   *)
(* A route is [need, name]; swagger and the parsing of a request are left  *)
(* out, what a handler does is in the module of its component.             *)
(***************************************************************************)

\* roles: one of them is needed (RolesGuard); email: a confirmed e-mail address
\* is needed as well (EmailGuard).
Need(roles, email) == [roles |-> roles, email |-> email]

\* @Roles of no handler: JwtGuard alone.
Anyone == Need({}, FALSE)
UserNeed == Need({"SUPERADMIN", "ADMIN", "USER"}, TRUE)
SettingsNeed == Need({"SUPERADMIN", "USER"}, TRUE)
AdminNeed == Need({"SUPERADMIN", "ADMIN"}, FALSE)
SuperNeed == Need({"SUPERADMIN"}, FALSE)
ManagerNeed == Need({"SUPERADMIN", "PRESALE_MANAGER"}, FALSE)

Routed(need, names) == {[need |-> need, name |-> n] : n \in names}

-----------------------------------------------------------------------------
AuthRoutes == Routed(Anyone, {"logOut", "authenticate"})
ResendRoute == Routed(Anyone, {"resendConfirmationLink"})

UserRoutes == Routed(UserNeed, {"addNewDevice", "updateByUser", "updatePasword", "delete"})
UserAdminRoutes == Routed(AdminNeed, {"getAll", "getOne", "search", "blockUser", "activateUser"})
NotificationRoutes == Routed(UserNeed, {"getAllUserNotifications", "getOneUserNotification"})
RoleRoutes ==
  Routed(SuperNeed, {"create", "getByValue", "getAllRoles", "setRole", "unsetRole"})

WalletRoutes ==
  Routed(UserNeed, {"createNewAddress", "addNewAddress", "getAllAdresses", "getBalance",
                    "getConnection", "updateLabel", "updateSwapStatus", "deleteAdress"})
ContactRoutes ==
  Routed(UserNeed, {"addNewContact", "getAllContacts", "updateContact", "deleteContact"})
TransferRoutes ==
  Routed(UserNeed, {"receive", "transfer", "donate", "getAllUserTransfers", "getOneUserTransfer"})
RewardRoutes == Routed(UserNeed, {"getRewards", "getRewardsHistory"})
SwapRoutes == Routed(UserNeed, {"swap", "getAllUserSwaps", "getOneUserSwap", "priceCurrent"})

PaymentRoutes ==
  Routed(UserNeed, {"getCurrencies", "getCurrencyRate", "newTransaction",
                    "getAllUserPayments", "getOneUserPayment"})
PaymentAdminRoutes == Routed(AdminNeed, {"getAllPayments", "getOnePayment"})

SettingsRoutes ==
  Routed(SettingsNeed, {"getUserConfiguration", "updateUserConfiguration", "getSupportEmail"})
ConfigRoutes == Routed(AdminNeed, {"getConfiguration", "updateConfiguration", "addFiles"})
TokenRoutes ==
  Routed(AdminNeed, {"addNewToken", "updateToken", "deleteToken"})
    \union Routed(SettingsNeed, {"getTokenInfo"})
    \union Routed(UserNeed, {"getOneToken", "getAllTokens"})

PresaleRoutes ==
  Routed(ManagerNeed, {"deploy", "start", "end", "liquidity", "fees", "withdrawDev",
                       "withdrawTokens", "withdrawLiquidity", "data", "deposits"})
LockerRoutes ==
  Routed(ManagerNeed, {"lockOne", "lockMany", "renew", "regular", "emergency", "specific"})
LockerReads ==
  Routed(ManagerNeed, {"epoch", "depositsIds", "details", "byToken", "byWithdrawal",
                       "byAddress", "total"})

AllRoutes ==
  UNION {AuthRoutes, ResendRoute, UserRoutes, UserAdminRoutes, NotificationRoutes, RoleRoutes,
         WalletRoutes, ContactRoutes, TransferRoutes, RewardRoutes, SwapRoutes,
         PaymentRoutes, PaymentAdminRoutes, SettingsRoutes, ConfigRoutes, TokenRoutes,
         PresaleRoutes, LockerRoutes, LockerReads}
=============================================================================
