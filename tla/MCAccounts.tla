----------------------------- MODULE MCAccounts -----------------------------
(***************************************************************************)
(* A small instance of Accounts.  Each behaviour takes its requests from   *)
(* one of the workloads; two requests run at a time.                       *)
(***************************************************************************)
EXTENDS Accounts, TLC

MCWorkloads ==
  {{"register_code", "submit", "register", "create_user"},
   {"login_code", "login", "logout", "update_device"},
   {"login_code", "login", "admin_logout", "disable_login"},
   {"delete_device", "change_password", "set_pusher", "deactivate", "logout_all"},
   {"put_dehydrated", "delete_dehydrated", "as_register", "as_unregister", "as_device"},
   {"lock", "unlock", "enable_login", "suspend", "unsuspend"},
   {"reset_code", "submit", "reset", "admin_reset"},
   {"reset_link", "web_reset", "admin_deactivate"},
   {"link_code", "submit", "add_3pid", "delete_3pid", "change_email"}}

(* Logging in while an admin deactivates accounts.                         *)
DeactivationWorkload == {{"login_code", "login", "admin_deactivate"}}

Symmetry ==
  Permutations(Slots) \cup Permutations(Secrets) \cup Permutations(Mails)
    \cup Permutations(Devices)
=============================================================================
