------------------------------ MODULE Devices ------------------------------
(***************************************************************************)
(* The credentials of one device and the operations that change them       *)
(* (apps/server/src/auth.rs): the row of the devices table, the scopes     *)
(* beside it, and what a reader of the row may conclude.  A secret is      *)
(* named by the number of the rotation that issued it.  The revision, a    *)
(* keyed hash of the secret, the flags and the scopes, is modelled by what *)
(* it is computed from; a lease is only ever given out for a device that   *)
(* is enabled and not revoked, so the flags are the same in all of them.   *)
(*                                                                         *)
(* The rows of different devices never meet in one statement, so one       *)
(* device is modelled.  Each operator below is one SQLite transaction.     *)
(***************************************************************************)
EXTENDS Naturals, FiniteSets

CONSTANTS
    ScopeSets,    \* the scope sets an operator may give the device
    MaxChanges    \* bound: changes of the row

ASSUME DevicesAssumption ==
    /\ \A scopes \in ScopeSets : scopes \subseteq {"connect", "run"} /\ scopes # {}
    /\ ScopeSets # {}
    /\ MaxChanges \in Nat

VARIABLES
    row,        \* [secret, enabled, revoked, scopes] of the device
    changes     \* bound counter

Rows ==
    [secret : 0..MaxChanges, enabled : BOOLEAN, revoked : BOOLEAN, scopes : ScopeSets]

(* create_device: a new device is enabled, with the scopes it was given.   *)
DevicesInit ==
    /\ row \in [secret : {0}, enabled : {TRUE}, revoked : {FALSE}, scopes : ScopeSets]
    /\ changes = 0

(* gateway_authorization_state: a lease exists only for an active device.  *)
Active == row.enabled /\ ~row.revoked

(* gateway_authorization_revision *)
Revision == <<row.secret, row.scopes>>

(* current_authorization, with the revision the caller insists on.         *)
Authorises(scope, revision) ==
    /\ Active
    /\ {"connect", scope} \subseteq row.scopes
    /\ Revision = revision

Counted ==
    /\ changes < MaxChanges
    /\ changes' = changes + 1

(* rotate_device_preserving_scopes: refused for a revoked device only.     *)
RotatePreservingScopes ==
    /\ ~row.revoked
    /\ Counted
    /\ row' = [row EXCEPT !.secret = @ + 1]

(* rotate_device: refused for a disabled one too, and replaces the scopes. *)
RotateReplacingScopes ==
    /\ Active
    /\ Counted
    /\ \E scopes \in ScopeSets :
           row' = [row EXCEPT !.secret = @ + 1, !.scopes = scopes]

(* set_device_enabled(TRUE): never revives a revoked device.               *)
Enable ==
    /\ ~row.revoked
    /\ Counted
    /\ row' = [row EXCEPT !.enabled = TRUE]

(* set_device_enabled(FALSE): on a revoked device an idempotent success.   *)
Disable ==
    /\ Counted
    /\ row' = [row EXCEPT !.enabled = FALSE]

(* revoke_device_with_outcome *)
Revoke ==
    /\ Counted
    /\ row' = [row EXCEPT !.enabled = FALSE, !.revoked = TRUE]
=============================================================================
