---------------------------- MODULE MCRelayOutbox ----------------------------
(* Small instances of RelayOutbox for TLC.                                 *)
EXTENDS RelayOutbox, TLC

N(origin, id, key, payload, kind, priority, sensitive, expires) ==
    [origin |-> origin, notification_id |-> id, dedupe_key |-> key,
     payload |-> payload, kind |-> kind, priority |-> priority,
     sensitive |-> sensitive, expires_at |-> expires]

(* Claims: one sensitive reply and the notice of a result.                 *)
ClaimNotifications ==
    { N("system", 1, 1, "x", "plain", 1, TRUE, 3),
      N("device", 2, 2, "y", "result_link", 2, FALSE, 3) }

(* Settling: a submission and its identity with another payload, one that  *)
(* lives past MaxTTL unless it is sent late.                               *)
SettleNotifications ==
    { N("device", 1, 1, "x", "plain", 1, FALSE, 1),
      N("device", 1, 1, "y", "plain", 1, FALSE, 3) }

OneRetry == <<1>>
Symmetry == Permutations(Workers)
=============================================================================
