------------------------------- MODULE MCSync -------------------------------
(* Small workloads for Sync: each pairs handlers that touch related streams. *)
EXTENDS Sync

W(ops, v5, presence, faults, syncs) ==
    [ops |-> ops, v5 |-> v5, presence |-> presence, faults |-> faults,
     syncs |-> syncs]

\* /v3/sync, local presence off.
V3(ops, faults) == W(ops, FALSE, FALSE, faults, 0)

\* Sliding sync, whose requests each take a stamp.
V5(ops, faults) == W(ops, TRUE, FALSE, faults, 2)

\* /v3/sync, local presence on: the syncing user's presence is updated too.
Online(ops, faults) == W(ops, FALSE, TRUE, faults, 1)

MCWorkloads == {
    V3(<<"to_device", "to_device">>, 1), V5(<<"to_device", "to_device">>, 1),
    V3(<<"edu_to_device">>, 1),
    V3(<<"global_data", "global_data">>, 1),
    V5(<<"tag", "untag">>, 0), V3(<<"room_data">>, 1),
    V3(<<"fully_read">>, 1), V3(<<"receipt">>, 1), V5(<<"read_marker">>, 1),
    V3(<<"private_receipt">>, 1), V3(<<"edu_receipt">>, 1),
    V3(<<"type", "untype">>, 1), V5(<<"edu_type", "edu_untype">>, 1),
    V3(<<"upload_keys", "edu_devices">>, 0),
    V5(<<"signing_keys", "sign_key">>, 1),
    V3(<<"claim_keys", "edu_signing">>, 1),
    V3(<<"name", "topic">>, 0), V5(<<"message", "name">>, 1),
    V3(<<"own_message">>, 0), V3(<<"invite", "leave">>, 0), V3(<<"knock">>, 1),
    Online(<<"presence", "timer">>, 0), Online(<<"edu_presence">>, 1),
    W(<<"displayname">>, FALSE, TRUE, 0, 0), V5(<<"avatar">>, 1),
    V5(<<"profile_key">>, 1), V5(<<"no_profile_key">>, 1)}
=============================================================================
