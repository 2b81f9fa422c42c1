---------------------------- MODULE CommandTable ----------------------------
(***************************************************************************)
(* The registry the gateway is built with (src/src/project/                *)
(* command_registry.rs).  Its rows are grouped by routing class and        *)
(* semantic type within a domain; as no name occurs twice (TableValid),    *)
(* their order means nothing.                                              *)
(***************************************************************************)
EXTENDS CommandRegistry

Rows(class, type, mirror, names) ==
  [i \in DOMAIN names |->
     [name |-> names[i], class |-> class, type |-> type, mirror |-> mirror]]

PreAuth(names) == Rows("no_auth", "technical", FALSE, names)
Backend(type, names) == Rows("backend_control", type, FALSE, names)
Hotpath(mirror, names) == Rows("relay_hotpath", "command", mirror, names)

-----------------------------------------------------------------------------
(* COMMAND_REGISTRY, by domain *)

AuthCommands ==
  PreAuth(<<"auth", "auth_login_request", "auth_register_request", "auth_identity_request">>)

VaultCommands ==
  Backend("command",
    <<"user_vault_init", "user_vault_update_password", "user_vault_update_recovery",
      "user_vault_update_user_key", "user_identity_key_register", "user_identity_key_revoke",
      "user_identity_vault_register", "user_identity_vault_revoke",
      "user_device_vault_register", "conversation_key_init">>)
  \o Backend("query",
    <<"user_vault_fetch", "user_identity_key_list", "user_device_vault_fetch",
      "conversation_key_fetch">>)

DeviceCommands ==
  Backend("signal", <<"session_ready">>)
  \o Backend("command",
    <<"device_pairing_endpoint_create", "device_pairing_register_device",
      "device_pairing_request", "device_pairing_approve", "device_pairing_reject",
      "file_key_wrap">>)
  \o Backend("query", <<"file_key_fetch">>)

GuestCommands == PreAuth(<<"dropbox_public_auth", "device_pairing_auth">>)

LocalCommands == Rows("gateway_local", "technical", FALSE, <<"ping">>)

SyncCommands ==
  Backend("query",
    <<"bootstrap_request", "online_request", "users_request", "mls_key_package_fetch",
      "contacts_request", "notifications_request", "contact_profiles_request">>)
  \o Backend("command",
    <<"mls_key_package_publish", "contact_unblock", "notification_ack",
      "notification_seen", "notification_dismiss">>)

StorageCommands ==
  Backend("command",
    <<"attachment_upload_init", "attachment_upload_chunk", "attachment_upload_finalize",
      "attachment_delete_request", "user_storage_upload_init",
      "user_storage_upload_payload", "user_storage_upload_finalize",
      "user_storage_delete_request", "user_storage_share_link_create",
      "user_storage_share_link_revoke">>)
  \o Backend("query",
    <<"audit_timeline_request", "audit_timeline_export_request",
      "attachment_download_chunk", "attachment_list_request", "user_storage_download",
      "user_storage_list_request", "user_storage_share_links_request",
      "user_storage_share_info_request", "user_storage_share_download">>)

ContactCommands ==
  Backend("command",
    <<"contact_add", "contact_accept", "contact_block", "contact_profile_upsert",
      "contact_profile_delete", "deadman_config_request", "deadman_config_upsert",
      "dropbox_endpoint_upsert", "dropbox_endpoint_delete", "dropbox_message_delete",
      "dropbox_public_submit">>)
  \o Backend("query",
    <<"dropbox_endpoints_request", "dropbox_messages_request",
      "dropbox_public_info_request">>)

ChatCommands ==
  Backend("query",
    <<"chat_conversations_request", "chat_messages_request", "identity_profile_request",
      "key_trust_list_request">>)
  \o Backend("command",
    <<"chat_conversation_open", "group_create", "group_add", "group_leave",
      "group_membership_accept", "history_clear", "identity_profile_upsert",
      "key_trust_upsert", "key_trust_delete", "mls_commit", "mls_welcome_request",
      "mls_welcome_ack", "chat_message_read">>)
  \o Backend("signal", <<"presence_state", "chat_typing_state", "signal">>)

CallCommands ==
  Backend("query", <<"call_token_request", "call_session_token_request">>)
  \o Backend("command",
    <<"call_session_create", "call_session_invite", "call_session_join",
      "call_session_leave", "call_invite", "call_join", "call_leave">>)
  \o Backend("signal",
    <<"call_session_media_key", "call_session_mute", "call_session_camera", "call_mute",
      "call_camera", "call_media_key">>)

FileTransferCommands ==
  Hotpath(TRUE,
    <<"file_transfer_offer", "file_transfer_accept", "file_transfer_reject",
      "file_transfer_complete", "file_transfer_complete_ack", "file_transfer_cancel">>)
  \o Hotpath(FALSE,
    <<"file_transfer_handshake", "file_transfer_handshake_ack", "file_transfer_welcome",
      "file_transfer_file_key", "file_transfer_file_key_ack", "file_transfer_chunk",
      "file_transfer_resume_request">>)

MessageCommands == Backend("command", <<"chat_message_send">>)

(* RELAY_AUTHORIZATION_REGISTRY: only an offer needs no context. *)
RelayEntries ==
  [i \in DOMAIN FileTransferCommands |->
     [name    |-> FileTransferCommands[i].name,
      context |-> FileTransferCommands[i].name # "file_transfer_offer",
      family  |-> "file_transfer",
      key     |-> "transfer_id"]]

Table ==
  [commands |->
     AuthCommands \o VaultCommands \o DeviceCommands \o GuestCommands \o LocalCommands
     \o SyncCommands \o StorageCommands \o ContactCommands \o ChatCommands
     \o CallCommands \o FileTransferCommands \o MessageCommands,
   relay |-> RelayEntries]

-----------------------------------------------------------------------------
(* The gateway starts with its registry (registry_is_valid, routes.rs:302). *)
ASSUME TableValid == Valid(Table) /\ Len(Table.commands) = 123

(* critical_commands_have_expected_routing_classes (routes.rs:353-373) *)
ASSUME TableClasses ==
  \A c \in
    {<<"auth_login_request", "no_auth">>, <<"ping", "gateway_local">>,
     <<"chat_message_send", "backend_control">>, <<"chat_typing_state", "backend_control">>,
     <<"presence_state", "backend_control">>, <<"file_transfer_offer", "relay_hotpath">>,
     <<"file_transfer_chunk", "relay_hotpath">>,
     <<"file_transfer_complete", "relay_hotpath">>,
     <<"group_membership_accept", "backend_control">>} :
    Resolve(Table.commands, c[1]).class = c[2]
=============================================================================
