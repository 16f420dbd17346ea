------------------------------- MODULE Media --------------------------------
(***************************************************************************)
(* The media repository (service/media and its routes): rows of the tables *)
(* mediaid_file and mediaid_user, the files of the media directory, and    *)
(* the tasks that upload, download, make thumbnails, fetch from other      *)
(* servers, preview URLs and delete, each a sequence of steps on the       *)
(* database or on the file system; a crash may come between any two, and   *)
(* the migration or the check of the media directory runs at the start.    *)
(*                                                                         *)
(* A media key is the row's key: the media, the size (0 by 0 for the       *)
(* original) and the kind of content disposition it was stored with.  It   *)
(* names the file, too: its hash in the current scheme, its base64 form    *)
(* in the legacy one.  A file holds everything ("whole") or what has been  *)
(* written so far ("part"); sizes are "orig", the sizes in `Normal` that   *)
(* Dim::normalized returns, and others it rounds to one of these.          *)
(***************************************************************************)
EXTENDS Federation

CONSTANTS
    Mxcs,           \* media
    ServerOf,       \* ServerOf[m]: the server the media is of
    Dims,           \* sizes a client may ask for
    Normalized,     \* Dim::normalized
    Unparsable,     \* media no thumbnail can be made of, or too small for one
    NoMedia,        \* prevent_media_downloads_from
    Frozen,         \* check_legacy_freeze fails: the legacy routes fetch nothing
    Prune,          \* prune_missing_media
    Urls            \* URLs to preview

VARIABLES
    rows,           \* table mediaid_file: set of keys
    owners,         \* table mediaid_user: set of <<media, user>>
    new,            \* new[k]: the file under the hashed name
    old,            \* old[k]: the file under the legacy name
    migrated,       \* global: feat_sha256_media
    compat,         \* media_compat_file_link
    previews,       \* table url_previews
    previewing,     \* url_preview_mutex: url -> the task that holds it
    phase,          \* "start", "migrate", "check", "up"
    todo,           \* the keys the start has still to look at
    torn,           \* keys whose writing was interrupted (history)
    raced           \* media created and deleted at the same time, or cut by a crash (history)

files == <<new, old>>
mediaVars == <<rows, owners, files, migrated, compat, previews, previewing, phase, todo, torn, raced>>

Kinds == {"named", "bare"}
Keys == Mxcs \X ({"orig"} \cup {Normalized[d] : d \in Dims} \cup Dims) \X Kinds

KeysOf(m) == {k \in rows : k[1] = m}

\* search_file_metadata: the first row of the media and size, in the order of the keys.
Found(m, d) == {<<m, d, kind>> : kind \in Kinds} \cap rows

First(m, d) == IF <<m, d, "bare">> \in rows THEN <<m, d, "bare">> ELSE <<m, d, "named">>

Mxc(s) == slot[s].job.mxc

\* Tasks between the row and the end of the write, and tasks that delete.
Creating(m) == {s \in Slots : slot[s].pc \in {"create", "write"} /\ slot[s].key[1] = m}

Deleting(m) == {s \in Slots : slot[s].pc \in {"rm", "rm2", "rmrows"} /\ slot[s].tgt = m}

Meet(m, who) == raced' = IF who = {} THEN raced ELSE raced \cup {m}

\* The lock outlives the request.
Unlock_Leaked(s) == UNCHANGED previewing

\* The guard of the preview mutex is dropped with the request.
Unlock(s) == previewing' = [u \in Urls |-> IF previewing[u] = s THEN None ELSE previewing[u]]

-----------------------------------------------------------------------------
(* create, upload_thumbnail and the end of get_thumbnail_generate *)

\* create_file_metadata: the row, and the uploader's row if there is one.
CreateMetadata(s) ==
    /\ At(s, "meta")
    /\ rows' = rows \cup {slot[s].key}
    /\ owners' = owners \cup ({Mxc(s)} \X slot[s].ask)
    /\ Meet(Mxc(s), Deleting(Mxc(s)))
    /\ Set(s, [pc |-> "create", ask |-> {}])
    /\ UNCHANGED <<fedVars, left, files, migrated, compat, previews, previewing, phase, todo, torn>>

\* create_media_file: an existing file is emptied; a link to itself cannot be opened.
CreateFile(s) ==
    /\ At(s, "create")
    /\ LET k == slot[s].key IN
       \/ /\ new[k] # "loop"
          /\ new' = [new EXCEPT ![k] = "part"]
          /\ old' = [old EXCEPT ![k] = IF compat /\ @ = "none" THEN "link" ELSE @]
          /\ Set(s, [pc |-> "write"])
          /\ UNCHANGED <<left, torn, previewing>>
       \/ /\ IF new[k] = "loop" THEN UNCHANGED left ELSE Spend("faults")
          /\ torn' = torn \cup {k}
          /\ Finish(s, "ioerr") /\ Unlock(s)
          /\ UNCHANGED files
    /\ UNCHANGED <<fedVars, rows, owners, migrated, compat, previews, phase, todo, raced>>

\* write_all: the content is whole under the name unless the name was removed meanwhile.
WriteFile(s) ==
    /\ At(s, "write")
    /\ LET k == slot[s].key IN
       \/ /\ new' = IF slot[s].bad THEN new ELSE [new EXCEPT ![k] = "whole"]
          /\ torn' = IF slot[s].bad THEN torn ELSE torn \ {k}
          /\ IF slot[s].job.op = "preview" THEN Set(s, [pc |-> "prevset", key |-> None])
             ELSE Finish(s, "whole")
          /\ UNCHANGED <<left, previewing>>
       \/ /\ Spend("faults")
          /\ torn' = torn \cup {k}
          /\ Finish(s, "ioerr") /\ Unlock(s)
          /\ UNCHANGED new
    /\ UNCHANGED <<fedVars, rows, owners, old, migrated, compat, previews, phase, todo, raced>>

-----------------------------------------------------------------------------
(* Downloads and thumbnails *)

reading == <<fedVars, left, mediaVars>>

\* get: the row of the original.
Search(s) ==
    /\ At(s, "search")
    /\ Set(s, IF Found(Mxc(s), "orig") = {} THEN [pc |-> "miss"]
              ELSE [pc |-> "read", key |-> First(Mxc(s), "orig")])
    /\ UNCHANGED reading

\* get_thumbnail: the row of the rounded size ...
SearchThumbnail(s) ==
    /\ At(s, "thumb")
    /\ LET d == Normalized[slot[s].job.dim] IN
       Set(s, IF Found(Mxc(s), d) = {} THEN [pc |-> "thumborig"]
              ELSE [pc |-> "read", key |-> First(Mxc(s), d)])
    /\ UNCHANGED reading

\* ... or the row of the original to make it from.
SearchOriginal(s) ==
    /\ At(s, "thumborig")
    /\ Set(s, IF Found(Mxc(s), "orig") = {} THEN [pc |-> "miss"]
              ELSE [pc |-> "generate", key |-> First(Mxc(s), "orig")])
    /\ UNCHANGED reading

\* The end of get and get_thumbnail_saved: the file, if it can be opened.
ReadFile(s) ==
    /\ At(s, "read")
    /\ Finish(s, IF new[slot[s].key] \in {"part", "whole"} THEN new[slot[s].key] ELSE "ioerr")
    /\ UNCHANGED reading

\* get_thumbnail_generate: what is no image, or too small, is sent as it is; a thumbnail is
\* stored under the rounded size, with the original's disposition and for no user.
Generate(s) ==
    /\ At(s, "generate")
    /\ LET k == slot[s].key IN
       IF new[k] \notin {"part", "whole"} THEN Finish(s, "ioerr")
       ELSE IF new[k] = "part" \/ Mxc(s) \in Unparsable THEN Finish(s, new[k])
       ELSE Set(s, [pc |-> "meta", key |-> <<k[1], Normalized[slot[s].job.dim], k[3]>>])
    /\ UNCHANGED reading

Legacy(s) == slot[s].job.op \in {"legacyget", "legacythumb"}

\* is_remote_server_media_downloads_forbidden.
check_fetch_authorized(n) == n \notin NoMedia \cup Forbidden

\* fetch_file_meta, fetch_thumbnail_meta and the legacy and federation routes when nothing
\* is stored: our own media is not found, the rest is asked for.
Missed(s) ==
    /\ At(s, "miss")
    /\ IF ServerOf[Mxc(s)] = Ours THEN Finish(s, "notfound") ELSE Set(s, [pc |-> "fetch"])
    /\ UNCHANGED reading

AskServer(s, back) == Set(s, [pc |-> "exec", back |-> back, to |-> ServerOf[Mxc(s)]])

\* fetch_remote_thumbnail and fetch_remote_content, to their request of the server.
FetchRemote(s) ==
    /\ At(s, "fetch") /\ ~Legacy(s)
    /\ IF check_fetch_authorized(ServerOf[Mxc(s)]) THEN AskServer(s, "fetched")
       ELSE Finish(s, "notfound")
    /\ UNCHANGED reading

\* fetch_remote_thumbnail_legacy and fetch_remote_content_legacy: the same after
\* check_legacy_freeze.
FetchRemoteLegacy(s) ==
    /\ At(s, "fetch") /\ Legacy(s)
    /\ IF ~Frozen /\ check_fetch_authorized(ServerOf[Mxc(s)]) THEN AskServer(s, "fetchedlegacy")
       ELSE Finish(s, "notfound")
    /\ UNCHANGED reading

Thumbnail(s) == slot[s].job.op \in {"thumb", "legacythumb", "adminthumb"}

\* handle_content_file and handle_thumbnail_file: the size is the one asked for, not the
\* rounded one.
StoreFile(s, kind, users) ==
    Set(s, [pc |-> "meta", ask |-> users,
            key |-> <<Mxc(s), IF Thumbnail(s) THEN slot[s].job.dim ELSE "orig", kind>>])

\* fetch_content_authenticated and fetch_thumbnail_authenticated: a file is stored, a
\* location is requested.
Fetched(s) ==
    /\ At(s, "fetched")
    /\ \/ slot[s].res = "fail" /\ Finish(s, "fail")
       \/ slot[s].res = "ok" /\ StoreFile(s, "named", slot[s].job.user)
       \/ slot[s].res = "ok" /\ Set(s, [pc |-> "location"])
    /\ UNCHANGED reading

\* The end of the legacy fetches: stored for no user, a thumbnail without disposition.
FetchedLegacy(s) ==
    /\ At(s, "fetchedlegacy")
    /\ IF slot[s].res = "fail" THEN Finish(s, "fail")
       ELSE StoreFile(s, IF Thumbnail(s) THEN "bare" ELSE "named", {})
    /\ UNCHANGED reading

\* handle_location: the content is answered and not stored.  Its NotFound is the one error
\* that makes fetch_remote_thumbnail ask again, at the unauthenticated endpoint: an error
\* of the other server is an Error::Federation, which no arm matches.
Location(s) ==
    /\ At(s, "location")
    /\ \/ Finish(s, "whole") /\ UNCHANGED left
       \/ /\ Spend("faults")
          /\ IF Thumbnail(s) THEN AskServer(s, "unauth") ELSE Finish(s, "notfound")
    /\ UNCHANGED <<fedVars, mediaVars>>

\* fetch_thumbnail_unauthenticated.
Unauthenticated(s) ==
    /\ At(s, "unauth")
    /\ IF slot[s].res = "fail" THEN Finish(s, "fail")
       ELSE StoreFile(s, "named", slot[s].job.user)
    /\ UNCHANGED reading

-----------------------------------------------------------------------------
(* Deletion *)

others == <<owners, migrated, compat, previews, previewing, phase, todo>>

\* A list of media is made first and then deleted one by one.
DeleteAll(s, listed) ==
    /\ Take(s, IF listed = {} THEN [pc |-> "done", res |-> "fail"] ELSE [pc |-> "del", mxcs |-> listed])
    /\ UNCHANGED reading

Job(s) == Head(slot[s].work)

\* delete_from_user.
DeleteFromUser(s) ==
    /\ HasWork(s, {"deluser"})
    /\ DeleteAll(s, {m \in Mxcs : \E u \in Job(s).user : <<m, u>> \in owners})

Remote(ks) == {m \in {k[1] : k \in ks} : ServerOf[m] # Ours}

\* delete_all_media_within_timeframe: what has no file has no time and is skipped.
DeleteWithinTimeframe(s) ==
    /\ HasWork(s, {"deltime"})
    /\ DeleteAll(s, Remote({k \in rows : new[k] \in {"part", "whole"}}))

\* delete_all_from_server, for a remote server.
DeleteFromServer(s) ==
    /\ HasWork(s, {"delserver"})
    /\ DeleteAll(s, Remote(rows))

\* The command for one media, or for those an event refers to.
DeleteCommand(s) ==
    /\ HasWork(s, {"delete"})
    /\ DeleteAll(s, {Job(s).mxc})

DeleteList(s) ==
    /\ HasWork(s, {"dellist"})
    /\ DeleteAll(s, Job(s).need)

\* Only the original's file is removed.
Delete_Original(s) ==
    /\ At(s, "del")
    /\ IF slot[s].mxcs = {} THEN Finish(s, "ok") /\ UNCHANGED raced
       ELSE \E m \in slot[s].mxcs :
            /\ LET rest == slot[s].mxcs \ {m} IN
               Set(s, IF Found(m, "orig") = {} THEN [mxcs |-> rest]
                      ELSE [mxcs |-> rest, pc |-> "rm", tgt |-> m, keys |-> Found(m, "orig")])
            /\ Meet(m, IF KeysOf(m) = {} THEN {} ELSE Creating(m))
    /\ UNCHANGED <<fedVars, left, rows, files, torn, others>>

\* The next media; delete with search_mxc_metadata_prefix: without rows it fails.
Delete(s) ==
    /\ At(s, "del")
    /\ IF slot[s].mxcs = {} THEN Finish(s, "ok") /\ UNCHANGED raced
       ELSE \E m \in slot[s].mxcs :
            /\ LET rest == slot[s].mxcs \ {m} IN
               Set(s, IF KeysOf(m) = {} THEN [mxcs |-> rest]
                      ELSE [mxcs |-> rest, pc |-> "rm", tgt |-> m, keys |-> KeysOf(m)])
            /\ Meet(m, IF KeysOf(m) = {} THEN {} ELSE Creating(m))
    /\ UNCHANGED <<fedVars, left, rows, files, torn, others>>

\* The name k is gone: a task that has the file open writes to a file without a name.
Unlinked(s, k, r) ==
    slot' = [t \in Slots |-> IF t = s THEN Update(slot[t], r)
                             ELSE IF slot[t].pc = "write" /\ slot[t].key = k
                             THEN Update(slot[t], [bad |-> TRUE]) ELSE slot[t]]

\* remove_media_file removes both names at once, in either order; errors are ignored.
RemoveFirst(s) ==
    /\ At(s, "rm")
    /\ \E k \in slot[s].keys :
        \/ /\ new' = [new EXCEPT ![k] = "absent"]
           /\ Unlinked(s, k, [pc |-> "rm2", key |-> k, name |-> "old"])
           /\ UNCHANGED old
        \/ /\ old' = [old EXCEPT ![k] = "none"]
           /\ Set(s, [pc |-> "rm2", key |-> k, name |-> "new"])
           /\ UNCHANGED new
    /\ UNCHANGED <<fedVars, left, rows, torn, raced, others>>

RemoveSecond(s) ==
    /\ At(s, "rm2")
    /\ LET k == slot[s].key IN
       IF slot[s].name = "new"
       THEN /\ new' = [new EXCEPT ![k] = "absent"]
            /\ Unlinked(s, k, [pc |-> "rmrows", name |-> None])
            /\ UNCHANGED old
       ELSE /\ old' = [old EXCEPT ![k] = "none"]
            /\ Set(s, [pc |-> "rmrows", name |-> None])
            /\ UNCHANGED new
    /\ UNCHANGED <<fedVars, left, rows, torn, raced, others>>

\* Only the original's row is removed.
DeleteRows_Original(s) ==
    /\ At(s, "rmrows")
    /\ LET m == slot[s].tgt
           rest == slot[s].keys \ {slot[s].key} IN
       /\ rows' = rows \ Found(m, "orig")
       /\ owners' = {o \in owners : o[1] # m}
       /\ Set(s, IF rest = {} THEN [pc |-> "del", keys |-> {}, key |-> None, tgt |-> None]
                 ELSE [pc |-> "rm", keys |-> rest, key |-> None])
    /\ UNCHANGED <<fedVars, left, files, migrated, compat, previews, previewing, phase, todo,
                   torn, raced>>

\* delete_file_mxc, for each key: all rows of the media and of its uploaders.
DeleteRows(s) ==
    /\ At(s, "rmrows")
    /\ LET m == slot[s].tgt
           rest == slot[s].keys \ {slot[s].key} IN
       /\ rows' = rows \ KeysOf(m)
       /\ owners' = {o \in owners : o[1] # m}
       /\ Set(s, IF rest = {} THEN [pc |-> "del", keys |-> {}, key |-> None, tgt |-> None]
                 ELSE [pc |-> "rm", keys |-> rest, key |-> None])
    /\ UNCHANGED <<fedVars, left, files, migrated, compat, previews, previewing, phase, todo,
                   torn, raced>>

-----------------------------------------------------------------------------
(* URL previews *)

Url(s) == slot[s].job.url

previewOnly == <<fedVars, rows, owners, files, migrated, compat, phase, todo, torn, raced>>

\* get_url_preview: the stored preview, before the lock is taken ...
GetPreview(s) ==
    /\ At(s, "prev")
    /\ IF Url(s) \in previews THEN Finish(s, "ok") ELSE Set(s, [pc |-> "prevlock"])
    /\ UNCHANGED reading

\* The preview is not looked up again under the lock.
LockPreview_Unchecked(s) ==
    /\ At(s, "prevlock") /\ previewing[Url(s)] = None
    /\ Set(s, [pc |-> "prevask"]) /\ previewing' = [previewing EXCEPT ![Url(s)] = s]
    /\ UNCHANGED <<previewOnly, left, previews>>

\* ... and again after; then request_url_preview asks for the headers.
LockPreview(s) ==
    /\ At(s, "prevlock") /\ previewing[Url(s)] = None
    /\ IF Url(s) \in previews THEN Finish(s, "ok") /\ UNCHANGED previewing
       ELSE Set(s, [pc |-> "prevask"]) /\ previewing' = [previewing EXCEPT ![Url(s)] = s]
    /\ UNCHANGED <<previewOnly, left, previews>>

\* download_html: a page without media.
DownloadHtml(s) == Set(s, [pc |-> "prevset"])

\* download_image, download_media: stored under a new name for no user.
DownloadMedia(s) == Set(s, [pc |-> "meta", key |-> <<Mxc(s), "orig", "bare">>])

\* request_url_preview: the headers tell which download follows; or there is an error.
RequestPreview(s) ==
    /\ At(s, "prevask")
    /\ \/ DownloadHtml(s) /\ UNCHANGED <<left, previewing>>
       \/ DownloadMedia(s) /\ UNCHANGED <<left, previewing>>
       \/ Spend("faults") /\ Finish(s, "fail") /\ Unlock(s)
    /\ UNCHANGED <<previewOnly, previews>>

\* set_url_preview.
SetPreview(s) ==
    /\ At(s, "prevset")
    /\ previews' = previews \cup {Url(s)}
    /\ Finish(s, "ok") /\ Unlock(s)
    /\ UNCHANGED <<previewOnly, left>>

\* remove_url_preview and clear_url_previews: the media of the previews stay.
RemovePreview(s) ==
    /\ At(s, "prevdel")
    /\ previews' = previews \ {Url(s)}
    /\ Finish(s, "ok")
    /\ UNCHANGED <<previewOnly, left, previewing>>

-----------------------------------------------------------------------------
(* A request begins *)

Begins(s, ops, r) == HasWork(s, ops) /\ Take(s, r) /\ UNCHANGED reading

\* create_content_route and create_content_legacy_route.
CreateContent(s) ==
    Begins(s, {"upload"}, [pc |-> "meta", key |-> <<Job(s).mxc, "orig", "named">>, ask |-> Job(s).user])

\* get_content_route and get_content_as_filename_route ...
GetContent(s) == Begins(s, {"get"}, [pc |-> "search"])

\* ... their legacy forms ...
GetContentLegacy(s) == Begins(s, {"legacyget"}, [pc |-> "search"])

\* ... and the routes of other servers, for our media only.
GetContentFederation(s) == Begins(s, {"fedget"}, [pc |-> "search"])

\* get_content_thumbnail_route, in the same three forms.
GetContentThumbnail(s) == Begins(s, {"thumb"}, [pc |-> "thumb"])

GetContentThumbnailLegacy(s) == Begins(s, {"legacythumb"}, [pc |-> "thumb"])

GetContentThumbnailFederation(s) == Begins(s, {"fedthumb"}, [pc |-> "thumb"])

\* The commands get_remote_file and get_remote_thumbnail ask whatever is stored.
GetRemote(s) == Begins(s, {"adminget", "adminthumb"}, [pc |-> "fetch"])

\* get_media_preview_route and its legacy form.
GetMediaPreview(s) == Begins(s, {"preview"}, [pc |-> "prev"])

\* delete_url_preview.
DeleteUrlPreview(s) == Begins(s, {"delpreview"}, [pc |-> "prevdel"])

BeginMedia(s) ==
    \/ CreateContent(s) \/ GetContent(s) \/ GetContentLegacy(s) \/ GetContentFederation(s)
    \/ GetContentThumbnail(s) \/ GetContentThumbnailLegacy(s) \/ GetContentThumbnailFederation(s)
    \/ GetRemote(s) \/ GetMediaPreview(s) \/ DeleteUrlPreview(s)
    \/ DeleteFromUser(s) \/ DeleteWithinTimeframe(s) \/ DeleteFromServer(s)
    \/ DeleteCommand(s) \/ DeleteList(s)

MediaStep(s) ==
    \/ BeginMedia(s)
    \/ CreateMetadata(s) \/ CreateFile(s) \/ WriteFile(s)
    \/ Search(s) \/ SearchThumbnail(s) \/ SearchOriginal(s) \/ ReadFile(s) \/ Generate(s)
    \/ Missed(s) \/ FetchRemote(s) \/ FetchRemoteLegacy(s)
    \/ Fetched(s) \/ FetchedLegacy(s) \/ Location(s) \/ Unauthenticated(s)
    \/ Delete(s) \/ RemoveFirst(s) \/ RemoveSecond(s) \/ DeleteRows(s)
    \/ GetPreview(s) \/ LockPreview(s) \/ RequestPreview(s) \/ SetPreview(s) \/ RemovePreview(s)

-----------------------------------------------------------------------------
(* Crash and start *)

\* Everything in memory is gone, what was being written or removed stays as it is.
Crash ==
    /\ Spend("crashes")
    /\ slot' = [s \in Slots |-> Start(slot[s].work)]
    /\ torn' = torn \cup {slot[s].key : s \in {s \in Slots : slot[s].pc \in
                                                {"create", "write", "rm2", "rmrows"}}}
    /\ raced' = raced \cup {m \in Mxcs : Creating(m) \cup Deleting(m) # {}}
    /\ previewing' = [u \in Urls |-> None]
    /\ phase' = "start" /\ todo' = {}
    /\ UNCHANGED <<fedVars, rows, owners, files, migrated, compat, previews>>

starting == <<fedVars, slot, left, owners, compat, previews, previewing, torn, raced>>

\* The migrations run before anything else: the one of the media directory until it has
\* succeeded once, the check of the directory ever after.
Startup ==
    /\ phase = "start"
    /\ phase' = IF migrated THEN "check" ELSE "migrate"
    /\ todo' = rows
    /\ UNCHANGED <<starting, rows, files, migrated>>

\* What the legacy name leads to when it is renamed to the new name: a link to the new name
\* becomes a link to itself.
Renamed(k) == IF old[k] = "file" THEN "whole" ELSE "loop"

\* old_path.exists() follows links.
OldExists(k) == old[k] = "file" \/ (old[k] = "link" /\ new[k] \in {"part", "whole"})

\* migrate_sha256_media: the next file.
Migrate ==
    /\ phase = "migrate"
    /\ \E k \in todo :
        /\ todo' = todo \ {k}
        /\ new' = IF OldExists(k) THEN [new EXCEPT ![k] = Renamed(k)] ELSE new
        /\ old' = IF OldExists(k) THEN [old EXCEPT ![k] = IF compat THEN "link" ELSE "none"]
                  ELSE old
    /\ UNCHANGED <<starting, rows, migrated, phase>>

MigrateDone ==
    /\ phase = "migrate" /\ todo = {}
    /\ migrated' = TRUE /\ phase' = "up"
    /\ UNCHANGED <<starting, rows, files, todo>>

\* A row without files may be dropped; the uploader's row stays, it is looked for under the
\* wrong key.
Pruned(k) == IF Prune /\ old[k] = "none" /\ new[k] = "absent" THEN rows \ {k} ELSE rows

\* Exactly one of the two names is there, and links are wanted: a link is made, after the
\* legacy file has been renamed if it is the one.
Repairs(k) == compat /\ (old[k] = "none") # (new[k] = "absent")

\* Without the check that the legacy name is a link.
HandleMediaCheck_AnyFile(k) ==
    /\ rows' = Pruned(k)
    /\ new' = IF Repairs(k) /\ new[k] = "absent" THEN [new EXCEPT ![k] = Renamed(k)] ELSE new
    /\ old' = [old EXCEPT ![k] = IF Repairs(k) THEN "link" ELSE IF ~compat THEN "none" ELSE @]

\* handle_media_check; a link that is not wanted is removed.
HandleMediaCheck(k) ==
    /\ rows' = Pruned(k)
    /\ new' = IF Repairs(k) /\ new[k] = "absent" THEN [new EXCEPT ![k] = Renamed(k)] ELSE new
    /\ old' = [old EXCEPT ![k] = IF Repairs(k) THEN "link"
                                 ELSE IF ~compat /\ @ = "link" THEN "none" ELSE @]

\* checkup_sha256_media.
Checkup ==
    /\ phase = "check"
    /\ \E k \in todo : todo' = todo \ {k} /\ HandleMediaCheck(k)
    /\ UNCHANGED <<starting, migrated, phase>>

CheckupDone ==
    /\ phase = "check" /\ todo = {}
    /\ phase' = "up"
    /\ UNCHANGED <<starting, rows, files, migrated, todo>>

StartStep == Startup \/ Migrate \/ MigrateDone \/ Checkup \/ CheckupDone

-----------------------------------------------------------------------------
(* Properties *)

\* A stored media can be read: a row has its file, except while a task is storing or
\* deleting it, or after a crash or an error in the middle of that ("Dangling metadata in
\* database if creation fails", media/mod.rs).  In particular no order of stores and
\* deletions by several tasks leaves a row behind whose file a deletion has removed.
RowsHaveFiles ==
    phase = "up" =>
    \A k \in rows : \/ new[k] = "whole" \/ k \in torn
                    \/ Creating(k[1]) \cup Deleting(k[1]) # {}
                    \/ old[k] = "file" \/ new[k] = "loop"

\* No file is left without a row, where nothing would ever remove it: only a crash, or a
\* store that overlaps a deletion of the same media, leaves one (delete, create).
NoOrphans ==
    phase = "up" =>
    \A k \in Keys \ rows :
        (new[k] = "absent" /\ old[k] = "none") \/ k[1] \in raced \/ Deleting(k[1]) # {}

\* Both: the rows of the database and the files of the directory agree.
FilesAgree == RowsHaveFiles /\ NoOrphans

\* The content of k is in the directory, under one name or the other.
Has(k) == new[k] = "whole" \/ old[k] = "file"

\* A migration that runs again replaces a migrated file by its own link.
Relinks(k) == phase = "migrate" /\ old[k] = "link"

\* Content is lost only by a deletion or by a store that writes it again: the migration,
\* the check at the start (migrations.rs) and a crash at any point of them keep every file;
\* set aside is the migration that runs a second time with links.
ContentKept ==
    [][\A k \in Keys : Has(k) /\ ~Has(k)' =>
            \/ \E s \in Slots : slot[s].pc \in {"rm", "rm2"} /\ slot[s].tgt = k[1]
            \/ \E s \in Slots : slot[s].pc = "create" /\ slot[s].key = k
            \/ Relinks(k)]_<<new, old>>

\* "move the file to the new location" (migrations.rs): after the migration of a file that
\* exists its content is at the new location.
MovesFile ==
    [][\A k \in Keys : phase = "migrate" /\ Has(k) /\ k \in todo \ todo' => new'[k] = "whole"]_<<todo, phase>>

Asking(s) == slot[s].pc \in {"prevask", "prevset"}
             \/ (slot[s].pc \in {"meta", "create", "write"} /\ slot[s].job.op = "preview")

\* "ensure that only one request is made per URL" (preview.rs): no two tasks request the
\* same URL, and none requests a URL whose preview is stored.
OnePreview ==
    \A s, t \in Slots : Asking(s) =>
        /\ Url(s) \notin previews
        /\ t # s /\ Asking(t) => Url(t) # Url(s)
=============================================================================
