------------------------------ MODULE Packages ------------------------------
(***************************************************************************)
(* Installing and removing signed packages: the graphical store            *)
(* (userland/store-rs) and the shell's pkg command (userland/pkg), two     *)
(* programs that share the package files, the application files and        *)
(* INSTALL.DB with nothing but the file system between them.  Every file   *)
(* operation is a step of its own, so the two interleave and a power loss  *)
(* may fall between any two of them.                                       *)
(*                                                                         *)
(* A package file is a sequence: its header, then units of payload; a      *)
(* signature is the value it was computed over (HMAC-SHA256 idealised as   *)
(* injective).  Writing a file that exists fails, as in fat32_write_file.  *)
(***************************************************************************)
EXTENDS Integers, Sequences, SequencesExt

CONSTANTS
    Names,          \* package names; the 8.3 base of a file is a name too
    FileOrder,      \* the names in directory order
    Catalog,        \* names populate_default_catalog lists
    Contents,       \* package files a user may copy onto the disk
    Fetched,        \* bodies rust_http_get may return
    MaxPackages,    \* MAX_PACKAGES of the store
    MaxInstalled,   \* MAX_INSTALLED, records INSTALL.DB may hold
    SyncCap,        \* records that fit the store's 1024-byte read of it
    MaxCopies       \* bound on changes of package files by the user

VARIABLES
    pkgs,     \* package files: base name -> set of at most one content
    apps,     \* application files: base name -> set of at most one
    db,       \* INSTALL.DB, a set of at most one sequence of records
    items,    \* the store's catalog; empty while it is not running
    st,       \* what the store is doing
    sh,       \* what the shell's pkg command is doing
    copies

pkVars == <<pkgs, apps, db, items, st, sh, copies>>

\* A header alone, as crypto.rs would check it if the payload were left out.
SignatureOfHeader(header, payload) ==
    <<header.name, header.size, header.sig[3]>>

\* compute_package_signature: over the header without its signature, then the
\* payload.
Signature(header, payload) == <<header.name, header.size, payload>>

\* verify_package_signature, in the store and in the shell.
Verified(header, payload) == header.sig = Signature(header, payload)

NoHeader == [magic |-> FALSE, name |-> "none", size |-> 0, sig |-> <<"none", 0, <<>>>>]
\* The texts the store writes when a package file is absent or too short.
Builtin == [hdr |-> NoHeader, pay |-> <<"builtin">>]

StIdle == [pc |-> "idle", i |-> 0, app |-> Builtin, recs |-> <<>>, self |-> FALSE]
ShIdle == [pc |-> "idle", op |-> "none", name |-> "none", base |-> "none", app |-> Builtin, recs |-> <<>>]
Records == IF db = {} THEN <<>> ELSE CHOOSE r \in db : TRUE
HasRecord(recs, n) == \E k \in DOMAIN recs : recs[k].name = n

PkInit ==
    /\ pkgs \in [Names -> {{}} \cup {{c} : c \in Contents}]
    /\ apps = [n \in Names |-> {}]
    /\ db = {}
    /\ items = <<>> /\ st = StIdle /\ sh = ShIdle
    /\ copies = 0

(***************************************************************************)
(* The store's catalog                                                     *)
(***************************************************************************)
\* add_package: a name that is listed is refreshed and marked not installed.
add_package(its, name, file, verification) ==
    LET known == {i \in DOMAIN its : its[i].name = name}
    IN  IF known # {}
          THEN [i \in DOMAIN its |->
                  IF i \in known THEN [its[i] EXCEPT !.installed = FALSE, !.verif = verification] ELSE its[i]]
          ELSE IF Len(its) >= MaxPackages THEN its
          ELSE Append(its, [name |-> name, file |-> file, installed |-> FALSE, verif |-> verification])

\* The payload a header claims, or what there is of it.
PayloadOf(c) == SubSeq(c, 2, IF Len(c) > c[1].size THEN 1 + c[1].size ELSE Len(c))

inspect_and_register_pkg_file(its, f) ==
    IF pkgs[f] = {} THEN its
    ELSE LET c == CHOOSE x \in pkgs[f] : TRUE
         IN  IF c = <<>> \/ ~c[1].magic THEN its
             ELSE add_package(its, c[1].name, f, IF Verified(c[1], PayloadOf(c)) THEN "verified" ELSE "invalid")

scan_local_packages(its) == FoldLeft(inspect_and_register_pkg_file, its, FileOrder)

populate_default_catalog ==
    FoldLeft(LAMBDA its, n : add_package(its, n, n, "verified"), <<>>, Catalog)

\* Only the records in the first SyncCap places are read.
sync_with_install_db(its) ==
    [i \in DOMAIN its |->
        IF (\E k \in DOMAIN Records : k <= SyncCap /\ Records[k].name = its[i].name) THEN [its[i] EXCEPT !.installed = TRUE] ELSE its[i]]

StoreItems == sync_with_install_db(scan_local_packages(populate_default_catalog))

(***************************************************************************)
(* The store                                                               *)
(***************************************************************************)
StoreOpen == items = <<>> /\ items' = StoreItems /\ UNCHANGED <<pkgs, apps, db, st, sh, copies>>

\* Escape; the program is not between two file operations then.
StoreQuit == items # <<>> /\ st = StIdle /\ items' = <<>> /\ UNCHANGED <<pkgs, apps, db, st, sh, copies>>

\* "Re-verify All Signatures": a scan without the look into INSTALL.DB that
\* follows it at start.
Reverify ==
    /\ items # <<>> /\ st = StIdle
    /\ items' = scan_local_packages(items)
    /\ UNCHANGED <<pkgs, apps, db, st, sh, copies>>

\* The store is done with what it was asked for; a self-test run exits.
Done(its) == st' = StIdle /\ items' = IF st.self THEN <<>> ELSE its

\* install_package up to the signature check.
Fetch(i) ==
    LET file == pkgs[items[i].file]
        Go(app) == st' = [StIdle EXCEPT !.pc = "write", !.i = i, !.app = app, !.self = st.self]
    IN  /\ ~items[i].installed
        /\ \/ file \subseteq {<<>>} /\ Go(Builtin) /\ UNCHANGED items
           \/ \E c \in file \ {<<>>} :
                \/ /\ Verified(c[1], PayloadOf(c))
                   /\ Go([hdr |-> c[1], pay |-> PayloadOf(c)])
                   /\ UNCHANGED items
                \/ /\ ~Verified(c[1], PayloadOf(c))
                   /\ Done([items EXCEPT ![i].verif = "invalid"])

install_package(i) ==
    /\ st = StIdle
    /\ Fetch(i)
    /\ UNCHANGED <<pkgs, apps, db, sh, copies>>

StoreWrite ==
    /\ st.pc = "write"
    /\ \/ /\ apps[items[st.i].file] = {}
          /\ apps' = [apps EXCEPT ![items[st.i].file] = {st.app}]
          /\ st' = [st EXCEPT !.pc = "record"]
          /\ UNCHANGED items
       \/ Done(items) /\ UNCHANGED apps              \* file exists, or the write failed
    /\ UNCHANGED <<pkgs, db, sh, copies>>

\* What install_package does after record_install_db; the self-test goes on
\* to remove what it installed.
Installed(i) ==
    /\ items' = [items EXCEPT ![i].installed = TRUE, ![i].verif = "verified"]
    /\ st' = IF st.self THEN [StIdle EXCEPT !.pc = "remove", !.i = i, !.self = TRUE] ELSE StIdle

record_install_db ==
    LET it == items[st.i] IN
    /\ st.pc = "record"
    /\ IF HasRecord(Records, it.name) \/ Len(Records) >= MaxInstalled
         THEN Installed(st.i)
         ELSE /\ st' = [st EXCEPT !.pc = "deldb", !.recs = Append(Records, [name |-> it.name, app |-> it.file])]
              /\ UNCHANGED items
    /\ UNCHANGED <<pkgs, apps, db, sh, copies>>

\* remove_package: the application goes first, then the record.
remove_package(i) ==
    /\ items[i].installed
    /\ apps' = [apps EXCEPT ![items[i].file] = {}]
    /\ st' = [StIdle EXCEPT !.pc = "unrecord", !.i = i, !.self = st.self]
    /\ UNCHANGED <<pkgs, db, items, sh, copies>>

Removed == Done([items EXCEPT ![st.i].installed = FALSE])

StoreUnrecord ==
    /\ st.pc = "unrecord"
    /\ st' = [st EXCEPT !.pc = "deldb2", !.recs = SelectSeq(Records, LAMBDA r : r.name # items[st.i].name)]
    /\ UNCHANGED <<pkgs, apps, db, items, sh, copies>>

\* sys_delete_file and sys_write_file of INSTALL.DB, two calls whose results
\* are not looked at.  An empty list is not written.
StoreDeleteDb ==
    /\ st.pc \in {"deldb", "deldb2"}
    /\ db' = {}
    /\ IF st.recs = <<>> THEN Removed
       ELSE st' = [st EXCEPT !.pc = IF st.pc = "deldb" THEN "savedb" ELSE "savedb2"] /\ UNCHANGED items
    /\ UNCHANGED <<pkgs, apps, sh, copies>>

StoreSaveDb ==
    /\ st.pc \in {"savedb", "savedb2"}
    /\ \/ db = {} /\ db' = {st.recs}
       \/ UNCHANGED db
    /\ IF st.pc = "savedb" THEN Installed(st.i) ELSE Removed
    /\ UNCHANGED <<pkgs, apps, sh, copies>>

\* store --selftest: a fresh catalog, package 0 installed and removed again,
\* on the real disk.
Selftest ==
    /\ items = <<>>
    /\ LET its == StoreItems IN
         /\ its # <<>>
         /\ items' = its
         /\ IF its[1].installed
              THEN st' = [StIdle EXCEPT !.pc = "remove", !.i = 1, !.self = TRUE]
              ELSE st' = [StIdle EXCEPT !.pc = "selftest", !.self = TRUE]
    /\ UNCHANGED <<pkgs, apps, db, sh, copies>>

StoreStep ==
    \/ StoreWrite \/ record_install_db \/ StoreUnrecord \/ StoreDeleteDb \/ StoreSaveDb
    \/ st.pc = "selftest" /\ Fetch(1) /\ UNCHANGED <<pkgs, apps, db, sh, copies>>
    \/ st.pc = "remove" /\ remove_package(st.i)

(***************************************************************************)
(* The shell's pkg command                                                 *)
(***************************************************************************)
ShGo(r) == sh' = r /\ UNCHANGED <<pkgs, items, st, copies>>

pkg_install(n) ==
    /\ sh = ShIdle /\ ~HasRecord(Records, n)
    /\ ShGo([ShIdle EXCEPT !.pc = "scan", !.op = "install", !.name = n])
    /\ UNCHANGED <<apps, db>>

IsPackage(f, n) == \E c \in pkgs[f] : c # <<>> /\ c[1].magic /\ c[1].name = n

\* The first file whose header has the name; its header is kept.
PkgScan ==
    LET found == SelectSeq(FileOrder, LAMBDA f : IsPackage(f, sh.name))
    IN  /\ sh.pc = "scan"
        /\ IF found = <<>> THEN ShGo(ShIdle)
           ELSE ShGo([sh EXCEPT !.pc = "reread", !.base = Head(found),
                                !.app.hdr = (CHOOSE c \in pkgs[Head(found)] : TRUE)[1]])
        /\ UNCHANGED <<apps, db>>

\* install_from_buffer as far as the signature check.
Accept(hdr, c, base) ==
    LET pay == SubSeq(c, 2, 1 + hdr.size)
    IN  IF Len(c) > hdr.size /\ Verified(hdr, pay)
          THEN ShGo([sh EXCEPT !.pc = "write", !.op = "install", !.base = base,
                               !.app = [hdr |-> hdr, pay |-> pay], !.name = hdr.name])
          ELSE ShGo(ShIdle)

\* The file is read a second time, whole, and checked against the header of
\* the first reading.
PkgReread ==
    /\ sh.pc = "reread"
    /\ IF pkgs[sh.base] = {} THEN ShGo(ShIdle)
       ELSE \E c \in pkgs[sh.base] : Accept(sh.app.hdr, c, sh.base)
    /\ UNCHANGED <<apps, db>>

pkg_fetch_and_install(n) ==
    /\ sh = ShIdle /\ ~HasRecord(Records, n)
    /\ \E c \in Fetched : /\ c # <<>> /\ c[1].magic /\ c[1].name = n
                          /\ Accept(c[1], c, n)
    /\ UNCHANGED <<apps, db>>

PkgWrite ==
    /\ sh.pc = "write"
    /\ \/ /\ apps[sh.base] = {}
          /\ apps' = [apps EXCEPT ![sh.base] = {sh.app}]
          /\ ShGo([sh EXCEPT !.pc = "load"])
       \/ ShGo(ShIdle) /\ UNCHANGED apps
    /\ UNCHANGED db

PkgLoad ==
    /\ sh.pc = "load"
    /\ IF Len(Records) >= MaxInstalled
         THEN ShGo(ShIdle) /\ apps' = [apps EXCEPT ![sh.base] = {}]
         ELSE /\ ShGo([sh EXCEPT !.pc = "deldb", !.recs = Append(Records, [name |-> sh.name, app |-> sh.base])])
              /\ UNCHANGED apps
    /\ UNCHANGED db

\* save_install_db; an install that cannot save its record takes the
\* application back.
PkgDeleteDb ==
    /\ sh.pc = "deldb"
    /\ db' = {}
    /\ ShGo([sh EXCEPT !.pc = "savedb"])
    /\ UNCHANGED apps

PkgSaveDb ==
    /\ sh.pc = "savedb"
    /\ \/ db = {} /\ db' = {sh.recs} /\ UNCHANGED apps
       \/ /\ apps' = IF sh.op = "install" THEN [apps EXCEPT ![sh.base] = {}] ELSE apps
          /\ UNCHANGED db
    /\ ShGo(ShIdle)

pkg_remove(n) ==
    /\ sh = ShIdle
    /\ \E k \in DOMAIN Records :
         /\ Records[k].name = n
         /\ \A j \in 1 .. k - 1 : Records[j].name # n
         /\ ShGo([ShIdle EXCEPT !.pc = "delapp", !.op = "remove", !.base = Records[k].app,
                                !.recs = RemoveAt(Records, k)])
    /\ UNCHANGED <<apps, db>>

PkgDeleteApp ==
    /\ sh.pc = "delapp"
    /\ apps' = [apps EXCEPT ![sh.base] = {}]
    /\ ShGo([sh EXCEPT !.pc = "deldb"])
    /\ UNCHANGED db

ShellStep ==
    PkgScan \/ PkgReread \/ PkgWrite \/ PkgLoad \/ PkgDeleteDb \/ PkgSaveDb \/ PkgDeleteApp

(***************************************************************************)
(* Environment                                                             *)
(***************************************************************************)
\* The user copies, replaces or deletes a package file.
ChangeFile(f) ==
    /\ copies < MaxCopies
    /\ \E c \in {{}} \cup {{x} : x \in Contents} : c # pkgs[f] /\ pkgs' = [pkgs EXCEPT ![f] = c]
    /\ copies' = copies + 1
    /\ UNCHANGED <<apps, db, items, st, sh>>

PowerOff ==
    /\ items' = <<>> /\ st' = StIdle /\ sh' = ShIdle
    /\ UNCHANGED <<pkgs, apps, db, copies>>

PkNext ==
    \/ StoreOpen \/ StoreQuit \/ Reverify \/ Selftest \/ StoreStep
    \/ \E i \in DOMAIN items : install_package(i) \/ (st = StIdle /\ remove_package(i))
    \/ \E n \in Names : pkg_install(n) \/ pkg_fetch_and_install(n) \/ pkg_remove(n)
    \/ ShellStep
    \/ \E f \in Names : ChangeFile(f)
    \/ PowerOff

PkSpec == PkInit /\ [][PkNext]_pkVars

(***************************************************************************)
(* Properties                                                              *)
(***************************************************************************)
\* Whatever application file exists, it is the payload of one signed package,
\* header and payload signed together, or one of the store's built-in texts:
\* package files replaced between the shell's two readings, bodies cut off or
\* mixed by the network, and the two installers working at once never put
\* anything else on the disk.
InstalledAppsVerified ==
    \A n \in Names : \A a \in apps[n] : a = Builtin \/ a.hdr.sig = <<a.hdr.name, a.hdr.size, a.pay>>
=============================================================================
