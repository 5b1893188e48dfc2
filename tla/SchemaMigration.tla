--------------------------- MODULE SchemaMigration ---------------------------
(* run_schema_migrations (core/schema_migrations.py): the versions of the    *)
(* schema, each a program of statements that take effect one by one; only    *)
(* what _replace_table does is one transaction.  The process may end between *)
(* any two statements; the next start skips the versions that are recorded   *)
(* and runs the one it was in from its beginning.  The backend's lock keeps  *)
(* other processes away (DatabaseSetup).                                     *)
(*                                                                           *)
(* The database: each table that exists has columns and rows; the legacy     *)
(* indexes, which hold no data, are left out.                                *)
EXTENDS Schema, FiniteSets

LOCAL INSTANCE SequencesExt

CONSTANTS
    FirstDatabase,   \* what earlier releases may have left: a set of databases
    Backend          \* "postgres", "sqlite"

VARIABLES
    backend,    \* what the program runs on
    first,      \* the database as the release found it
    db,         \* table -> its columns and rows
    unique,     \* the tables that have their unique index
    applied,    \* schema_migrations
    version,    \* the version that is being applied
    statement   \* and its next statement

schemaVars == <<backend, first, db, unique, applied, version, statement>>

----------------------------------------------------------------------------
(* Columns and rows. *)

HasTable(d, t) == t \in DOMAIN d
HasColumn(d, t, c) == HasTable(d, t) /\ c \in d[t].cols
RowsOf(d, t) == IF HasTable(d, t) THEN d[t].rows ELSE {}

With(d, t, cols, rows) == [u \in DOMAIN d \cup {t} |->
    IF u = t THEN [cols |-> cols, rows |-> rows] ELSE d[u]]
MapRows(d, t, F(_)) == With(d, t, d[t].cols, {F(r) : r \in d[t].rows})
KeepRows(d, t, Keep(_)) == With(d, t, d[t].cols, {r \in d[t].rows : Keep(r)})

\* The first of the columns that is not null.
Coalesce(r, columns) ==
    LET filled == {i \in DOMAIN columns : r[columns[i]] # Null}
    IN  IF filled = {} THEN Null ELSE r[columns[CHOOSE i \in filled : \A j \in filled : i <= j]]
OrElse(v, default) == IF v = Null THEN default ELSE v

\* A row that outranks another of the same scope or key: the newer one, then the one with
\* the greater title or key.
Outranks(r, s, tie) ==
    LET t == OrElse(r.updated_at, 0)  u == OrElse(s.updated_at, 0)
    IN  t > u \/ (t = u /\ r[tie] > s[tie])
Newest(rows, Key(_), tie) ==
    {r \in rows : \A s \in rows \ {r} : Key(s) = Key(r) => Outranks(r, s, tie)}
Scope(r) == <<r.id, r.season_norm, r.episode_norm>>

\* INSERT ... SELECT ... ON CONFLICT (id) DO UPDATE SET each column that is inserted.
UpsertInto(d, spec, new) ==
    LET old == RowsOf(d, spec.table)
        Over(r) == {n \in new : n.id = r.id}
    IN  With(d, spec.table, d[spec.table].cols,
             {IF Over(r) = {} THEN r
              ELSE LET n == CHOOSE n \in Over(r) : TRUE
                   IN  [c \in DOMAIN r |-> IF c \in DOMAIN n THEN n[c] ELSE r[c]] : r \in old}
             \cup {[c \in d[spec.table].cols |-> IF c \in DOMAIN n THEN n[c] ELSE Null] :
                       n \in {m \in new : \A r \in old : r.id # m.id}})

----------------------------------------------------------------------------
(* Statements: what each makes of a database. *)

EnsureTable(d, spec) ==
    IF HasTable(d, spec.table) THEN d ELSE With(d, spec.table, spec.columns, {})

DropTableIfExists(d, t) == [u \in DOMAIN d \ {t} |-> d[u]]

RenameColumnIfMissing(d, t, l) ==
    IF ~HasColumn(d, t, l.legacy) \/ HasColumn(d, t, l.column) THEN d
    ELSE With(d, t, (d[t].cols \ {l.legacy}) \cup {l.column},
              {[c \in (DOMAIN r \ {l.legacy}) \cup {l.column} |->
                    IF c = l.column THEN r[l.legacy] ELSE r[c]] : r \in d[t].rows})

AddColumnIfMissing(d, t, c) ==
    IF HasColumn(d, t, c) THEN d
    ELSE With(d, t, d[t].cols \cup {c},
              {[k \in DOMAIN r \cup {c} |-> IF k = c THEN DefaultOf(c) ELSE r[k]] : r \in d[t].rows})

DropColumnIfExists(d, t, c) ==
    IF ~HasColumn(d, t, c) THEN d
    ELSE With(d, t, d[t].cols \ {c}, {[k \in DOMAIN r \ {c} |-> r[k]] : r \in d[t].rows})

\* The column takes the first value of its fill, when the legacy column is still there.
FillFromLegacy(d, t, l) ==
    IF l.legacy = "" \/ l.fill = <<>> \/ ~HasColumn(d, t, l.legacy) THEN d
    ELSE MapRows(d, t, LAMBDA r : [r EXCEPT ![l.column] = Coalesce(r, l.fill)])

\* The bulk update of torrents and debrid_availability: a row, and which rows it is for.
ScopeFilled(d, t, r) ==
    [c \in DOMAIN r |->
        CASE c = "season_norm" -> OrElse(r.season, NULL_SCOPE_SENTINEL)
          [] c = "episode_norm" -> OrElse(r.episode, NULL_SCOPE_SENTINEL)
          [] c = "parsed_json" /\ HasColumn(d, t, "parsed") -> Coalesce(r, <<c, "parsed">>)
          [] c = "updated_at" /\ HasColumn(d, t, "timestamp") -> Coalesce(r, <<c, "timestamp">>)
          [] c = "sources_json" /\ t = "torrents" ->
                 OrElse(IF HasColumn(d, t, "sources") THEN Coalesce(r, <<c, "sources">>)
                        ELSE r[c], 0)                      \* 0 is '[]'
          [] OTHER -> r[c]]
ToFill(d, t) ==
    {r \in RowsOf(d, t) :
        \/ r.season_norm # OrElse(r.season, NULL_SCOPE_SENTINEL)
        \/ r.episode_norm # OrElse(r.episode, NULL_SCOPE_SENTINEL)
        \/ r.parsed_json = Null /\ HasColumn(d, t, "parsed") /\ r.parsed # Null
        \/ r.updated_at = Null /\ HasColumn(d, t, "timestamp") /\ r.timestamp # Null
        \/ t = "torrents" /\ r.sources_json = Null}
FillScopes(d, t, rows) ==
    With(d, t, d[t].cols, (d[t].rows \ rows) \cup {ScopeFilled(d, t, r) : r \in rows})

DedupeScopes(d, t) == With(d, t, d[t].cols, Newest(d[t].rows, Scope, "title"))

\* The four tables that canonical ones took the place of.
FromMetadataCache(d) ==
    UpsertInto(d, MEDIA_METADATA_CACHE,
           {[id |-> r.id, title |-> r.title, metadata_updated_at |-> r.timestamp] :
                r \in RowsOf(d, "metadata_cache")})
FromReleaseCache(d) ==
    UpsertInto(d, MEDIA_METADATA_CACHE,
           {[id |-> r.id, release_date |-> r.release_date, release_updated_at |-> r.timestamp] :
                r \in RowsOf(d, "digital_release_cache")})
FromFirstSearches(d) ==
    LET Known(r) == {m \in RowsOf(d, "media_demand") : m.id = r.id}
        Earliest(r) == {r.timestamp} \cup {m.first_seen_at : m \in Known(r)}
        Latest(r) == {r.timestamp} \cup {m.last_seen_at : m \in Known(r)}
    IN  UpsertInto(d, MEDIA_DEMAND,
               {[id |-> r.id,
                 first_seen_at |-> CHOOSE t \in Earliest(r) : \A u \in Earliest(r) : t <= u,
                 last_seen_at |-> CHOOSE t \in Latest(r) : \A u \in Latest(r) : t >= u] :
                    r \in RowsOf(d, "first_searches")})
FromKitsuMapping(d) ==
    UpsertInto(d, ANIME_PROVIDER_OVERRIDES,
           {[id |-> r.id, target_id |-> r.imdb_id] :
                r \in {k \in RowsOf(d, "kitsu_imdb_mapping") : k.imdb_id # Null}})

CountsFilled(d) ==
    IF ~HasColumn(d, "background_scraper_runs", "processed") THEN d
    ELSE MapRows(d, "background_scraper_runs",
                 LAMBDA r : [r EXCEPT !.processed_count =
                                 OrElse(Coalesce(r, <<"processed", "processed_count">>), 0)])
OrphanIdsDropped(d) ==
    KeepRows(d, "anime_ids", LAMBDA r : \E e \in RowsOf(d, "anime_entries") : e.id = r.entry_id)
BadEpisodesDropped(d) ==
    KeepRows(d, "background_scraper_episodes",
             LAMBDA r : r.season # Null /\ r.episode # Null /\ r.season >= 1 /\ r.episode >= 1)
OrphanEpisodesDropped(d) ==
    KeepRows(d, "background_scraper_episodes",
             LAMBDA r : \E i \in RowsOf(d, "background_scraper_items") : i.id = r.series_id)
EpisodeKey(r) == <<r.series_id, r.season, r.episode>>
TwinEpisodesDropped(d) ==
    With(d, "background_scraper_episodes", d["background_scraper_episodes"].cols,
         Newest(RowsOf(d, "background_scraper_episodes"), EpisodeKey, "id"))

\* _replace_table: a new table is created, filled, and takes the place of the old one, in one
\* transaction.
ReplaceTable(d, spec) ==
    With(d, spec.table, spec.columns,
         {[c \in spec.columns |-> r[c]] : r \in RowsOf(d, spec.table)})

----------------------------------------------------------------------------
(* The versions: each a sequence of statements. *)

Create(spec) == <<[do |-> "create", spec |-> spec]>>
On(do, t) == <<[do |-> do, table |-> t]>>
OnColumn(do, t, l) == [do |-> do, table |-> t, column |-> l]
DropColumn(t, c) == <<OnColumn("drop column", t, c)>>

\* _ensure_managed_table.
EnsureManagedTable(spec) ==
    Create(spec) \o FlattenSeq([i \in DOMAIN spec.legacy |->
        <<OnColumn("rename", spec.table, spec.legacy[i]),
          OnColumn("add", spec.table, spec.legacy[i].column),
          OnColumn("fill", spec.table, spec.legacy[i])>>])
ForEach(specs, Statements(_)) == FlattenSeq([i \in DOMAIN specs |-> Statements(specs[i])])

Foundation ==
    ForEach(<<DB_MAINTENANCE, SCRAPE_LOCKS, KODI_SETUP_CODES, MEDIA_METADATA_CACHE,
              SERIES_EPISODE_INDEX, SERIES_EPISODE_INDEX_REFRESH, MEDIA_DEMAND>>, EnsureManagedTable)
    \o EnsureManagedTable(TORRENTS) \o On("backfill", "torrents")
    \o EnsureManagedTable(DEBRID_AVAILABILITY) \o On("backfill", "debrid_availability")
    \o On("drop table", "download_links_cache") \o Create(DOWNLOAD_LINKS_CACHE)
    \o ForEach(<<DEBRID_ACCOUNT_MAGNETS, DEBRID_ACCOUNT_SYNC_STATE, ACTIVE_CONNECTIONS,
                 BANDWIDTH_STATS, BACKGROUND_SCRAPER_ITEMS, METRICS_CACHE, ANIME_ENTRIES,
                 ANIME_MAPPING_STATE, ANIME_PROVIDER_OVERRIDES, DMM_ENTRIES, DMM_INGESTED_FILES>>,
               EnsureManagedTable)
BackfillCanonicalTables ==
    On("copy", "metadata_cache") \o On("copy", "digital_release_cache")
    \o On("copy", "first_searches") \o On("copy", "kitsu_imdb_mapping")
EnsureRuns ==
    EnsureManagedTable(BACKGROUND_SCRAPER_RUNS) \o On("clean", "run counts")
    \o <<[do |-> "replace", spec |-> BACKGROUND_SCRAPER_RUNS]>>
EnsureAnimeIds ==
    EnsureManagedTable(ANIME_IDS) \o On("clean", "orphan ids")
    \o <<[do |-> "replace", spec |-> ANIME_IDS]>>
EnsureEpisodes ==
    EnsureManagedTable(BACKGROUND_SCRAPER_EPISODES) \o On("clean", "bad episodes")
    \o On("clean", "orphan episodes") \o On("clean", "twin episodes")
    \o <<[do |-> "replace", spec |-> BACKGROUND_SCRAPER_EPISODES]>>
Indexes ==
    ForEach(UNIQUE_INDEX_TABLES, LAMBDA t : On("unique", t))
    \o ForEach(CURRENT_NON_UNIQUE_INDEX_SPECS, LAMBDA spec : <<[do |-> "index", spec |-> spec]>>)
CleanupLegacyStorage ==
    ForEach(LEGACY_TABLES, LAMBDA t : On("drop table", t))
    \o ForEach(LEGACY_STORAGE_COLUMN_CLEANUP,
               LAMBDA p : ForEach(p[2], LAMBDA c : DropColumn(p[1], c)))
RemoveDeadKodiColumns ==
    DropColumn("kodi_setup_codes", "nonce") \o DropColumn("kodi_setup_codes", "consumed_at")

\* Mutant of MIGRATIONS: the cleanup comes before the caches are copied.
CleanedFirst ==
    <<Foundation, CleanupLegacyStorage, EnsureRuns \o EnsureAnimeIds \o EnsureEpisodes, Indexes,
      BackfillCanonicalTables>>

MIGRATIONS ==
    <<Foundation, BackfillCanonicalTables, EnsureRuns \o EnsureAnimeIds \o EnsureEpisodes, Indexes,
      CleanupLegacyStorage, RemoveDeadKodiColumns, EnsureManagedTable(SERIES_EPISODE_INDEX),
      EnsureManagedTable(SERIES_EPISODE_INDEX_REFRESH), EnsureManagedTable(ADDON_CONFIGS),
      <<OnColumn("add", "torrents", "media_info")>>>>

\* What a statement makes of the database, but for the bulk updates and the unique indexes.
Effect(s, d) ==
    CASE s.do = "create" -> EnsureTable(d, s.spec)
      [] s.do = "rename" -> RenameColumnIfMissing(d, s.table, s.column)
      [] s.do = "add" -> AddColumnIfMissing(d, s.table, s.column)
      [] s.do = "fill" -> FillFromLegacy(d, s.table, s.column)
      [] s.do = "drop table" -> DropTableIfExists(d, s.table)
      [] s.do = "drop column" -> DropColumnIfExists(d, s.table, s.column)
      [] s.do = "copy" /\ ~HasTable(d, s.table) -> d
      [] s.do = "copy" /\ s.table = "metadata_cache" -> FromMetadataCache(d)
      [] s.do = "copy" /\ s.table = "digital_release_cache" -> FromReleaseCache(d)
      [] s.do = "copy" /\ s.table = "first_searches" -> FromFirstSearches(d)
      [] s.do = "copy" /\ s.table = "kitsu_imdb_mapping" -> FromKitsuMapping(d)
      [] s.do = "clean" /\ s.table = "run counts" -> CountsFilled(d)
      [] s.do = "clean" /\ s.table = "orphan ids" -> OrphanIdsDropped(d)
      [] s.do = "clean" /\ s.table = "bad episodes" -> BadEpisodesDropped(d)
      [] s.do = "clean" /\ s.table = "orphan episodes" -> OrphanEpisodesDropped(d)
      [] s.do = "clean" /\ s.table = "twin episodes" -> TwinEpisodesDropped(d)
      [] s.do = "replace" /\ (s.spec = BACKGROUND_SCRAPER_RUNS
                              => HasColumn(d, s.spec.table, "config_snapshot")) ->
             ReplaceTable(d, s.spec)
      [] OTHER -> d

----------------------------------------------------------------------------
(* The program that runs them. *)

SchemaInit ==
    /\ backend \in Backend /\ first \in FirstDatabase /\ db = first
    /\ unique = {} /\ applied = {} /\ version = 0 /\ statement = 0

Running == version \in DOMAIN MIGRATIONS

\* The first version that is not recorded, when a version or the program is begun; one more
\* than the last when all are.
NextVersion(done) ==
    CHOOSE v \in 1..Len(MIGRATIONS) + 1 : v \notin done /\ \A u \in 1..v - 1 : u \in done

BeginMigrations ==
    /\ version = 0
    /\ version' = NextVersion(applied) /\ statement' = 1
    /\ UNCHANGED <<backend, first, db, unique, applied>>

\* A statement that finds nothing to do is passed over.
Pending(s) ==
    CASE s.do = "backfill" -> ToFill(db, s.table) # {}
      [] s.do = "unique" -> s.table \notin unique
      [] s.do = "index" -> NeedsExtension(s.spec) /\ backend = "sqlite"
      [] OTHER -> Effect(s, db) # db
Upcoming ==
    {i \in statement..Len(MIGRATIONS[version]) :
        /\ \A j \in statement..i - 1 : ~Pending(MIGRATIONS[version][j])
        /\ Pending(MIGRATIONS[version][i])}

Execute ==
    /\ Running
    /\ \E i \in Upcoming : \E s \in {MIGRATIONS[version][i]} :
           /\ s.do \notin {"backfill", "unique", "index"}
           /\ db' = Effect(s, db) /\ statement' = i + 1
    /\ UNCHANGED <<backend, first, unique, applied, version>>

\* _execute_large_table_update: all rows at once, or one batch (of a row) after another.
FillBatch ==
    /\ Running
    /\ \E i \in Upcoming : \E s \in {MIGRATIONS[version][i]} :
           /\ s.do = "backfill" /\ statement' = i
           /\ \E rows \in IF backend = "sqlite" THEN {{r} : r \in ToFill(db, s.table)}
                          ELSE {ToFill(db, s.table)} :
                  db' = FillScopes(db, s.table, rows)
    /\ UNCHANGED <<backend, first, unique, applied, version>>

\* _ensure_unique_index_with_dedupe: when the index cannot be built, all but the newest row
\* of each scope are deleted, and it is tried again.
BuildUnique ==
    /\ Running
    /\ \E i \in Upcoming : \E s \in {MIGRATIONS[version][i]} :
           /\ s.do = "unique" /\ db' = DedupeScopes(db, s.table)
           /\ IF db' = db THEN unique' = unique \cup {s.table} /\ statement' = i + 1
                          ELSE unique' = unique /\ statement' = i
    /\ UNCHANGED <<backend, first, applied, version>>

\* CREATE EXTENSION is an error of syntax on SQLite: the start fails.
IndexFails ==
    /\ Running /\ \E i \in Upcoming : MIGRATIONS[version][i].do = "index"
    /\ version' = -1 /\ statement' = 0
    /\ UNCHANGED <<backend, first, db, unique, applied>>

RecordMigration ==
    /\ Running /\ Upcoming = {}
    /\ applied' = applied \cup {version}
    /\ version' = NextVersion(applied') /\ statement' = 1
    /\ UNCHANGED <<backend, first, db, unique>>

\* The process ends; or it is started again after it failed.
EndMigrations ==
    /\ Running \/ version = -1
    /\ version' = 0 /\ statement' = 0
    /\ UNCHANGED <<backend, first, db, unique, applied>>

SchemaNext ==
    \/ BeginMigrations \/ Execute \/ FillBatch \/ BuildUnique \/ IndexFails
    \/ RecordMigration \/ EndMigrations
SchemaSpec == SchemaInit /\ [][SchemaNext]_schemaVars

----------------------------------------------------------------------------
(* What a database says, whatever its form: legacy, canonical or between. *)

CellOf(d, spec, r, c) ==
    LET ls == {spec.legacy[i] : i \in DOMAIN spec.legacy}
        l == CHOOSE k \in ls : k.column = c
        t == spec.table
    IN  CASE c = "season_norm" -> OrElse(r.season, NULL_SCOPE_SENTINEL)
          [] c = "episode_norm" -> OrElse(r.episode, NULL_SCOPE_SENTINEL)
          [] c = "processed_count" /\ HasColumn(d, t, "processed") ->
                 OrElse(r.processed, IF HasColumn(d, t, c) THEN OrElse(r[c], 0) ELSE 0)
          [] c \notin {"season_norm", "episode_norm"} /\ HasColumn(d, t, c)
             /\ (\E k \in ls : k.column = c /\ k.legacy # "" /\ HasColumn(d, t, k.legacy)) ->
                 Coalesce(r, IF l.fill = <<>> THEN <<c, l.legacy>> ELSE l.fill)
          [] ~HasColumn(d, t, c) /\ l.legacy # "" /\ HasColumn(d, t, l.legacy) -> r[l.legacy]
          [] ~HasColumn(d, t, c) -> DefaultOf(c)
          [] OTHER -> r[c]
Says(d, spec) ==
    {[c \in spec.columns |->
          IF c = "sources_json" THEN OrElse(CellOf(d, spec, r, c), 0) ELSE CellOf(d, spec, r, c)] :
         r \in RowsOf(d, spec.table)}

Cell(d, t, id, c) ==
    IF \E r \in RowsOf(d, t) : r.id = id
    THEN (CHOOSE r \in RowsOf(d, t) : r.id = id)[c] ELSE Null
IdsIn(d, ts) == UNION {{r.id : r \in RowsOf(d, t)} : t \in ts}

Metadata(d) ==
    {<<m, OrElse(Cell(d, "metadata_cache", m, "title"), Cell(d, "media_metadata_cache", m, "title")),
          OrElse(Cell(d, "digital_release_cache", m, "release_date"),
                 Cell(d, "media_metadata_cache", m, "release_date"))>> :
         m \in IdsIn(d, {"metadata_cache", "digital_release_cache", "media_metadata_cache"})}
Seen(d, m) ==
    {t \in {Cell(d, "first_searches", m, "timestamp"), Cell(d, "media_demand", m, "first_seen_at"),
            Cell(d, "media_demand", m, "last_seen_at")} : t # Null}
Demand(d) ==
    {<<m, {t \in Seen(d, m) : \A u \in Seen(d, m) : t <= u},
          {t \in Seen(d, m) : \A u \in Seen(d, m) : t >= u}>> :
        m \in IdsIn(d, {"first_searches", "media_demand"})}
Override(d, k) == OrElse(Cell(d, "kitsu_imdb_mapping", k, "imdb_id"),
                         Cell(d, "anime_provider_overrides", k, "target_id"))
Overrides(d) ==
    {<<k, Override(d, k)>> :
        k \in {i \in IdsIn(d, {"kitsu_imdb_mapping", "anime_provider_overrides"}) :
                  Override(d, i) # Null}}
AnimeIds(d) ==
    {r \in Says(d, ANIME_IDS) : r.entry_id \in IdsIn(d, {"anime_entries"})}
Episodes(d) ==
    Newest({r \in Says(d, BACKGROUND_SCRAPER_EPISODES) :
               /\ r.series_id \in IdsIn(d, {"background_scraper_items"})
               /\ r.season \notin {Null, 0} /\ r.episode \notin {Null, 0}}, EpisodeKey, "id")

KeptTables ==
    {DB_MAINTENANCE, SCRAPE_LOCKS, KODI_SETUP_CODES, ADDON_CONFIGS, SERIES_EPISODE_INDEX,
     SERIES_EPISODE_INDEX_REFRESH, DEBRID_ACCOUNT_MAGNETS, DEBRID_ACCOUNT_SYNC_STATE,
     ACTIVE_CONNECTIONS, BANDWIDTH_STATS, METRICS_CACHE, ANIME_ENTRIES, ANIME_MAPPING_STATE,
     DMM_ENTRIES, DMM_INGESTED_FILES, BACKGROUND_SCRAPER_ITEMS, BACKGROUND_SCRAPER_RUNS}

\* download_links_cache is dropped on purpose: its links hold for an hour.
Contents(d) ==
    <<[spec \in KeptTables |-> Says(d, spec)],
      [spec \in {TORRENTS, DEBRID_AVAILABILITY} |-> Newest(Says(d, spec), Scope, "title")],
      Metadata(d), Demand(d), Overrides(d), AnimeIds(d), Episodes(d)>>

\* However often the migrations are cut off and begun anew, no statement changes what the
\* database says: rows are dropped only when newer ones of their scope are kept, and a legacy
\* place only once the canonical one holds what was in it.
ContentsKept == Contents(db) = Contents(first)

\* A version is recorded when those before it are, and what it set up is there from then on.
RecordedMeansDone ==
    /\ \A v \in applied : \A u \in 1..v : u \in applied
    /\ 1 \in applied => \A t \in {"torrents", "debrid_availability"} :
                            HasTable(db, t) /\ ToFill(db, t) = {}
    /\ 4 \in applied => \A i \in DOMAIN UNIQUE_INDEX_TABLES : UNIQUE_INDEX_TABLES[i] \in unique
    /\ 5 \in applied => /\ \A i \in DOMAIN LEGACY_TABLES : ~HasTable(db, LEGACY_TABLES[i])
                       /\ \A spec \in KeptTables \cup {TORRENTS, DEBRID_AVAILABILITY} :
                              \A i \in DOMAIN spec.legacy :
                                  ~HasColumn(db, spec.table, spec.legacy[i].legacy)

\* A unique index is on a table whose scopes are unique, and the application finds every
\* table with all of its columns.
UpIsCurrent ==
    /\ \A t \in unique : DedupeScopes(db, t) = db
    /\ version > Len(MIGRATIONS) =>
           \A spec \in KeptTables \cup {TORRENTS, DEBRID_AVAILABILITY, DOWNLOAD_LINKS_CACHE,
                   MEDIA_METADATA_CACHE, MEDIA_DEMAND, ANIME_PROVIDER_OVERRIDES, ANIME_IDS,
                   BACKGROUND_SCRAPER_EPISODES} :
               HasTable(db, spec.table) /\ spec.columns \subseteq db[spec.table].cols

SchemaInv == ContentsKept /\ RecordedMeansDone /\ UpIsCurrent

\* docs/advanced/05-database-and-operations.md:7 lists SQLite among the supported backends.
StartsOnEveryBackend == version # -1
=============================================================================
