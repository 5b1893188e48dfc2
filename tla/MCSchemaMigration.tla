------------------------- MODULE MCSchemaMigration -------------------------
(* Instances of SchemaMigration for TLC. *)
EXTENDS SchemaMigration, TLC

Legacies(spec) == {spec.legacy[i].legacy : i \in DOMAIN spec.legacy} \ {""}
\* The columns of a table of an old release: under the legacy names, or, of one between,
\* under both.
OldColumns(spec, form) ==
    (spec.columns \ (IF form = "old" THEN {spec.legacy[i].column : i \in DOMAIN spec.legacy} ELSE {}))
    \cup Legacies(spec)
OldRow(spec, form, cells, old, new) ==
    [c \in OldColumns(spec, form) \cup DOMAIN cells |->
        IF c \in DOMAIN cells THEN cells[c]
        ELSE IF c \in Legacies(spec) THEN old
        ELSE IF DefaultOf(c) # Null THEN DefaultOf(c) ELSE new]
OldTable(spec, form, rows) ==
    spec.table :> [cols |-> UNION {DOMAIN r : r \in rows}, rows |-> rows]

\* A row that is in the legacy columns only, one that is in the newer ones, and an empty one.
Rows(spec, form, extra) ==
    {OldRow(spec, form, [id |-> 1] @@ extra, 5, Null), OldRow(spec, form, [id |-> 2] @@ extra, 5, 6),
     OldRow(spec, form, [id |-> 3] @@ extra, Null, Null)}
Plain(spec, form) == OldTable(spec, form, Rows(spec, form, <<>>))

\* Two rows of one scope, one that is in no season, one that is in another episode.
Scoped(id, s, e, t) == [id |-> id, season |-> s, episode |-> e, title |-> t]
ScopedRows(spec, form) ==
    {OldRow(spec, form, Scoped(1, Null, Null, 1), 3, Null), OldRow(spec, form, Scoped(1, Null, Null, 2), 4, Null),
     OldRow(spec, form, Scoped(1, 1, 1, 1), 3, 4), OldRow(spec, form, Scoped(1, 1, 1, 2), 3, 2),
     OldRow(spec, form, Scoped(1, 1, 2, 1), Null, Null)}

\* Of a new database there is the table of the versions only.
NewDatabase == "schema_migrations" :> [cols |-> {}, rows |-> {}]
OldDatabase(form) ==
    Plain(DB_MAINTENANCE, form) @@ Plain(BANDWIDTH_STATS, form) @@ Plain(METRICS_CACHE, form)
    @@ Plain(ANIME_ENTRIES, form)
    @@ OldTable(SCRAPE_LOCKS, form, Rows(SCRAPE_LOCKS, form, [expires_at |-> 9]))
    @@ OldTable(KODI_SETUP_CODES, form, Rows(KODI_SETUP_CODES, form, [created_at |-> 1, nonce |-> 1]))
    @@ OldTable(TORRENTS, form, ScopedRows(TORRENTS, form))
    @@ OldTable(DEBRID_AVAILABILITY, form, ScopedRows(DEBRID_AVAILABILITY, form))
    @@ "download_links_cache" :> [cols |-> {"id", "timestamp"}, rows |-> {[id |-> 1, timestamp |-> 1]}]
    @@ OldTable(BACKGROUND_SCRAPER_ITEMS, form, {[id |-> 1, source |-> 1]})
    @@ OldTable(DMM_INGESTED_FILES, form, {[id |-> 1, timestamp |-> 1]})
    @@ OldTable(BACKGROUND_SCRAPER_RUNS, form,
                Rows(BACKGROUND_SCRAPER_RUNS, form, [processed |-> 4, config_snapshot |-> 1]))
    @@ OldTable(ANIME_IDS, form, {[id |-> 1, entry_id |-> 1], [id |-> 2, entry_id |-> 8]})
    @@ OldTable(BACKGROUND_SCRAPER_EPISODES, form,
                {[id |-> 1, series_id |-> 1, season |-> 1, episode |-> 1, updated_at |-> 3],
                 [id |-> 2, series_id |-> 1, season |-> 1, episode |-> 1, updated_at |-> Null],
                 [id |-> 3, series_id |-> 1, season |-> 0, episode |-> 1, updated_at |-> 1],
                 [id |-> 4, series_id |-> 2, season |-> 1, episode |-> 1, updated_at |-> 1]})
    @@ "db_version" :> [cols |-> {"id"}, rows |-> {[id |-> 1]}]
    @@ "metadata_cache" :> [cols |-> {"id", "title", "timestamp"},
                            rows |-> {[id |-> 1, title |-> 1, timestamp |-> 2],
                                      [id |-> 2, title |-> 1, timestamp |-> 2]}]
    @@ "digital_release_cache" :> [cols |-> {"id", "release_date", "timestamp"},
                                   rows |-> {[id |-> 1, release_date |-> 1, timestamp |-> 2],
                                             [id |-> 3, release_date |-> 1, timestamp |-> 2]}]
    @@ "first_searches" :> [cols |-> {"id", "timestamp"},
                            rows |-> {[id |-> 1, timestamp |-> 2], [id |-> 2, timestamp |-> 4]}]
    @@ "kitsu_imdb_mapping" :> [cols |-> {"id", "imdb_id"},
                                rows |-> {[id |-> 1, imdb_id |-> 1], [id |-> 2, imdb_id |-> Null]}]
    @@ IF form = "old" THEN NewDatabase
       ELSE "media_demand" :> [cols |-> {"id", "first_seen_at", "last_seen_at"},
                               rows |-> {[id |-> 1, first_seen_at |-> 1, last_seen_at |-> 3],
                                         [id |-> 2, first_seen_at |-> 5, last_seen_at |-> 6]}]

OldDatabases == {NewDatabase, OldDatabase("old"), OldDatabase("both")}
=============================================================================
