------------------------------- MODULE Schema -------------------------------
(* The tables of core/schema_specs.py: for each its canonical columns, and   *)
(* the columns that older releases had under another name.  Of the columns   *)
(* those are kept that a migration reads, fills, renames or drops; "id"      *)
(* stands for the key and for whatever else a row holds.                     *)
EXTENDS Integers, Sequences

CONSTANT Null

NULL_SCOPE_SENTINEL == -1

\* A column that may have to be renamed (legacy), added, and filled from others
\* by COALESCE (fill).
Column(column, legacy, fill) == [column |-> column, legacy |-> legacy, fill |-> fill]
Renamed(column, legacy) == Column(column, legacy, <<column, legacy>>)
Added(column) == Column(column, "", <<>>)

ManagedTable(table, columns, legacy) == [table |-> table, columns |-> columns, legacy |-> legacy]
PlainTable(table) == ManagedTable(table, {"id"}, <<>>)

\* What ADD COLUMN puts into the rows there are.
DefaultOf(column) ==
    CASE column \in {"season_norm", "episode_norm"} -> NULL_SCOPE_SENTINEL
      [] column = "processed_count" -> 0
      [] OTHER -> Null

DB_MAINTENANCE == ManagedTable("db_maintenance", {"id", "last_startup_cleanup_at"},
    <<Renamed("last_startup_cleanup_at", "last_startup_cleanup")>>)
SCRAPE_LOCKS == ManagedTable("scrape_locks", {"id", "updated_at", "expires_at"},
    <<Column("updated_at", "timestamp", <<"updated_at", "timestamp", "expires_at">>)>>)
KODI_SETUP_CODES == ManagedTable("kodi_setup_codes", {"id", "config_b64"},
    <<Renamed("config_b64", "b64config")>>)
ADDON_CONFIGS == PlainTable("addon_configs")
MEDIA_METADATA_CACHE == ManagedTable("media_metadata_cache",
    {"id", "title", "metadata_updated_at", "release_date", "release_updated_at"}, <<>>)
SERIES_EPISODE_INDEX == PlainTable("series_episode_index")
SERIES_EPISODE_INDEX_REFRESH == PlainTable("series_episode_index_refresh")
MEDIA_DEMAND == ManagedTable("media_demand", {"id", "first_seen_at", "last_seen_at"}, <<>>)

\* The columns of a scope (a season and an episode, or none) are filled in bulk, with
\* those of the two large tables that have no fill of their own.
ScopeColumns == <<Added("season_norm"), Added("episode_norm")>>
BulkFilled(column, legacy) == Column(column, legacy, <<>>)
TORRENTS == ManagedTable("torrents",
    {"id", "season", "season_norm", "episode", "episode_norm", "title", "sources_json",
     "parsed_json", "media_info", "updated_at"},
    ScopeColumns \o <<BulkFilled("sources_json", "sources"), BulkFilled("parsed_json", "parsed"),
                      Added("media_info"), BulkFilled("updated_at", "timestamp")>>)
DEBRID_AVAILABILITY == ManagedTable("debrid_availability",
    {"id", "season", "season_norm", "episode", "episode_norm", "title", "parsed_json", "updated_at"},
    ScopeColumns \o <<BulkFilled("parsed_json", "parsed"), BulkFilled("updated_at", "timestamp")>>)
DOWNLOAD_LINKS_CACHE == ManagedTable("download_links_cache",
    {"id", "season", "season_norm", "episode", "episode_norm", "title", "updated_at"}, <<>>)

DEBRID_ACCOUNT_MAGNETS == ManagedTable("debrid_account_magnets", {"id", "synced_at"},
    <<Renamed("synced_at", "timestamp")>>)
DEBRID_ACCOUNT_SYNC_STATE == ManagedTable("debrid_account_sync_state", {"id", "last_sync_at"},
    <<Renamed("last_sync_at", "last_sync")>>)
ACTIVE_CONNECTIONS == ManagedTable("active_connections", {"id", "started_at"},
    <<Renamed("started_at", "timestamp")>>)
BANDWIDTH_STATS == ManagedTable("bandwidth_stats", {"id", "updated_at"},
    <<Renamed("updated_at", "last_updated")>>)
METRICS_CACHE == ManagedTable("metrics_cache", {"id", "payload_json", "refreshed_at"},
    <<Renamed("payload_json", "data"), Renamed("refreshed_at", "timestamp")>>)
ANIME_ENTRIES == ManagedTable("anime_entries", {"id", "data_json"}, <<Renamed("data_json", "data")>>)
ANIME_MAPPING_STATE == PlainTable("anime_mapping_state")
ANIME_PROVIDER_OVERRIDES == ManagedTable("anime_provider_overrides", {"id", "target_id"}, <<>>)
DMM_ENTRIES == PlainTable("dmm_entries")
DMM_INGESTED_FILES == PlainTable("dmm_ingested_files")
BACKGROUND_SCRAPER_ITEMS == PlainTable("background_scraper_items")
\* processed_count stands for the four counts of a run.
BACKGROUND_SCRAPER_RUNS == ManagedTable("background_scraper_runs", {"id", "processed_count"},
    <<Added("processed_count")>>)
ANIME_IDS == ManagedTable("anime_ids", {"id", "entry_id"}, <<>>)
BACKGROUND_SCRAPER_EPISODES == ManagedTable("background_scraper_episodes",
    {"id", "series_id", "season", "episode", "updated_at"}, <<>>)

\* One row for a scope; the first in the order of the index's definition is kept.
UNIQUE_INDEX_TABLES == <<"torrents", "debrid_availability", "download_links_cache">>

\* The tables whose indexes are brought up to date, in order.
CURRENT_NON_UNIQUE_INDEX_SPECS ==
    <<SCRAPE_LOCKS, KODI_SETUP_CODES, MEDIA_METADATA_CACHE, SERIES_EPISODE_INDEX,
      SERIES_EPISODE_INDEX_REFRESH, MEDIA_DEMAND, TORRENTS, DEBRID_AVAILABILITY,
      DOWNLOAD_LINKS_CACHE, DEBRID_ACCOUNT_MAGNETS, ACTIVE_CONNECTIONS, BACKGROUND_SCRAPER_ITEMS,
      BACKGROUND_SCRAPER_RUNS, ANIME_IDS, BACKGROUND_SCRAPER_EPISODES, ANIME_PROVIDER_OVERRIDES,
      DMM_ENTRIES>>

\* The index of dmm_entries needs an extension that only PostgreSQL has.
NeedsExtension(spec) == spec = DMM_ENTRIES

LEGACY_TABLES == <<"db_version", "metadata_cache", "digital_release_cache", "first_searches",
                   "kitsu_imdb_mapping">>
LEGACY_STORAGE_COLUMN_CLEANUP ==
    << <<"db_maintenance", <<"last_startup_cleanup">>>>, <<"scrape_locks", <<"timestamp">>>>,
       <<"kodi_setup_codes", <<"b64config", "created_at">>>>,
       <<"torrents", <<"sources", "parsed", "timestamp">>>>,
       <<"debrid_availability", <<"parsed", "timestamp">>>>,
       <<"download_links_cache", <<"timestamp">>>>, <<"debrid_account_magnets", <<"timestamp">>>>,
       <<"debrid_account_sync_state", <<"last_sync">>>>, <<"active_connections", <<"timestamp">>>>,
       <<"bandwidth_stats", <<"last_updated">>>>, <<"background_scraper_items", <<"source">>>>,
       <<"metrics_cache", <<"data", "timestamp">>>>, <<"anime_entries", <<"data">>>>,
       <<"dmm_ingested_files", <<"timestamp">>>> >>
=============================================================================
