---------------------------- MODULE TidalSchema ----------------------------
(***************************************************************************)
(* The schema of the application's database (TidalSchema.cpp): its tables  *)
(* and indices with the version each appears in, and for each table the    *)
(* versions that brought columns.                                          *)
(***************************************************************************)
EXTENDS Naturals, TLC

LatestVersion == 11

TidalTableSince ==
  ("playback_reports" :> 11) @@ ("cached_track" :> 1) @@ ("imported_track" :> 3)
  @@ ("imported_album" :> 3) @@ ("imported_playlist" :> 3) @@ ("track_import_job" :> 3)

ColumnVersions ==
  ("playback_reports" :> {11}) @@ ("cached_track" :> {1, 2, 10})
  @@ ("imported_track" :> {3, 4, 9, 10}) @@ ("imported_album" :> {3, 4})
  @@ ("imported_playlist" :> {3, 4}) @@ ("track_import_job" :> {3, 4, 5, 6, 10})

TidalIndexSince ==
  ("imported_track_natural_sort" :> 8) @@ ("imported_album_by_title" :> 3)
  @@ ("imported_playlist_by_title" :> 3) @@ ("track_import_job_by_timestamp" :> 7)

TidalTables == DOMAIN TidalTableSince
TidalColumns == UNION {{<<t, v>> : v \in ColumnVersions[t]} : t \in TidalTables}
TidalIndices == DOMAIN TidalIndexSince
=============================================================================
