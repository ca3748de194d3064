------------------------------ MODULE Settings ------------------------------
(***************************************************************************)
(* Settings (src/src/config): defaults, a preset, the environment, the     *)
(* command line, and the validation before a start. A value in the         *)
(* environment is one of EnvValues, told apart as far as the readers do;   *)
(* a setting is read by one of a few rules, and each group of settings     *)
(* (one reader of core.rs or search/env.rs) names its rule.                *)
(***************************************************************************)
EXTENDS Integers, Sequences, FiniteSets, SequencesExt, Functions, TLC

\* Not there, blank, no value of the kind, zero, a value, an infinite number.
EnvValues == {"unset", "blank", "bad", "zero", "good", "infinite"}

\* parse_bool, parse_usize, parse_u64, parse_f32 and the predicates of
\* env_config!, set_string, and the readers of enumerations and JSON: what
\* becomes of a setting, "default" standing for what it was before.
Rules == {"flag", "count", "positive", "weight", "factor", "text", "verbatim", "lenient", "strict", "strict_blank"}
ReadSetting(rule, v) ==
  IF v = "unset" THEN "default" ELSE
  CASE rule \in {"flag", "lenient"} -> IF v = "good" THEN "good" ELSE "default"
    [] rule = "count" -> IF v \in {"good", "zero"} THEN v ELSE "default"
    [] rule = "positive" -> IF v = "good" THEN v ELSE "default"
    [] rule = "weight" -> IF v \in {"good", "zero", "infinite"} THEN v ELSE "default"
    [] rule = "factor" -> IF v \in {"good", "infinite"} THEN v ELSE "default"
    [] rule = "text" -> IF v = "blank" THEN "default" ELSE v
    [] rule = "verbatim" -> v
    [] rule = "strict" -> IF v = "good" THEN v ELSE "error"
    [] rule = "strict_blank" -> IF v \in {"good", "blank"} THEN IF v = "good" THEN v ELSE "default" ELSE "error"

Ruled(names, rule) == [n \in names |-> rule]

\* apply_manifest_env.
ManifestEnv ==
  Ruled({"manifest_path", "catalog_path", "manifest_uri", "manifest_cache_dir"}, "text")
  @@ Ruled({"manifest_refresh_secs", "manifest_max_bytes", "manifest_http_timeout_secs", "manifest_fetch_timeout_secs"}, "count")
  @@ Ruled({"manifest_allow_http"}, "flag") @@ Ruled({"prune_allow_ids", "prune_deny_ids"}, "strict")

\* apply_artifact_env.
ArtifactEnv ==
  Ruled({"storage_artifact_uri", "metadata_artifact_uri", "models_artifact_uri", "artifacts_cache_dir", "bootstrap_uri"}, "text")
  @@ Ruled({"artifact_fetch_policy"}, "lenient") @@ Ruled({"artifact_allow_http"}, "flag")
  @@ Ruled({"artifact_timeout_secs", "artifact_max_bytes", "artifact_archive_max_entries", "artifact_archive_max_bytes"}, "count")

\* apply_storage_env.
StorageEnv ==
  Ruled({"storage_dir", "storage_instance_id"}, "text") @@ Ruled({"cleanup_storage_on_start", "storage_read_only"}, "flag")
  @@ Ruled({"storage_max_instances", "storage_min_versions", "storage_max_bytes", "storage_build_lock_wait_secs"}, "count")

\* apply_server_env, except for the host and the port.
ServerEnv ==
  Ruled({"server_transport"}, "lenient") @@ Ruled({"log_format"}, "strict_blank") @@ Ruled({"http_path"}, "text")
  @@ Ruled({"http_expect_auth_proxy", "http_stateful_mode", "metrics_enabled"}, "flag") @@ Ruled({"http_allowed_hosts"}, "verbatim")
  @@ Ruled({"http_sse_keep_alive_secs", "http_sse_retry_secs", "http_max_body_bytes"}, "count")

\* apply_hosted_auth_env, except for the mode.
AuthEnv ==
  Ruled({"identity_subject_claim", "proxy_identity_header", "proxy_signature_header", "proxy_identity_secret_file", "jwt_issuer",
         "jwt_audience", "jwt_jwks_url"}, "text")
  @@ Ruled({"proxy_identity_max_age_secs", "jwt_clock_skew_secs"}, "count") @@ Ruled({"jwt_algorithms"}, "verbatim")

\* apply_runtime_limits_env.
RuntimeEnv ==
  Ruled({"tool_rate_limits", "tool_allowlist", "tool_denylist", "tool_profile"}, "verbatim")
  @@ Ruled({"tool_rate_limit_window_secs", "mcp_default_limit", "mcp_max_string_chars"}, "positive")
  @@ Ruled({"result_profile", "mcp_result_profile"}, "strict") @@ Ruled({"mcp_include_truncation_meta"}, "flag")
  @@ Ruled({"mcp_max_page_size", "mcp_max_response_bytes", "sql_max_row_limit", "sql_max_byte_limit", "sql_max_chunks",
            "sql_max_poll_seconds", "sql_min_poll_interval_ms", "sql_max_concurrent", "sql_max_queue", "sql_queue_timeout_ms"}, "count")
  @@ Ruled({"sql_provider"}, "text")

\* apply_lineage_and_cache_env.
LineageEnv == Ruled({"lineage_max_results", "lineage_max_depth"}, "positive") @@ Ruled({"entity_cache_size", "batch_get_max_items"}, "count")

\* apply_governance_env.
GovernanceEnv ==
  Ruled({"layer_rules", "governance_required_fields", "gate_profile", "gate_policy"}, "lenient")
  @@ Ruled({"gate_require_tests", "gate_require_owner", "gate_require_fields", "gate_require_compliance", "gate_block"}, "flag")
  @@ Ruled({"gate_min_score", "gate_min_coverage", "provenance_stale_after_days"}, "count")

\* apply_agent_modelling_env.
ModellingEnv ==
  Ruled({"modelling_enabled", "modelling_sql_shape", "max_blockers_required", "max_high_required"}, "flag")
  @@ Ruled({"modelling_max_findings", "too_many_parents_threshold", "source_fanout_threshold", "max_blockers", "max_high"}, "count")

\* apply_search_limits_env and apply_search_index_env.
SearchLimitsEnv ==
  Ruled({"max_page_size", "max_offset", "default_limit", "min_word_length", "max_query_length", "max_path_pattern_length",
         "index_writer_heap_bytes", "max_sql_chunk_bytes", "dedup_fetch_multiplier"}, "positive")
  @@ Ruled({"lineage_cache_size"}, "count") @@ Ruled({"column_lineage_precompute"}, "flag") @@ Ruled({"index_dir"}, "text")

\* apply_text_match_env.
TextMatchEnv ==
  Ruled({"ngram_min", "ngram_max", "fuzzy_min_length", "fuzzy_mid_length", "fuzzy_max_distance"}, "positive")
  @@ Ruled({"ngram_boost"}, "weight") @@ Ruled({"enable_ngram"}, "flag")

\* apply_highlight_format_env and apply_highlight_and_suggestion_env.
HighlightEnv ==
  Ruled({"highlight_max_chars", "suggestions_limit"}, "positive") @@ Ruled({"highlight_max_fields"}, "count")
  @@ Ruled({"highlight_format"}, "lenient") @@ Ruled({"enable_suggestions"}, "flag")

\* apply_fusion_and_runtime_env.
FusionEnv ==
  Ruled({"rrf_overfetch", "search_circuit_failure_threshold", "search_circuit_open_seconds"}, "positive") @@ Ruled({"rrf_k"}, "factor")
  @@ Ruled({"search_timeout_ms", "search_max_concurrent", "search_max_queue"}, "count") @@ Ruled({"enable_rrf"}, "flag")

\* apply_vector_env.
VectorEnv ==
  Ruled({"vector_top_k", "vector_max_chars", "embeddings_max_decompressed_bytes", "vector_ann_bits", "vector_ann_max_candidates",
         "vector_ann_min_candidates", "onnx_threads", "embedding_batch_size"}, "positive")
  @@ Ruled({"vector_ann_hamming"}, "count") @@ Ruled({"cold_start_policy"}, "lenient")
  @@ Ruled({"enable_vector_search", "enable_vector_ann", "enable_vector_quantization"}, "flag")
  @@ Ruled({"embedding_cache_dir", "embedding_model"}, "text")

\* apply_sparse_and_reranker_env.
SparseEnv ==
  Ruled({"sparse_top_k", "sparse_embedding_batch_size", "rerank_top_n"}, "positive")
  @@ Ruled({"enable_sparse_search", "enable_reranker"}, "flag") @@ Ruled({"reranker_model"}, "text")

\* apply_core_field_boosts_env, apply_meta_field_boosts_env.
BoostEnv == Ruled({"boost_alias", "boost_name", "boost_description", "boost_column", "boost_tag", "boost_path", "boost_code"}, "weight")

\* apply_semantic_scoring_env and apply_analyst_semantic_env.
AnalystEnv ==
  Ruled({"staging_deboost_factor", "candidate_false_deboost_factor"}, "weight")
  @@ Ruled({"metric_definition_multiplier", "grain_multiplier", "time_field_multiplier", "dimension_overlap_multiplier",
            "missing_grain_multiplier", "min_multiplier", "max_multiplier"}, "factor")

\* apply_nova_semantic_env.
NovaSemanticEnv ==
  Ruled({"nova_measure_match", "nova_metric_match", "nova_name_match", "nova_synonym_match", "nova_canonical_match", "engineer_exact"}, "weight")

\* apply_indicator_ranking_grouping_env, apply_indicator_ranking_bonus_env.
IndicatorEnv ==
  Ruled({"parent_group_max_groups", "parent_group_max_indicators"}, "positive") @@ Ruled({"enable_parent_coherence"}, "flag")
  @@ Ruled({"generic_label_bonus", "parent_synonym_bonus", "label_precision_scale"}, "weight")

\* apply_indicator_ranking_coherence_env.
CoherenceEnv ==
  Ruled({"diversity_bonus", "canonical_indicator_bonus", "strong_match_bonus", "coherence_max_bonus", "indicator_rrf_weight"}, "weight")
  @@ Ruled({"search_parent_indicator_top_k"}, "positive")

\* apply_metadata_support_env.
SupportEnv ==
  Ruled({"parent_synonym_weight", "domain_weight", "use_case_weight", "column_name_weight", "support_max_bonus"}, "weight")
  @@ Ruled({"support_max_values_per_field"}, "positive")

\* apply_extended_meta_env.
ExtendedEnv == Ruled({"extended_fields"}, "strict") @@ Ruled({"extended_max_fields", "extended_max_values", "extended_max_bytes"}, "count")

\* ColumnLineageConfig::from_env.
ColumnEnv ==
  Ruled({"levenshtein_threshold"}, "count") @@ Ruled({"default_confidence"}, "lenient")
  @@ Ruled({"sql_proximity_max_distance", "min_prefix_suffix_length", "min_levenshtein_length", "column_max_results", "column_max_depth",
            "column_max_candidates"}, "positive")

\* DbtNovaConfig::from_env and apply_search_env: all the settings.
AllEnv ==
  ManifestEnv @@ ArtifactEnv @@ StorageEnv @@ ServerEnv @@ AuthEnv @@ RuntimeEnv @@ LineageEnv @@ GovernanceEnv @@ ModellingEnv
  @@ SearchLimitsEnv @@ TextMatchEnv @@ HighlightEnv @@ FusionEnv @@ VectorEnv @@ SparseEnv @@ BoostEnv @@ AnalystEnv @@ NovaSemanticEnv
  @@ IndicatorEnv @@ CoherenceEnv @@ SupportEnv @@ ExtendedEnv @@ ColumnEnv

\* Mutant: the limits of the audit are not validated.
ValidAnyway(name, value) == value # "error"

\* AgentModellingAuditConfig::validate, validate_proxy_signed_headers and
\* env_errors, for one setting: whether the server may start with it.
SettingValid(name, value) ==
  /\ value # "error"
  /\ name \in {"modelling_max_findings", "too_many_parents_threshold", "source_fanout_threshold", "proxy_identity_max_age_secs"} => value # "zero"

\* The settings that the algorithms divide by, loop over or take as the size
\* of something that must hold at least one.
NeedsOne ==
  {"max_page_size", "default_limit", "dedup_fetch_multiplier", "max_sql_chunk_bytes", "index_writer_heap_bytes", "ngram_min", "ngram_max",
   "rrf_k", "search_circuit_failure_threshold", "vector_top_k", "vector_ann_bits", "embedding_batch_size", "sparse_embedding_batch_size",
   "rerank_top_n", "mcp_default_limit", "mcp_max_string_chars", "tool_rate_limit_window_secs", "lineage_max_results", "lineage_max_depth",
   "column_max_depth", "modelling_max_findings", "too_many_parents_threshold", "proxy_identity_max_age_secs"}

\* Whatever is in the environment, a server either refuses to start or runs
\* with values it can use; what is no value at all changes nothing, or stops
\* the start, and never becomes a setting other than a text.
SettingUsable(name, v) ==
  LET rule == AllEnv[name]
      value == ReadSetting(rule, v)
  IN  SettingValid(name, value) =>
        /\ name \in NeedsOne => value # "zero"
        /\ value \in {"bad", "blank"} => rule \in {"text", "verbatim"}
        /\ v = "good" => value = "good"

-----------------------------------------------------------------------------
(* What is served to whom. Tools are by what they do.                      *)

ToolKinds == {"read", "sql", "recipe", "admin"}

\* apply_runtime_preset and apply_runtime_preset_env.
Preset(name) ==
  CASE name = "local-dev" -> [transport |-> "stdio", profile |-> "agent", deny |-> {}]
    [] name = "ci-audit" -> [transport |-> "stdio", profile |-> "agent", deny |-> {"sql", "recipe"}]
    [] name = "hosted-discovery" -> [transport |-> "http", profile |-> "agent", deny |-> {"sql", "recipe", "admin"}]
    [] name = "hosted-sql-trusted" -> [transport |-> "http", profile |-> "analyst", deny |-> {"recipe", "admin"}]

\* mcp_tool_profile_names, as far as the kinds go.
ProfileTools(profile) ==
  CASE profile = "all" -> ToolKinds
    [] profile = "analyst" -> {"read", "sql"}
    [] profile = "engineer" -> {"read", "sql", "recipe"}
    [] profile = "ops" -> {"read", "admin"}
    [] profile \in {"agent", "governance"} -> {"read"}

\* apply_http_platform_port_fallback: a platform that says PORT expects the
\* server on all interfaces.
HostAfterFallback(transport, env) ==
  IF env.host # "unset" THEN env.host
  ELSE IF transport = "http" /\ env.port THEN "all" ELSE "loopback"

\* Mutant: the lists of denied tools do not apply to an allowlist.
AllowedAsListed(env, preset) ==
  LET deny == IF env.deny = "unset" THEN preset.deny ELSE env.denied
  IN  IF env.allow = {} THEN ProfileTools(IF env.profile = "unset" THEN preset.profile ELSE env.profile) \ deny ELSE env.allow

\* resolved_mcp_tool_names.
ResolvedTools(env, preset) ==
  LET deny == IF env.deny = "unset" THEN preset.deny ELSE env.denied
      eligible == IF env.allow = {} THEN ProfileTools(IF env.profile = "unset" THEN preset.profile ELSE env.profile) ELSE env.allow
  IN  eligible \ deny

\* apply_hosted_auth_env and HostedAuthConfig::validate. required is "unset",
\* "yes", "no" or "bad".
AuthAfterEnv(env) ==
  [mode |-> env.mode, required |-> env.required = "yes" \/ (env.mode # "off" /\ env.required = "unset")]
AuthValid(auth) == (auth.mode = "off") <=> ~auth.required

\* from_env and validate, for transport, host and authentication: the server
\* that starts, or none.
Started(presetName, env) ==
  LET preset == Preset(presetName)
      transport == IF env.transport = "unset" THEN preset.transport ELSE env.transport
      host == HostAfterFallback(transport, env)
      auth == AuthAfterEnv(env)
  IN  [ok |-> AuthValid(auth) /\ (transport = "http" /\ host # "loopback" => env.proxy),
       transport |-> transport, host |-> host, auth |-> auth, tools |-> ResolvedTools(env, preset)]

\* A server is reachable from outside only when the operator has said there is
\* a proxy that authenticates, or checks identities itself; and the tools a
\* preset denies are served only when the operator has given a list of denied
\* tools of his own, whatever he allows.
ExposedKnowingly(presetName, env) ==
  LET s == Started(presetName, env)
  IN  s.ok => /\ s.transport = "http" /\ s.host # "loopback" => env.proxy
              /\ s.auth.required <=> s.auth.mode # "off"
              /\ env.deny = "unset" => s.tools \cap Preset(presetName).deny = {}
              /\ s.tools \subseteq ToolKinds /\ (env.deny # "unset" => s.tools \cap env.denied = {})

-----------------------------------------------------------------------------
(* Fingerprints, which tell whether an index may be used again.            *)

\* canonical_prune_patterns.
CanonicalPatterns(patterns) == SelectSeq(SortSeq(patterns, <), LAMBDA p : p # 0)

\* Mutant: patterns as they are listed.
PatternsAsListed(allow, deny) == <<allow, deny>>

\* manifest_prune_fingerprint. Patterns are numbers, 0 a blank one.
PruneFingerprint(allow, deny) ==
  IF CanonicalPatterns(allow) = <<>> /\ CanonicalPatterns(deny) = <<>> THEN <<<<>>, <<>>>>
  ELSE <<CanonicalPatterns(allow), CanonicalPatterns(deny)>>

\* index_fingerprint_for_format: of the settings that shape the index only the
\* extended fields and the format are in it.
IndexFingerprint(fields, limits, format) ==
  IF format = "1" /\ fields = <<>> THEN <<"none", <<>>, 0>> ELSE <<format, SortSeq(fields, <), limits>>

\* The same selection of entities gives the same fingerprint however it is
\* written down, another selection another one; and an index of the legacy
\* format is never taken for one of this release.
FingerprintFollows(a, b) ==
  LET bag(s) == [p \in {1, 2} |-> Cardinality({i \in DOMAIN s : s[i] = p})]
      same == bag(a.allow) = bag(b.allow) /\ bag(a.deny) = bag(b.deny)
  IN  /\ (PruneFingerprint(a.allow, a.deny) = PruneFingerprint(b.allow, b.deny)) <=> same
      /\ IndexFingerprint(a.allow, 1, "1") # IndexFingerprint(b.allow, 1, "2")
      /\ (IndexFingerprint(a.allow, 1, "2") = IndexFingerprint(b.allow, 1, "2")) <=> (SortSeq(a.allow, <) = SortSeq(b.allow, <))
=============================================================================
