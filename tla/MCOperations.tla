---------------------------- MODULE MCOperations ----------------------------
(* Model values for the TLC run of Operations. *)
EXTENDS Operations

CONSTANTS a1, o1

(* Origin lists and administrators differ only by name, so a1 is given o1; two
   commands that both skip CORS write no rule *)
SomeCommandLines ==
    {args \in [Admins -> [create : BOOLEAN, origins : Origins \cup {NoOrigins}]] :
       args[a1].origins = o1}

(* unique_buckets of settings with a raw and a derivative bucket *)
TwoBuckets == <<"derivative", "raw">>

Answer(provider, region, one_bucket, path_style, defer, key) ==
    [provider |-> provider, region |-> region, one_bucket |-> one_bucket,
     path_style |-> path_style, create |-> FALSE, cors |-> provider # "lightsail",
     defer |-> defer, key |-> key]

(* Sound answers and the ways to get them wrong, probed or deferred *)
SomeInputs ==
    UNION {{Answer("r2", "auto", TRUE, FALSE, defer, key),
            Answer("r2", "auto", TRUE, TRUE, defer, key),
            Answer("aws", "lower", FALSE, FALSE, defer, key),
            Answer("aws", "auto", TRUE, FALSE, defer, key),
            Answer("aws", "upper", TRUE, FALSE, defer, key),
            Answer("lightsail", "lower", TRUE, FALSE, defer, key),
            Answer("lightsail", "lower", FALSE, FALSE, defer, key),
            Answer("generic", "lower", FALSE, TRUE, defer, key),
            [Answer("lightsail", "lower", TRUE, FALSE, defer, key) EXCEPT !.create = TRUE]}
             : defer \in BOOLEAN, key \in Credentials}

TwoFiles == <<"g7mb-api", "g7mb-worker">>

SomePolicies == [disk : {5, 8, 9, 13}, image : {1}, video : {1, 3}, heavy : {1}, videos : {1}]

-----------------------------------------------------------------------------
Secret(n) == [inline |-> n, file |-> "none", text |-> 0]

Secrets(lengths) ==
    {Secret(n) : n \in lengths} \cup
    {[inline |-> i, file |-> f, text |-> 32] : i \in {0, 32}, f \in {"good", "bad"}}

(* The defaults of Settings::load, bytes scaled down *)
Working == [
    body |-> 1048576, rate |-> 50, burst |-> 100, in_flight |-> 64,
    key_id |-> 8, tenant |-> "identifier", hmac |-> Secret(32), skew |-> 300,
    provider |-> "r2", endpoint |-> "account", region |-> "auto", path_style |-> FALSE,
    bucket |-> "lower", one_bucket |-> FALSE, access_key |-> Secret(20), secret_key |-> Secret(40),
    batch_files |-> 10, batch_bytes |-> 6, image |-> 2, video |-> 5, threshold |-> 3,
    part_size |-> 2, active |-> 20, active_of |-> 15, reserved |-> 16, reserved_of |-> 8,
    jobs |-> 2, heavy |-> 1, videos |-> 1, threads |-> 2, image_timeout |-> 30,
    video_timeout |-> 45, heartbeat |-> 3, lease |-> 12, retry |-> 10, attempts |-> 3,
    output |-> 65536, temp_disk |-> 12, connections |-> 4, retention |-> 14,
    watermark |-> FALSE, pinned |-> TRUE, revision |-> 2, margin |-> 24, width |-> 20,
    opacity |-> 80, reservation_ttl |-> 86400, rejected |-> 604800, cleanup_lease |-> 300,
    cleanup_retry |-> 60, cleanup_batch |-> 100, cleanup_attempts |-> 10, grace |-> 172800,
    page |-> 1000, pages |-> 10, tombstone |-> 31536000, purge |-> 100,
    url_ttl |-> 300, manifest_ttl |-> 60, cache_bytes |-> 4194304, public |-> FALSE,
    same_bind |-> FALSE, public_secret |-> Secret(0), token_ttl |-> 300, public_rate |-> 100,
    public_burst |-> 200, public_in_flight |-> 128]

Ends(lo, hi) == {lo - 1, lo, hi, hi + 1}

(* The ends of every range, and the values at which settings bound each other *)
Edges == [
    rate |-> Ends(1, 10000), burst |-> {49, 50, 100000, 100001}, in_flight |-> Ends(1, 1024),
    tenant |-> {"empty", "phrase", "long"}, hmac |-> Secrets({31, 256, 257}), skew |-> {0, 900, 901},
    provider |-> {"aws-s3", "lightsail", "generic"}, endpoint |-> {"none", "https", "plain"},
    region |-> {"lower", "Capitals", "odd"}, path_style |-> {TRUE}, bucket |-> {"Capitals", "empty"},
    one_bucket |-> {TRUE}, batch_files |-> {0, 1, 15, 16, 100, 101}, batch_bytes |-> {0, 1, 8, 9},
    image |-> {0, 1, 3, 4, 20, 40}, video |-> {0, 4, 6, 7, 50}, active |-> {0, 14, 15},
    active_of |-> {0, 9, 10, 20, 21}, reserved |-> {0, 7, 8, 31, 32},
    reserved_of |-> {0, 5, 6, 16, 17}, jobs |-> {0, 1, 32, 33}, heavy |-> {0, 2, 3, 32, 33},
    videos |-> {0, 2, 3, 32, 33}, threads |-> Ends(1, 16), image_timeout |-> {0, 1},
    video_timeout |-> {0, 3, 4}, heartbeat |-> {0, 5, 6, 63}, lease |-> {0, 6, 7, 63},
    retry |-> {0}, attempts |-> {0}, output |-> Ends(1024, 1048576),
    temp_disk |-> {9, 10, 11, 40, 41}, watermark |-> {TRUE}, pinned |-> {FALSE},
    revision |-> Ends(1, 32), margin |-> {1024, 1025}, width |-> Ends(1, 50),
    opacity |-> Ends(1, 100), grace |-> Ends(3600, 2592000), page |-> Ends(1, 1000),
    pages |-> Ends(1, 100), tombstone |-> Ends(2592000, 315360000), purge |-> Ends(1, 1000),
    cleanup_lease |-> Ends(1, 3600), cleanup_retry |-> Ends(1, 86400),
    cleanup_batch |-> Ends(1, 100), url_ttl |-> {29, 30, 59, 60, 900, 901},
    manifest_ttl |-> {0, 1, 299, 300, 301}, cache_bytes |-> Ends(65536, 67108864),
    public |-> {TRUE}, same_bind |-> {TRUE}, public_secret |-> Secrets({31, 32, 256, 257}),
    token_ttl |-> Ends(30, 3600), public_rate |-> Ends(1, 10000),
    public_burst |-> {99, 100, 100000, 100001}]
=============================================================================
