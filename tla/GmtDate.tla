------------------------------ MODULE GmtDate -------------------------------
(***************************************************************************)
(* The date helpers of mk_utils.c on the workers of one server.            *)
(*                                                                         *)
(* mk_utils_utime2gmt formats a unix time as RFC 1123 text.  It first looks *)
(* the time up in the worker's thread-local text cache                     *)
(* (mk_utils_gmt_cache_get); on a miss it composes the text from gmtime_r   *)
(* and stores it in the least-hit slot (mk_utils_gmt_cache_add).           *)
(* mk_utils_gmt2utime parses such text back with strptime and the RTEMS    *)
(* timegm.  That timegm switches the PROCESS-wide TZ variable to "" around *)
(* mktime and restores it from the pointer getenv returned: every worker   *)
(* shares it.                                                              *)
(*                                                                         *)
(* A text is the sequence of what the code writes: the weekday and month   *)
(* names of mk_date_wd / mk_date_ym and the digits.  gmtime_r, strptime    *)
(* and mktime are the C library's; they are given by their definitions    *)
(* (days from the civil date and back), mktime subtracting the offset of   *)
(* the TZ it finds.  The C library is newlib: setenv copies a value no     *)
(* longer than the old one over it in place, and unsetenv frees nothing,   *)
(* so a getenv pointer reads whatever its string holds now.                *)
(***************************************************************************)
EXTENDS Integers, Sequences, FiniteSets, FiniteSetsExt

CONSTANTS
  Workers,          \* the worker threads
  Dates,            \* the unix times the workers format (mtimes, the clock)
  MK_GMT_CACHES,    \* slots of each worker's GMT text cache
  InitTZ,           \* values TZ may have at startup: "unset" or a zone name
  MaxReq            \* dates formatted and parsed back per worker

ASSUME /\ Dates \subseteq Nat \ {0}
       /\ MK_GMT_CACHES \in Nat \ {0}
       /\ InitTZ \subseteq {"unset", "CET"}

\* A zone's string length (for setenv's in-place copy) and its UTC offset.
TZLen(v) == IF v = "" THEN 0 ELSE 3
Offset(v) == IF v = "CET" THEN 3600 ELSE 0

\* The NULL pointer getenv returns for an unset variable.
NULL == 0

VARIABLES
  gcache,   \* each worker's mk_tls_cache_gmtext: [time, hits, text] per slot
  store,    \* the TZ=... strings setenv has allocated, by address
  env,      \* the address environ holds for TZ, or NULL when unset
  pc,       \* each worker's place in the loop below
  date,     \* the time the worker formatted
  text,     \* the text mk_utils_utime2gmt gave it
  tm,       \* the struct tm strptime filled
  tz,       \* timegm's local tz: the pointer getenv returned
  result,   \* what mk_utils_gmt2utime returned, or -1
  nreq,     \* the dates each worker has formatted
  startTZ   \* TZ as the process started

vars == <<gcache, store, env, pc, date, text, tm, tz, result, nreq, startTZ>>

-----------------------------------------------------------------------------
(* The C library.                                                          *)

\* Days since 1970-01-01 of a proleptic Gregorian date (m in 1..12).
DaysFromCivil(y, m, d) ==
  LET yy  == IF m <= 2 THEN y - 1 ELSE y
      era == yy \div 400
      yoe == yy - era * 400
      doy == (153 * ((m + 9) % 12) + 2) \div 5 + d - 1
      doe == yoe * 365 + yoe \div 4 - yoe \div 100 + doy
  IN  era * 146097 + doe - 719468

\* gmtime_r: the broken-down UTC time of t (tm_mon from 0, tm_year from 1900).
GmTime(t) ==
  LET z   == t \div 86400 + 719468
      sod == t % 86400
      era == z \div 146097
      doe == z - era * 146097
      yoe == (doe - doe \div 1460 + doe \div 36524 - doe \div 146096) \div 365
      doy == doe - (365 * yoe + yoe \div 4 - yoe \div 100)
      mp  == (5 * doy + 2) \div 153
      m   == IF mp < 10 THEN mp + 3 ELSE mp - 9
  IN  [tm_year |-> yoe + era * 400 + (IF m <= 2 THEN 1 ELSE 0) - 1900,
       tm_mon  |-> m - 1,
       tm_mday |-> doy - (153 * mp + 2) \div 5 + 1,
       tm_hour |-> sod \div 3600,
       tm_min  |-> (sod % 3600) \div 60,
       tm_sec  |-> sod % 60,
       tm_wday |-> (t \div 86400 + 4) % 7]

\* mktime: the fields read as local time in zone v.
MkTime(f, v) ==
  DaysFromCivil(f.tm_year + 1900, f.tm_mon + 1, f.tm_mday) * 86400
    + f.tm_hour * 3600 + f.tm_min * 60 + f.tm_sec - Offset(v)

\* The value getenv("TZ") reads through a pointer, and TZ as mktime finds it.
Deref(p) == IF p = NULL THEN "unset" ELSE store[p]
TZ == Deref(env)

(* setenv("TZ", v, 1): a value no longer than the current one is copied  *)
(* over it in place; otherwise a new string is allocated.                 *)
SetEnv(v) ==
  IF env # NULL /\ TZLen(store[env]) >= TZLen(v)
  THEN /\ store' = [store EXCEPT ![env] = v]
       /\ env' = env
  ELSE /\ store' = Append(store, v)
       /\ env' = Len(store) + 1

-----------------------------------------------------------------------------
(* mk_utils.c.                                                             *)

mk_date_wd == <<"Sun", "Mon", "Tue", "Wed", "Thu", "Fri", "Sat">>
mk_date_ym == <<"Jan", "Feb", "Mar", "Apr", "May", "Jun", "Jul", "Aug", "Sep",
                "Oct", "Nov", "Dec">>

\* Mutant: the hundreds digit of the year without its % 10.
GmtTextNoMod(f) ==
  LET year == (f.tm_year + 1900) % 65536 IN
  << mk_date_wd[f.tm_wday + 1], f.tm_mday \div 10, f.tm_mday % 10,
     mk_date_ym[f.tm_mon + 1],
     (year \div 1000) % 10, year \div 100, (year \div 10) % 10, year % 10,
     f.tm_hour \div 10, f.tm_hour % 10, f.tm_min \div 10, f.tm_min % 10,
     f.tm_sec \div 10, f.tm_sec % 10 >>

(* The text mk_utils_utime2gmt composes from a struct tm: weekday, two     *)
(* digits of the day, month, four digits of the (unsigned short) year and  *)
(* two digits each of hour, minute and second; " GMT\r\n" is left out.    *)
GmtText(f) ==
  LET year == (f.tm_year + 1900) % 65536 IN
  << mk_date_wd[f.tm_wday + 1], f.tm_mday \div 10, f.tm_mday % 10,
     mk_date_ym[f.tm_mon + 1],
     (year \div 1000) % 10, (year \div 100) % 10, (year \div 10) % 10, year % 10,
     f.tm_hour \div 10, f.tm_hour % 10, f.tm_min \div 10, f.tm_min % 10,
     f.tm_sec \div 10, f.tm_sec % 10 >>

\* strptime(text, MK_UTILS_GMT_DATEFORMAT, &t_data) on such a text.
StrpTime(s) ==
  [tm_year |-> s[5] * 1000 + s[6] * 100 + s[7] * 10 + s[8] - 1900,
   tm_mon  |-> CHOOSE i \in 0..11 : mk_date_ym[i + 1] = s[4],
   tm_mday |-> s[2] * 10 + s[3],
   tm_hour |-> s[9] * 10 + s[10],
   tm_min  |-> s[11] * 10 + s[12],
   tm_sec  |-> s[13] * 10 + s[14],
   tm_wday |-> CHOOSE i \in 0..6 : mk_date_wd[i + 1] = s[1]]

\* mk_utils_gmt_cache_get: the first slot holding the time, or 0.
GmtCacheGet(c, t) ==
  IF \E i \in DOMAIN c : c[i].time = t
  THEN Min({i \in DOMAIN c : c[i].time = t}) ELSE 0

(* mk_utils_gmt_cache_add: the first slot with the fewest hits takes the   *)
(* time and its text, with one hit.                                        *)
GmtCacheAdd(c, s, t) ==
  LET min == Min({i \in DOMAIN c : \A j \in DOMAIN c : c[i].hits <= c[j].hits})
  IN  [c EXCEPT ![min] = [time |-> t, hits |-> 1, text |-> s]]

\* mk_cache_worker_init: slots zeroed by mk_mem_malloc_z.
EmptySlot == [time |-> 0, hits |-> 0, text |-> << >>]

NoResult == -2

Init ==
  /\ gcache = [w \in Workers |-> [i \in 1..MK_GMT_CACHES |-> EmptySlot]]
  /\ \E v \in InitTZ :
       /\ startTZ = v
       /\ store = IF v = "unset" THEN << >> ELSE <<v>>
       /\ env = IF v = "unset" THEN NULL ELSE 1
  /\ pc = [w \in Workers |-> "idle"]
  /\ date = [w \in Workers |-> 0]
  /\ text = [w \in Workers |-> << >>]
  /\ tm = [w \in Workers |-> GmTime(0)]
  /\ tz = [w \in Workers |-> NULL]
  /\ result = [w \in Workers |-> NoResult]
  /\ nreq = [w \in Workers |-> 0]

\* Mutant: a cache hit returns without copying the text into *data.
Utime2GmtNoCopy(w, d, now) ==
  LET t == IF d = 0 THEN now ELSE d
      c == gcache[w]
      i == IF d = 0 THEN 0 ELSE GmtCacheGet(c, d)
      s == IF i # 0 THEN text[w] ELSE GmtText(GmTime(t))
  IN  /\ pc[w] = "idle"
      /\ nreq[w] < MaxReq
      /\ nreq' = [nreq EXCEPT ![w] = @ + 1]
      /\ result' = [result EXCEPT ![w] = NoResult]
      /\ IF t = -1
         THEN UNCHANGED <<gcache, pc, date, text>>
         ELSE /\ gcache' = [gcache EXCEPT ![w] =
                              IF i # 0 THEN [c EXCEPT ![i].hits = @ + 1]
                              ELSE GmtCacheAdd(c, s, t)]
              /\ date' = [date EXCEPT ![w] = t]
              /\ text' = [text EXCEPT ![w] = s]
              /\ pc' = [pc EXCEPT ![w] = "getenv"]
      /\ UNCHANGED <<store, env, tm, tz, startTZ>>

(* mk_utils_utime2gmt(&data, d) on worker w: d = 0 formats the clock       *)
(* (time(NULL) = now, which may fail with -1) without looking at the       *)
(* cache; another d is looked up first, a hit copying the slot's text and  *)
(* counting the hit.  A miss composes the text from gmtime_r and adds it   *)
(* to the cache.  The worker then parses the text back (below).            *)
Utime2Gmt(w, d, now) ==
  LET t == IF d = 0 THEN now ELSE d
      c == gcache[w]
      i == IF d = 0 THEN 0 ELSE GmtCacheGet(c, d)
      s == IF i # 0 THEN c[i].text ELSE GmtText(GmTime(t))
  IN  /\ pc[w] = "idle"
      /\ nreq[w] < MaxReq
      /\ nreq' = [nreq EXCEPT ![w] = @ + 1]
      /\ result' = [result EXCEPT ![w] = NoResult]
      /\ IF t = -1
         THEN UNCHANGED <<gcache, pc, date, text>>
         ELSE /\ gcache' = [gcache EXCEPT ![w] =
                              IF i # 0 THEN [c EXCEPT ![i].hits = @ + 1]
                              ELSE GmtCacheAdd(c, s, t)]
              /\ date' = [date EXCEPT ![w] = t]
              /\ text' = [text EXCEPT ![w] = s]
              /\ pc' = [pc EXCEPT ![w] = "getenv"]
      /\ UNCHANGED <<store, env, tm, tz, startTZ>>

(* mk_utils_gmt2utime: strptime into t_data, then timegm's                *)
(* tz = getenv("TZ") (the pointer, not a copy).                            *)
GetEnv(w) ==
  /\ pc[w] = "getenv"
  /\ tm' = [tm EXCEPT ![w] = StrpTime(text[w])]
  /\ tz' = [tz EXCEPT ![w] = env]
  /\ pc' = [pc EXCEPT ![w] = "setenv"]
  /\ UNCHANGED <<gcache, store, env, date, text, result, nreq, startTZ>>

\* timegm: setenv("TZ", "", 1); tzset().
SetUTC(w) ==
  /\ pc[w] = "setenv"
  /\ SetEnv("")
  /\ pc' = [pc EXCEPT ![w] = "mktime"]
  /\ UNCHANGED <<gcache, date, text, tm, tz, result, nreq, startTZ>>

\* timegm: ret = mktime(tm), in the zone TZ names now.
MkTimeStep(w) ==
  /\ pc[w] = "mktime"
  /\ result' = [result EXCEPT ![w] = MkTime(tm[w], TZ)]
  /\ pc' = [pc EXCEPT ![w] = "restore"]
  /\ UNCHANGED <<gcache, store, env, date, text, tm, tz, nreq, startTZ>>

(* timegm: setenv("TZ", tz, 1) when getenv found it, else unsetenv("TZ"); *)
(* tzset(); and mk_utils_gmt2utime returns ret.                           *)
Restore(w) ==
  /\ pc[w] = "restore"
  /\ IF tz[w] # NULL
     THEN SetEnv(Deref(tz[w]))
     ELSE /\ env' = NULL
          /\ UNCHANGED store
  /\ pc' = [pc EXCEPT ![w] = "idle"]
  /\ UNCHANGED <<gcache, date, text, tm, tz, result, nreq, startTZ>>

Next ==
  \/ \E w \in Workers, d \in Dates \cup {0}, now \in Dates \cup {-1} :
       Utime2Gmt(w, d, now)
  \/ \E w \in Workers : GetEnv(w)
  \/ \E w \in Workers : SetUTC(w)
  \/ \E w \in Workers : MkTimeStep(w)
  \/ \E w \in Workers : Restore(w)

Spec == Init /\ [][Next]_vars

-----------------------------------------------------------------------------

\* A text: the names of the two tables in places 1 and 4, digits elsewhere.
IsText(s) ==
  \/ s = << >>
  \/ /\ DOMAIN s = 1..14
     /\ s[1] \in {mk_date_wd[i] : i \in 1..7}
     /\ s[4] \in {mk_date_ym[i] : i \in 1..12}
     /\ \A i \in (2..14) \ {4} : s[i] \in 0..9

TypeOK ==
  /\ DOMAIN gcache = Workers
  /\ \A w \in Workers :
       /\ DOMAIN gcache[w] = 1..MK_GMT_CACHES
       /\ \A i \in 1..MK_GMT_CACHES :
            /\ gcache[w][i].time \in Dates \cup {0}
            /\ gcache[w][i].hits \in 0..MaxReq
            /\ IsText(gcache[w][i].text)
       /\ IsText(text[w])
  /\ env \in 0..Len(store)
  /\ pc \in [Workers -> {"idle", "getenv", "setenv", "mktime", "restore"}]
  /\ date \in [Workers -> Dates \cup {0}]
  /\ tz \in [Workers -> 0..Len(store)]
  /\ nreq \in [Workers -> 0..MaxReq]

(* Spec 9 (round trip): the text mk_utils_utime2gmt gives for a time,      *)
(* parsed back by mk_utils_gmt2utime, is that time again, whether the text *)
(* came from the cache or was composed, and whatever the other workers'    *)
(* timegm calls do to the shared TZ meanwhile.  About the GMT cache's get  *)
(* and add, the text composition, and timegm's TZ switch.                  *)
ParsesBack ==
  \A w \in Workers : pc[w] = "idle" /\ result[w] # NoResult => result[w] = date[w]

(* timegm's own contract: TZ is left as it found it, so once no worker is  *)
(* inside timegm, getenv("TZ") is what the process started with (what      *)
(* localtime and the log clock use).  About the restore from the getenv    *)
(* pointer after setenv has written through it.                            *)
TZRestored == (\A w \in Workers : pc[w] = "idle") => TZ = startTZ

====
