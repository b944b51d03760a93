------------------------------ MODULE Profiles ------------------------------
(***************************************************************************)
(* The client profiles of profiles/: what a client of each browser or app   *)
(* says of itself in its ClientHello, and which HTTP/2 settings, flow, order *)
(* of pseudo headers and priorities it uses.                                *)
(*                                                                         *)
(* Numbers are IANA's.  Of an extension only its number is kept, except     *)
(* groups, point formats, key shares, versions and ALPN protocols.  The     *)
(* map of settings and settingsOrder always have the same keys, so they are *)
(* one sequence of pairs.  UtlsHello is a ClientHello utls has (external).  *)
(***************************************************************************)
EXTENDS Integers, Sequences, FiniteSets, Subsequences

LOCAL INSTANCE SequencesExt

GREASE == 2570      \* a random reserved value stands in its place
PSK == 41           \* pre_shared_key
Tls12Version == 771
Tls13Version == 772
MaxUint32 == -1     \* 2^32 - 1, which TLC's integers do not reach

\* Extensions that the checks below name.
Groups == 10
PointFormats == 11
SignatureAlgorithms == 13
ALPN == 16
Padding == 21
Versions == 43
PskModes == 45
KeyShare == 51

Hello(suites, exts, curves, shares, versions, alpn) ==
  [suites |-> suites, exts |-> exts, curves |-> curves, points |-> <<0>>,
   shares |-> shares, versions |-> versions, alpn |-> alpn]

UtlsHello(id) == [id |-> id]

\* NewClientProfile.
Profile(hello, settings, flow, pseudo, priorities, weight) ==
  [hello |-> hello, settings |-> settings, flow |-> flow, pseudo |-> pseudo,
   priorities |-> priorities, weight |-> weight]

\* http2.PriorityParam and http2.Priority; no exclusive one occurs.
Weight(dep, weight) == [dep |-> dep, weight |-> weight]
Priority(id, dep, weight) == [id |-> id, dep |-> dep, weight |-> weight]

NoTree == <<>>
NoWeight == Weight(0, -1)
ZeroWeight == Weight(0, 0)
IosWeight == Weight(0, 255)
FirefoxWeight == Weight(13, 41)

FirefoxTree ==
  <<Priority(3, 0, 200), Priority(5, 0, 100), Priority(7, 0, 0), Priority(9, 7, 0),
    Priority(11, 3, 0), Priority(13, 0, 240)>>

ChromeSuites == <<GREASE, 4865, 4866, 4867, 49195, 49199, 49196, 49200, 52393, 52392,
  49171, 49172, 156, 157, 47, 53>>
FirefoxSuites == <<4865, 4867, 4866, 49195, 49199, 52393, 52392, 49196, 49200, 49162,
  49161, 49171, 49172, 156, 157, 47, 53>>
SafariSuites == <<GREASE, 4865, 4866, 4867, 49196, 49195, 52393, 49200, 49199, 52392,
  49162, 49161, 49172, 49171, 157, 156, 53, 47, 49160, 49170, 10>>
IosAppSuites == <<GREASE, 4865, 4866, 4867, 49196, 49195, 52393, 49200, 49199, 52392,
  49162, 49161, 49172, 49171>>
Tls12AppSuites == <<49195, 49196, 52393, 49199, 49200, 52392, 49171, 49172, 156, 157,
  47, 53>>
AndroidAppSuites == <<4865, 4866, 4867, 49195, 49196, 52393, 49199, 49200, 52392,
  49171, 49172, 156, 157, 47, 53>>

IosExtensions == <<GREASE, 0, 23, 65281, 10, 11, 16, 5, 13, 18, 51, 45, 43, 27, GREASE,
  21>>
PskChromeExtensions == <<GREASE, 13, 65037, 65281, 18, 27, 16, 5, 10, 17513, 11, 51,
  35, 43, 45, 0, 23, GREASE, PSK>>
Firefox13xExtensions == <<0, 23, 65281, 10, 11, 16, 5, 34, 51, 43, 13, 28, 27, 65037>>
OkhttpExtensions == <<65281, 0, 23, 35, 13, 5, 16, 11, 10, 21>>

ChromeCurves == <<GREASE, 29, 23, 24>>
ChromePqCurves == <<GREASE, 4588, 29, 23, 24>>
IosCurves == <<GREASE, 29, 23, 24, 25>>
AndroidCurves == <<29, 23, 24>>
FirefoxCurves == <<29, 23, 24, 25, 256, 257>>
FirefoxPqCurves == <<4588, 29, 23, 24, 25, 256, 257>>

GreaseShare == <<GREASE, 29>>
GreasePqShares == <<GREASE, 4588, 29>>

Tls13 == <<Tls13Version, Tls12Version>>
GreaseTls13 == <<GREASE, Tls13Version, Tls12Version>>
GreaseTls10 == <<GREASE, Tls13Version, Tls12Version, 770, 769>>

H2 == <<"h2", "http/1.1">>
H3 == <<"h3", "h2", "http/1.1">>
H1 == <<"http/1.1">>

Chrome106Settings == <<<<1, 65536>>, <<2, 0>>, <<3, 1000>>, <<4, 6291456>>, <<6,
  262144>>>>
Chrome103Settings == <<<<1, 65536>>, <<3, 1000>>, <<4, 6291456>>, <<6, 262144>>>>
Chrome117Settings == <<<<1, 65536>>, <<2, 0>>, <<4, 6291456>>, <<6, 262144>>>>
FirefoxSettings == <<<<1, 65536>>, <<4, 131072>>, <<5, 16384>>>>
Firefox133Settings == <<<<1, 65536>>, <<2, 0>>, <<4, 131072>>, <<5, 16384>>>>
OkhttpSettings == <<<<4, 16777216>>>>
SafariSettings == <<<<4, 4194304>>, <<3, 100>>>>
IosSettings == <<<<4, 2097152>>, <<3, 100>>>>
IosAppSettings == <<<<1, 4096>>, <<2, 1>>, <<3, 100>>, <<4, 2097152>>, <<5, 16384>>,
  <<6, MaxUint32>>>>
IosShopSettings == <<<<1, 4096>>, <<3, 100>>, <<4, 2097152>>, <<5, 16384>>, <<6,
  MaxUint32>>>>
AndroidAppSettings == <<<<1, 4096>>, <<3, MaxUint32>>, <<4, 16777216>>, <<5, 16384>>,
  <<6, MaxUint32>>>>

\* What the profiles of a family share.
Chromium(hello, settings) == Profile(hello, settings, 15663105, "masp", NoTree, NoWeight)
OldFirefox(hello) ==
  Profile(hello, FirefoxSettings, 12517377, "mpas", FirefoxTree, FirefoxWeight)
NewFirefox(hello, settings) ==
  Profile(hello, settings, 12517377, "mpas", NoTree, NoWeight)
Apple(hello, settings) == Profile(hello, settings, 10485760, "mspa", NoTree, NoWeight)
Okhttp(hello) == Profile(hello, OkhttpSettings, 16711681, "mpas", NoTree, ZeroWeight)
IosApp(settings, pseudo) ==
  Profile(Hello(IosAppSuites, IosExtensions, IosCurves, GreaseShare, GreaseTls13, H2),
          settings, 15663105, pseudo, NoTree, NoWeight)

-----------------------------------------------------------------------------
\* internal_browser_profiles.go

Chrome_133_PSK ==
  Chromium(Hello(ChromeSuites, <<GREASE, 18, 0, 65037, 65281, 23, 5, 11, 35, 17613, 51,
    13, 10, 16, 43, 45, 27, GREASE, PSK>>, ChromePqCurves, GreasePqShares, GreaseTls13,
    H3), Chrome117Settings)

Chrome_133 ==
  Chromium(Hello(ChromeSuites, <<GREASE, 35, 13, 17613, 51, 18, 11, 43, 5, 16, 0,
    65037, 27, 10, 45, 23, 65281, GREASE>>, ChromePqCurves, GreasePqShares, GreaseTls13,
    H3), Chrome117Settings)

Chrome_117 ==
  Chromium(Hello(ChromeSuites, <<GREASE, 45, 0, 16, 13, 43, 17513, 10, 23, 35, 27, 18,
    5, 51, 65281, 11, GREASE, 21>>, ChromeCurves, GreaseShare, GreaseTls13, H2),
    Chrome117Settings)

Chrome_124 ==
  Chromium(Hello(ChromeSuites, <<GREASE, 27, 18, 23, 17513, 16, 43, 13, 11, 0, 35, 10,
    65037, 5, 65281, 45, 51, GREASE>>, <<GREASE, 25497, 29, 23, 24>>, <<GREASE, 25497,
    29>>, GreaseTls13, H2), Chrome117Settings)

Chrome_120 ==
  Chromium(Hello(ChromeSuites, <<GREASE, 0, 45, 43, 5, 23, 35, 13, 65281, 16, 65037,
    18, 51, 10, 11, 17513, 27, GREASE>>, ChromeCurves, GreaseShare, GreaseTls13, H2),
    Chrome117Settings)

Chrome_112 == Chromium(UtlsHello("HelloChrome_112"), Chrome106Settings)
Chrome_116_PSK == Chromium(UtlsHello("HelloChrome_112_PSK"), Chrome106Settings)
Chrome_116_PSK_PQ == Chromium(UtlsHello("HelloChrome_115_PQ_PSK"), Chrome106Settings)
Chrome_111 == Chromium(UtlsHello("HelloChrome_111"), Chrome106Settings)
Chrome_110 == Chromium(UtlsHello("HelloChrome_110"), Chrome106Settings)
Chrome_109 == Chromium(UtlsHello("HelloChrome_109"), Chrome106Settings)
Chrome_108 == Chromium(UtlsHello("HelloChrome_108"), Chrome106Settings)
Chrome_107 == Chromium(UtlsHello("HelloChrome_107"), Chrome106Settings)
Chrome_106 == Chromium(UtlsHello("HelloChrome_106"), Chrome106Settings)
Chrome_105 == Chromium(UtlsHello("HelloChrome_105"), Chrome103Settings)
Chrome_104 == Chromium(UtlsHello("HelloChrome_104"), Chrome103Settings)
Chrome_103 == Chromium(UtlsHello("HelloChrome_103"), Chrome103Settings)
Safari_15_6_1 == Apple(UtlsHello("HelloSafari_15_6_1"), SafariSettings)
Safari_16_0 == Apple(UtlsHello("HelloSafari_16_0"), SafariSettings)
Safari_Ipad_15_6 == Apple(UtlsHello("HelloIPad_15_6"), IosSettings)

Safari_IOS_17_0 ==
  Apple(Hello(SafariSuites, IosExtensions, IosCurves, GreaseShare, GreaseTls10, H2),
    <<<<2, 0>>, <<4, 2097152>>, <<3, 100>>>>)

Safari_IOS_18_5 ==
  Profile(Hello(SafariSuites, IosExtensions, IosCurves, GreaseShare, GreaseTls10, H2),
    <<<<2, 0>>, <<3, 100>>, <<4, 2097152>>, <<9, 1>>>>, 10420225, "msap", NoTree,
    IosWeight)

Safari_IOS_18_0 ==
  Profile(Hello(SafariSuites, IosExtensions, IosCurves, GreaseShare, GreaseTls10, H2),
    <<<<2, 0>>, <<3, 100>>, <<4, 2097152>>, <<8, 1>>, <<9, 1>>>>, 10420225, "msap",
    NoTree, NoWeight)

Safari_IOS_16_0 == Apple(UtlsHello("HelloIOS_16_0"), IosSettings)
Safari_IOS_15_5 == Apple(UtlsHello("HelloIOS_15_5"), IosSettings)
Safari_IOS_15_6 == Apple(UtlsHello("HelloIOS_15_6"), IosSettings)

Firefox_117 ==
  OldFirefox(Hello(FirefoxSuites, <<0, 23, 65281, 10, 11, 35, 16, 5, 34, 51, 43, 13,
    45, 28, 21>>, FirefoxCurves, <<29, 23>>, Tls13, H2))

Firefox_110 == OldFirefox(UtlsHello("HelloFirefox_110"))
Firefox_108 == OldFirefox(UtlsHello("HelloFirefox_108"))
Firefox_106 == OldFirefox(UtlsHello("HelloFirefox_106"))
Firefox_105 == OldFirefox(UtlsHello("HelloFirefox_105"))
Firefox_104 == OldFirefox(UtlsHello("HelloFirefox_104"))
Firefox_102 == OldFirefox(UtlsHello("HelloFirefox_102"))
Opera_90 == Chromium(UtlsHello("HelloOpera_90"), Chrome103Settings)
Opera_91 == Chromium(UtlsHello("HelloOpera_91"), Chrome103Settings)
Opera_89 == Chromium(UtlsHello("HelloOpera_89"), Chrome103Settings)

-----------------------------------------------------------------------------
\* contributed_browser_profiles.go

Firefox_135 ==
  NewFirefox(Hello(FirefoxSuites, <<0, 23, 65281, 10, 11, 16, 5, 34, 18, 51, 43, 13,
    28, 27, 65037>>, FirefoxPqCurves, <<4588, 29, 23>>, Tls13, H2), Firefox133Settings)

Firefox_133 ==
  NewFirefox(Hello(FirefoxSuites, Firefox13xExtensions, FirefoxPqCurves, <<4588, 29,
    23>>, Tls13, H2), Firefox133Settings)

\* Mutant: the key exchange modes forgotten.
MutChrome_130_PSK ==
  Chromium(Hello(ChromeSuites, <<GREASE, 13, 65037, 65281, 18, 27, 16, 5, 10, 17513, 11,
    51, 35, 43, 0, 23, GREASE, PSK>>, ChromeCurves, GreaseShare, GreaseTls13, H2),
    Chrome117Settings)

Chrome_130_PSK ==
  Chromium(Hello(ChromeSuites, PskChromeExtensions, ChromeCurves, GreaseShare,
    GreaseTls13, H2), Chrome117Settings)

Chrome_131_PSK ==
  Chromium(Hello(ChromeSuites, PskChromeExtensions, ChromePqCurves, GreasePqShares,
    GreaseTls13, H2), Chrome117Settings)

Chrome_131 ==
  Chromium(Hello(ChromeSuites, <<GREASE, 13, 65037, 65281, 18, 27, 16, 5, 10, 17513,
    11, 51, 35, 43, 45, 0, 23, GREASE>>, ChromePqCurves, GreasePqShares, GreaseTls13,
    H2), Chrome117Settings)

\* Mutant: a slip in a profile, two settings swapped.
MutFirefox_132 ==
  NewFirefox(Hello(FirefoxSuites, Firefox13xExtensions, FirefoxPqCurves, <<4588, 29,
    23>>, Tls13, H2), <<<<1, 65536>>, <<4, 131072>>, <<2, 0>>, <<5, 16384>>, <<9, 1>>>>)

Firefox_132 ==
  NewFirefox(Hello(FirefoxSuites, Firefox13xExtensions, FirefoxPqCurves, <<4588, 29,
    23>>, Tls13, H2), <<<<1, 65536>>, <<2, 0>>, <<4, 131072>>, <<5, 16384>>, <<9, 1>>>>)

Firefox_123 ==
  OldFirefox(Hello(FirefoxSuites, <<0, 23, 65281, 10, 11, 35, 16, 5, 34, 51, 43, 13,
    45, 28, 65037>>, FirefoxCurves, <<29, 23>>, Tls13, H2))

Firefox_120 ==
  OldFirefox(Hello(FirefoxSuites, <<0, 23, 65281, 10, 11, 16, 5, 34, 51, 43, 13, 28,
    65037>>, FirefoxCurves, <<29, 23>>, Tls13, H2))

-----------------------------------------------------------------------------
\* contributed_custom_profiles.go

Okhttp4Android10 ==
  Okhttp(Hello(AndroidAppSuites, <<0, 23, 65281, 10, 11, 35, 16, 5, 13, 51, 45, 43,
    21>>, AndroidCurves, <<29>>, Tls13, H2))

ZalandoAndroidMobile ==
  Profile(Hello(AndroidAppSuites, <<0, 23, 65281, 10, 11, 35, 16, 5, 13, 18, 51, 45,
    43, 21>>, AndroidCurves, <<29>>, Tls13, H2), AndroidAppSettings, 15663105, "mpas",
    NoTree, NoWeight)

ZalandoIosMobile == IosApp(IosShopSettings, "mpas")
NikeIosMobile == IosApp(IosShopSettings, "mspa")

NikeAndroidMobile ==
  Profile(Hello(AndroidAppSuites, <<0, 23, 65281, 10, 11, 35, 16, 5, 13, 51, 45, 43,
    21>>, AndroidCurves, GreaseShare, Tls13, H2), AndroidAppSettings, 15663105, "mpas",
    NoTree, NoWeight)

CloudflareCustom ==
  Profile([Hello(<<49171, 49172, 49161, 49162, 255>>, <<0, 11, 10, 35, 16, 22, 23,
    13>>, <<23>>, <<>>, <<>>, H1) EXCEPT !.points = <<0, 1, 2>>], AndroidAppSettings,
    15663105, "mpas", NoTree, NoWeight)

MMSIos ==
  Profile(Hello(<<4867, 4865, 4866, 52393, 52392, 49195, 49199, 49196, 49200, 49161,
    49171, 49162, 49172, 156, 157, 47, 53, 10>>, <<0, 23, 65281, 10, 11, 35, 13, 51, 45,
    43>>, AndroidCurves, <<29>>, Tls13, <<>>), IosAppSettings, 15663105, "mspa", NoTree,
    NoWeight)

MeshIos == IosApp(IosAppSettings, "mspa")

MeshAndroid ==
  Chromium(Hello(ChromeSuites, <<GREASE, 0, 23, 65281, 10, 11, 35, 16, 5, 13, 18, 51,
    45, 43, 27, 17513, GREASE, 21>>, ChromeCurves, GreaseShare, GreaseTls13, H2),
    Chrome103Settings)

MeshIos2 ==
  Chromium(Hello(<<GREASE, 4865, 4866, 4867, 49196, 49195, 52393, 49200, 49199, 52392,
    49188, 49187, 49162, 49161, 49192, 49191, 49172, 49171>>, IosExtensions, IosCurves,
    GreaseShare, GreaseTls13, H2), <<<<1, 4096>>, <<3, 100>>, <<4, 2097152>>>>)

MeshAndroid2 ==
  Chromium(Hello(<<49195, 49196, 52393, 49199, 49200, 52392, 49161, 49162, 49171,
    49172, 156, 157, 47, 53>>, <<65281, 0, 23, 35, 13, 5, 16, 11, 10>>, AndroidCurves,
    <<>>, <<>>, H1), Chrome103Settings)

ConfirmedIos == IosApp(IosAppSettings, "mspa")

ConfirmedAndroid ==
  Okhttp(Hello(Tls12AppSuites, <<65281, 0, 23, 35, 13, 5, 16, 11, 10>>, AndroidCurves,
    <<>>, <<>>, H2))

ConfirmedAndroid2 ==
  Profile(Hello(Tls12AppSuites, OkhttpExtensions, AndroidCurves, <<>>, <<>>, H2),
    OkhttpSettings, 16711681, "mpas", NoTree, NoWeight)

Okhttp4Android13 == Okhttp(Okhttp4Android10.hello)
Okhttp4Android12 == Okhttp(Okhttp4Android10.hello)
Okhttp4Android11 == Okhttp(Okhttp4Android10.hello)

Okhttp4Android9 ==
  Okhttp(Hello(Tls12AppSuites, OkhttpExtensions, AndroidCurves, <<>>, <<>>, H2))

Okhttp4Android8 ==
  Okhttp(Hello(Tls12AppSuites, OkhttpExtensions, AndroidCurves, <<>>, <<>>, H2))

Okhttp4Android7 ==
  Okhttp(Hello(Tls12AppSuites, <<65281, 0, 23, 35, 13, 16, 11, 10, 21>>, <<23, 24,
    25>>, <<>>, <<>>, H2))

-----------------------------------------------------------------------------
\* internal_custom_profiles.go

MMSIos2 ==
  Profile(Hello(<<4865, 4866, 4867, 49195, 49199, 49196, 49200, 52393, 52392, 49161,
    49171, 49162, 49172, 156, 157, 47, 53, 10>>, <<0, 23, 65281, 10, 11, 35, 13, 51, 45,
    43>>, AndroidCurves, <<29>>, Tls13, <<>>), IosAppSettings, 15663105, "mspa", NoTree,
    NoWeight)

MMSIos3 == IosApp(IosAppSettings, "mspa")

-----------------------------------------------------------------------------
\* The profiles whose ClientHello the repository spells out.
Inline ==
  {Chrome_133_PSK, Chrome_133, Chrome_117, Chrome_124, Chrome_120, Chrome_130_PSK,
   Chrome_131_PSK, Chrome_131, Safari_IOS_17_0, Safari_IOS_18_5, Safari_IOS_18_0,
   Firefox_117, Firefox_135, Firefox_133, Firefox_132, Firefox_123, Firefox_120,
   ZalandoAndroidMobile, ZalandoIosMobile, NikeIosMobile, NikeAndroidMobile,
   CloudflareCustom, MMSIos, MMSIos2, MMSIos3, MeshIos, MeshAndroid, MeshIos2,
   MeshAndroid2, ConfirmedIos, ConfirmedAndroid, ConfirmedAndroid2, Okhttp4Android13,
   Okhttp4Android12, Okhttp4Android11, Okhttp4Android10, Okhttp4Android9,
   Okhttp4Android8, Okhttp4Android7}

MappedTLSClients ==
  (Inline \ {ConfirmedAndroid2}) \cup
  {Chrome_103, Chrome_104, Chrome_105, Chrome_106, Chrome_107, Chrome_108, Chrome_109,
   Chrome_110, Chrome_111, Chrome_112, Chrome_116_PSK, Chrome_116_PSK_PQ, Safari_15_6_1,
   Safari_16_0, Safari_Ipad_15_6, Safari_IOS_15_5, Safari_IOS_15_6, Safari_IOS_16_0,
   Firefox_102, Firefox_104, Firefox_105, Firefox_106, Firefox_108, Firefox_110,
   Opera_89, Opera_90, Opera_91}

Lists(h, ext) == \E i \in DOMAIN h.exts : h.exts[i] = ext

\* The ClientHellos of utls that can resume a session (external).
UtlsPsk == {UtlsHello("HelloChrome_112_PSK"), UtlsHello("HelloChrome_115_PQ_PSK")}

SupportsSessionResumption(p) ==
  IF "id" \in DOMAIN p.hello THEN p.hello \in UtlsPsk ELSE Lists(p.hello, PSK)

-----------------------------------------------------------------------------
(***************************************************************************)
(* Fingerprints, as the tests write them: JA3 (suites, extensions, groups,  *)
(* point formats) and Akamai's of HTTP/2, which gives weights plus one.     *)
(***************************************************************************)
Without(s, x) == Subsequence(s, {j \in DOMAIN s : s[j] # x})
NoGrease(s) == Without(s, GREASE)

Ja3Of(h) == <<NoGrease(h.suites), NoGrease(h.exts), NoGrease(h.curves), h.points>>

AkamaiOf(p) ==
  <<p.settings, p.flow,
    [i \in DOMAIN p.priorities |->
       <<p.priorities[i].id, p.priorities[i].dep, p.priorities[i].weight + 1>>],
    p.pseudo>>

\* What the tests expect of p (tests/client_test_utils.go:84).  Padding is sent
\* only in a ClientHello of a certain length.
HasJa3(p, tested, suites, exts, curves) ==
  p \in tested =>
    Ja3Of([p.hello EXCEPT !.exts = Without(@, Padding)]) = <<suites, exts, curves, <<0>>>>

HasAkamai(p, tested, settings, flow, priorities, pseudo) ==
  p \in tested => AkamaiOf(p) = <<settings, flow, priorities, pseudo>>

TestedChrome(p) ==
  LET suites == <<4865, 4866, 4867, 49195, 49199, 49196, 49200, 52393, 52392, 49171,
                  49172, 156, 157, 47, 53>>
      Ja3(tested, exts, curves) == HasJa3(p, {tested}, suites, exts, curves)
  IN  /\ Ja3(Chrome_133, <<35, 13, 17613, 51, 18, 11, 43, 5, 16, 0, 65037, 27, 10, 45,
                           23, 65281>>, <<4588, 29, 23, 24>>)
      /\ Ja3(Chrome_131, <<13, 65037, 65281, 18, 27, 16, 5, 10, 17513, 11, 51, 35, 43,
                           45, 0, 23>>, <<4588, 29, 23, 24>>)
      /\ Ja3(Chrome_124, <<27, 18, 23, 17513, 16, 43, 13, 11, 0, 35, 10, 65037, 5,
                           65281, 45, 51>>, <<25497, 29, 23, 24>>)
      /\ Ja3(Chrome_120, <<0, 45, 43, 5, 23, 35, 13, 65281, 16, 65037, 18, 51, 10, 11,
                           17513, 27>>, <<29, 23, 24>>)
      /\ Ja3(Chrome_117, <<45, 0, 16, 13, 43, 17513, 10, 23, 35, 27, 18, 5, 51, 65281,
                           11>>, <<29, 23, 24>>)
      /\ HasAkamai(p, {Chrome_133, Chrome_131, Chrome_124, Chrome_120, Chrome_117},
           <<<<1, 65536>>, <<2, 0>>, <<4, 6291456>>, <<6, 262144>>>>, 15663105, <<>>, "masp")
      /\ HasAkamai(p, {Chrome_112, Chrome_116_PSK, Chrome_111, Chrome_110, Chrome_109,
                    Chrome_108, Chrome_107, Chrome_106},
           <<<<1, 65536>>, <<2, 0>>, <<3, 1000>>, <<4, 6291456>>, <<6, 262144>>>>,
           15663105, <<>>, "masp")
      /\ HasAkamai(p, {Chrome_105, Chrome_104, Chrome_103, Opera_89, Opera_90, Opera_91},
           <<<<1, 65536>>, <<3, 1000>>, <<4, 6291456>>, <<6, 262144>>>>,
           15663105, <<>>, "masp")

TestedFirefox(p) ==
  LET suites == <<4865, 4867, 4866, 49195, 49199, 52393, 52392, 49196, 49200, 49162,
                  49161, 49171, 49172, 156, 157, 47, 53>>
  IN  /\ HasJa3(p, {Firefox_117}, suites, <<0, 23, 65281, 10, 11, 35, 16, 5, 34, 51, 43, 13,
                                       45, 28>>, <<29, 23, 24, 25, 256, 257>>)
      /\ HasJa3(p, {Firefox_132}, suites, <<0, 23, 65281, 10, 11, 16, 5, 34, 51, 43, 13, 28,
                                       27, 65037>>, <<4588, 29, 23, 24, 25, 256, 257>>)
      /\ HasAkamai(p, {Firefox_117, Firefox_110, Firefox_108, Firefox_106, Firefox_105,
                    Firefox_104, Firefox_102},
           <<<<1, 65536>>, <<4, 131072>>, <<5, 16384>>>>, 12517377,
           <<<<3, 0, 201>>, <<5, 0, 101>>, <<7, 0, 1>>, <<9, 7, 1>>, <<11, 3, 1>>,
             <<13, 0, 241>>>>, "mpas")
      /\ HasAkamai(p, {Firefox_132}, <<<<1, 65536>>, <<2, 0>>, <<4, 131072>>, <<5, 16384>>,
                                    <<9, 1>>>>, 12517377, <<>>, "mpas")

\* The fingerprint of Safari_IOS_18_0 in the tests leaves the 8 of "8:1" out.
TestedSafari(p) ==
  /\ HasJa3(p, {Safari_IOS_17_0, Safari_IOS_18_0},
            <<4865, 4866, 4867, 49196, 49195, 52393, 49200, 49199, 52392, 49162,
                   49161, 49172, 49171, 157, 156, 53, 47, 49160, 49170, 10>>,
              <<0, 23, 65281, 10, 11, 16, 5, 13, 18, 51, 45, 43, 27>>, <<29, 23, 24, 25>>)
  /\ HasAkamai(p, {Safari_15_6_1, Safari_16_0}, <<<<4, 4194304>>, <<3, 100>>>>,
               10485760, <<>>, "mspa")
  /\ HasAkamai(p, {Safari_Ipad_15_6, Safari_IOS_16_0, Safari_IOS_15_5, Safari_IOS_15_6},
               <<<<4, 2097152>>, <<3, 100>>>>, 10485760, <<>>, "mspa")
  /\ HasAkamai(p, {Safari_IOS_17_0}, <<<<2, 0>>, <<4, 2097152>>, <<3, 100>>>>,
               10485760, <<>>, "mspa")
  /\ HasAkamai(p, {Safari_IOS_18_0}, <<<<2, 0>>, <<3, 100>>, <<4, 2097152>>, <<8, 1>>,
                                    <<9, 1>>>>, 10420225, <<>>, "msap")

TestedOkhttp(p) ==
  LET tls12 == <<49195, 49196, 52393, 49199, 49200, 52392, 49171, 49172, 156, 157, 47, 53>>
      ok13 == {Okhttp4Android13, Okhttp4Android12, Okhttp4Android11, Okhttp4Android10}
      ok9 == {Okhttp4Android9, Okhttp4Android8}
  IN  /\ HasJa3(p, ok13, <<4865, 4866, 4867>> \o tls12,
                  <<0, 23, 65281, 10, 11, 35, 16, 5, 13, 51, 45, 43>>, <<29, 23, 24>>)
      /\ HasJa3(p, ok9, tls12, <<65281, 0, 23, 35, 13, 5, 16, 11, 10>>, <<29, 23, 24>>)
      /\ HasJa3(p, {Okhttp4Android7}, tls12, <<65281, 0, 23, 35, 13, 16, 11, 10>>, <<23, 24, 25>>)
      /\ HasAkamai(p, ok13 \cup ok9 \cup {Okhttp4Android7}, <<<<4, 16777216>>>>, 16711681,
                   <<>>, "mpas")

Tested(p) == TestedChrome(p) /\ TestedFirefox(p) /\ TestedSafari(p) /\ TestedOkhttp(p)

Distinct(s) == \A i, j \in DOMAIN s : s[i] = s[j] => i = j

\* A ClientHello a TLS library sends repeats no extension, has pre_shared_key
\* last and with its key exchange modes, key shares only with TLS 1.3, and only
\* of groups it offers and in their order.  (GREASE is left out: the share of
\* NikeAndroidMobile has no GREASE group.)
HelloSound(h) ==
  LET shares == NoGrease(h.shares)
      place(g) == CHOOSE i \in DOMAIN h.curves : h.curves[i] = g
  IN  /\ Distinct(NoGrease(h.exts))
      /\ Lists(h, PSK) => h.exts[Len(h.exts)] = PSK /\ Lists(h, PskModes)
      /\ Lists(h, Groups) /\ Lists(h, SignatureAlgorithms)
      /\ Lists(h, ALPN) <=> h.alpn # <<>>
      /\ Contains(h.versions, Tls13Version) <=> Lists(h, KeyShare) /\ Lists(h, Versions)
      /\ Lists(h, KeyShare) => shares # <<>>
      /\ \A i \in DOMAIN shares : Contains(h.curves, shares[i])
      /\ \A i, j \in DOMAIN shares : i < j => place(shares[i]) < place(shares[j])

\* Settings and priorities that RFC 7540 allows: no setting twice or out of its
\* range, no dependency on a stream without a PRIORITY frame before it, and no
\* priorities together with NO_RFC7540_PRIORITIES.
SettingsSound(p) ==
  LET streams(n) == {0} \cup {p.priorities[i].id : i \in 1 .. n}
      value(id) == {p.settings[i][2] : i \in {j \in DOMAIN p.settings : p.settings[j][1] = id}}
  IN  /\ Distinct([i \in DOMAIN p.settings |-> p.settings[i][1]])
      /\ value(2) \subseteq {0, 1}
      /\ \A v \in value(4) : v >= 0
      /\ \A v \in value(5) : v \in 16384 .. 16777215
      /\ 1 \in value(9) => p.priorities = NoTree
      /\ \A i \in DOMAIN p.priorities : p.priorities[i].dep \in streams(i - 1)
      /\ p.weight.dep \in streams(Len(p.priorities))

=============================================================================
