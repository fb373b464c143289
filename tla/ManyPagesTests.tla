--------------------------- MODULE ManyPagesTests ----------------------------
(* Lab-7-Malloc/Gradescript-Examples/031.c - 040.c and 061.c - 100.c: the     *)
(* calls that main() of each makes, in order.  They ask for more than a page *)
(* at a time.  The notation is that of TestCalls.                            *)
EXTENDS TestCalls

Test031 == FlattenSeq(<<
    F(7,<<8923>>), P(5,12784,12792), P(16,12777,12792), P(15,12219,12232), F(8,<<8751>>),
    F(6,<<8262>>), F(2,<<8671>>), F(9,<<8567>>), F(11,<<8591>>), P(26,12043,12056), F(5,<<8389>>),
    F(12,<<8399>>), P(18,12453,12464), F(10,<<8466>>), F(4,<<8270>>), F(3,<<8498>>), F(13,<<8432>>),
    P(20,12300,12312), F(0,<<9157>>), P(27,12878,12888), P(21,12318,12328), P(8,12737,12752),
    P(13,12817,12832), F(1,<<8578>>), X(<<7>>), P(1,12765,12776), P(23,12751,12760), X(<<0,5>>),
    P(22,12407,12416), P(12,12534,12544), P(19,12960,12968), P(24,12420,12432), X(<<3>>),
    P(25,12893,12904), P(7,12890,12904), P(9,12105,12120), P(2,12315,12328), X(<<4,13,6,12,2>>),
    P(10,12138,12152), X(<<10,8>>), P(0,12505,12520), X(<<11>>), P(11,12954,12968), X(<<9>>),
    P(6,12164,12176), P(17,12529,12544), X(<<1>>), P(3,12475,12488), P(4,12988,13000),
    P(14,12866,12880), K(28,14,472432)>>)

Test032 == FlattenSeq(<<
    P(17,12945,12960), P(28,12505,12520), F(14,<<8340>>), F(8,<<9170>>), P(23,12815,12824),
    F(10,<<8348>>), P(16,12653,12664), F(12,<<8990>>), F(7,<<8701>>), P(26,12559,12568),
    F(6,<<9149>>), P(2,12319,12328), F(11,<<8727>>), P(18,12346,12360), P(22,12531,12544),
    P(20,12785,12800), P(10,12942,12952), F(13,<<8980>>), P(11,12290,12304), F(3,<<8324>>),
    P(15,12027,12040), F(2,<<8796>>), F(9,<<8409>>), F(0,<<9187>>), F(15,<<8207>>),
    P(29,12504,12512), F(5,<<9182>>), P(30,12236,12248), P(27,12679,12688), P(31,12807,12816),
    P(5,12488,12496), P(7,12987,13000), F(4,<<8206>>), F(1,<<8715>>), P(8,12438,12448),
    P(1,12430,12440), X(<<13,9,6>>), P(6,12129,12144), P(19,12321,12336), P(13,12961,12976),
    P(24,12296,12304), X(<<7,1>>), P(0,12357,12368), P(12,12330,12344), X(<<10,8,15,11,0>>),
    P(21,12142,12152), P(14,12678,12688), X(<<2,4,3,14>>), P(3,12283,12296), P(9,12266,12280),
    X(<<5,12>>), P(4,12097,12112), P(25,12734,12744), K(32,16,539872)>>)

Test033 == FlattenSeq(<<
    F(11,<<8722>>), P(9,12426,12440), P(26,12428,12440), P(6,12741,12752), F(13,<<8803>>),
    P(21,12967,12976), P(20,12621,12632), F(2,<<8365>>), F(1,<<8218>>), P(25,12222,12232),
    P(17,12362,12376), P(18,12886,12896), F(15,<<8889>>), P(7,12731,12744), P(16,12530,12544),
    F(6,<<9077>>), F(3,<<8806>>), F(8,<<9134>>), F(10,<<8812>>), F(9,<<8279>>), F(7,<<9087>>),
    P(0,12210,12224), F(0,<<9152>>), F(14,<<8829>>), P(19,12033,12048), P(27,12479,12488),
    P(28,12046,12056), P(29,12920,12928), P(31,12488,12496), P(24,12821,12832), F(5,<<8989>>),
    P(1,12742,12752), F(12,<<9099>>), F(4,<<8818>>), P(15,12836,12848), P(14,12843,12856),
    P(8,12138,12152), X(<<0,5,15,4>>), P(12,12127,12136), P(11,12627,12640), P(13,12754,12768),
    X(<<12,14>>), P(2,12676,12688), X(<<9>>), P(10,12747,12760), P(3,12740,12752),
    P(23,12880,12888), X(<<2>>), P(4,12853,12864), X(<<13,6>>), P(5,12545,12560), P(30,12385,12400),
    X(<<1,7,10>>), P(22,12656,12664), X(<<3,11,8>>), K(32,16,544096)>>)

Test034 == FlattenSeq(<<
    F(13,<<8525>>), P(20,12106,12120), P(11,12963,12976), F(14,<<8556>>), F(10,<<8531>>),
    P(18,12779,12792), P(0,12710,12720), F(8,<<8869>>), F(1,<<8760>>), F(6,<<8299>>),
    P(2,12680,12688), P(10,12551,12560), P(9,12587,12600), P(16,12406,12416), P(34,12612,12624),
    F(3,<<8198>>), P(5,12249,12264), F(0,<<8433>>), P(17,12778,12792), F(15,<<9158>>),
    F(7,<<8262>>), P(30,12181,12192), P(14,12007,12016), P(19,12394,12408), F(9,<<8267>>),
    F(16,<<8984>>), P(23,12944,12952), F(17,<<8772>>), P(25,12063,12072), F(12,<<8412>>),
    P(24,12697,12712), P(21,12791,12800), F(2,<<8756>>), P(1,12407,12416), F(4,<<8722,8283>>),
    F(11,<<8376>>), P(27,12280,12288), X(<<1>>), P(31,12168,12176), P(29,12985,13000), X(<<16>>),
    P(33,12951,12960), X(<<2>>), P(22,12780,12792), X(<<0,6,11>>), P(3,12548,12560),
    P(6,12706,12720), P(12,12275,12288), P(8,12487,12496), P(15,12644,12656), P(32,12276,12288),
    P(4,12962,12976), X(<<3>>), P(35,12389,12400), P(13,12546,12560), X(<<8,9>>), P(28,12234,12248),
    X(<<7,5,17,4,10,13>>), P(7,12828,12840), X(<<12>>), P(26,12296,12304), X(<<15,14>>),
    K(36,18,606040)>>)

Test035 == FlattenSeq(<<
    F(13,<<8918>>), F(10,<<8910>>), F(4,<<8656>>), P(5,12658,12672), P(13,12483,12496),
    P(15,12909,12920), F(1,<<9021>>), F(8,<<8380>>), F(7,<<8599>>), F(14,<<8942>>),
    P(10,12160,12168), P(19,12467,12480), P(21,12792,12800), P(30,12774,12784), P(2,12689,12704),
    F(5,<<8760>>), P(24,12450,12464), P(16,12159,12168), F(6,<<8807>>), F(0,<<8749>>),
    F(9,<<8835>>), P(3,12813,12824), P(7,12317,12328), F(3,<<8254>>), F(2,<<8366>>),
    P(17,12611,12624), F(11,<<8705>>), F(15,<<8993>>), P(1,12384,12392), F(12,<<8720>>),
    P(4,12827,12840), P(9,12260,12272), X(<<12,4>>), P(28,12315,12328), P(0,12415,12424),
    P(27,12529,12544), X(<<8>>), P(23,12073,12088), X(<<1,7>>), P(31,12177,12192), X(<<10,14>>),
    P(26,12681,12696), X(<<11>>), P(29,12818,12832), P(12,12868,12880), X(<<0,5>>),
    P(11,12636,12648), P(6,12635,12648), X(<<13,2,6>>), P(20,12779,12792), X(<<9>>),
    P(25,12744,12752), P(14,12984,12992), P(8,12888,12896), X(<<3>>), P(18,12212,12224), X(<<15>>),
    P(22,12029,12040), K(32,16,541696)>>)

Test036 == FlattenSeq(<<
    P(19,12179,12192), F(4,<<8268>>), P(25,12232,12240), P(11,12325,12336), F(10,<<8726>>),
    P(7,12413,12424), P(13,12628,12640), P(24,12975,12984), F(8,<<8696>>), F(1,<<9172,8583>>),
    F(7,<<8337>>), P(15,12718,12728), P(23,12138,12152), F(15,<<9027>>), F(9,<<8353>>),
    F(11,<<8700>>), P(3,12622,12632), F(0,<<9066>>), F(3,<<8384>>), P(16,12684,12696),
    P(6,12599,12608), P(0,12916,12928), F(12,<<8477,8741>>), F(6,<<8735>>), F(5,<<8567>>),
    F(14,<<8431>>), P(4,12935,12944), P(5,12363,12376), P(1,12696,12704), P(21,12617,12632),
    P(17,12028,12040), X(<<9,3>>), P(26,12550,12560), X(<<13>>), P(30,12571,12584), X(<<6>>),
    P(10,12317,12328), P(22,12154,12168), X(<<0>>), P(27,12329,12344), P(14,12149,12160),
    P(20,12263,12272), P(2,12694,12704), P(9,12420,12432), P(31,12506,12520), P(12,12017,12032),
    X(<<2>>), P(29,12882,12896), P(18,12104,12112), X(<<12,15,4,1>>), P(28,12504,12512),
    X(<<7,10,8,5,11>>), P(8,12236,12248), X(<<14>>), K(32,16,537568)>>)

Test037 == FlattenSeq(<<
    F(1,<<8362>>), F(12,<<8854>>), P(10,12121,12136), P(0,12768,12776), P(8,12937,12952),
    F(2,<<9086>>), F(6,<<8237>>), P(24,12851,12864), F(11,<<8754>>), F(7,<<8968>>),
    P(3,12078,12088), P(2,12050,12064), F(9,<<8837>>), F(3,<<8440>>), P(33,12833,12848),
    F(17,<<8998>>), F(4,<<8764>>), P(34,12206,12216), P(22,12278,12288), P(13,12420,12432),
    P(28,12044,12056), P(25,12073,12088), F(16,<<8978>>), F(14,<<8878>>), P(16,12560,12568),
    F(0,<<8251>>), F(10,<<8565>>), P(4,12692,12704), F(13,<<9047>>), F(5,<<8653>>),
    P(15,12526,12536), P(14,12961,12976), P(26,12418,12432), P(1,12009,12024), P(11,12661,12672),
    F(8,<<8639>>), F(15,<<8776>>), P(32,12190,12200), X(<<16,1,8>>), P(20,12100,12112), X(<<6,11>>),
    P(17,12444,12456), X(<<10,9,15>>), P(27,12130,12144), X(<<0,7,14>>), P(18,12645,12656),
    X(<<13>>), P(12,12813,12824), X(<<5>>), P(31,12186,12200), X(<<4>>), P(21,12441,12456),
    P(23,12202,12216), P(5,12419,12432), X(<<3>>), P(6,12212,12224), P(29,12299,12312),
    P(9,12581,12592), P(7,12158,12168), P(35,12959,12968), X(<<2>>), P(19,12540,12552),
    X(<<17,12>>), P(30,12367,12376), K(36,18,604888)>>)

Test038 == FlattenSeq(<<
    P(3,12887,12896), P(9,12741,12752), F(5,<<8820>>), P(8,12285,12296), P(21,12266,12280),
    F(6,<<8310>>), P(14,12126,12136), F(15,<<8195>>), F(13,<<8766>>), F(2,<<8654>>), F(0,<<8456>>),
    P(5,12124,12136), P(4,12800,12808), F(10,<<8309>>), F(3,<<9074>>), P(26,12287,12296),
    P(16,12437,12448), F(14,<<9047>>), P(13,12565,12576), F(9,<<8803>>), F(17,<<8980>>),
    F(4,<<8200>>), F(16,<<8375>>), P(6,12176,12184), P(1,12673,12688), P(35,12176,12184),
    P(30,12164,12176), P(20,12936,12944), F(7,<<8218>>), P(23,12267,12280), F(12,<<8891>>),
    F(8,<<9155>>), P(32,12155,12168), F(1,<<8425>>), F(11,<<8525>>), P(10,12926,12936),
    P(25,12913,12928), X(<<16,14,1>>), P(15,12335,12344), X(<<0>>), P(33,12642,12656), X(<<13>>),
    P(7,12902,12912), P(28,12585,12600), P(18,12537,12552), P(2,12055,12064), P(27,12930,12944),
    P(17,12861,12872), P(34,12266,12280), X(<<12>>), P(0,12621,12632), P(12,12962,12976), X(<<7>>),
    P(19,12252,12264), X(<<15>>), P(11,12998,13008), P(31,12515,12528), X(<<8,11,5,3,4>>),
    P(22,12403,12416), X(<<10>>), P(29,12715,12728), X(<<6,9,17,2>>), P(24,12728,12736),
    K(36,18,607032)>>)

Test039 == FlattenSeq(<<
    F(6,<<8972>>), F(2,<<8523,8859>>), F(9,<<8975>>), F(4,<<8347>>), P(4,12909,12920),
    F(0,<<8613>>), P(2,12059,12072), F(7,<<8983>>), P(11,12334,12344), P(9,12902,12912),
    F(8,<<8663>>), P(8,12986,13000), P(7,12999,13008), P(16,12313,12328), F(5,<<8713>>),
    P(1,12986,13000), F(1,<<8959>>), P(13,12357,12368), X(<<5>>), P(0,12473,12488),
    P(18,12430,12440), X(<<6,2,9>>), P(5,12828,12840), X(<<4>>), P(19,12613,12624),
    P(15,12143,12152), X(<<8>>), P(17,12277,12288), X(<<1>>), P(12,12758,12768), X(<<3>>),
    P(3,12695,12704), P(14,12290,12304), X(<<7>>), P(10,12730,12744), P(6,12141,12152), X(<<0>>),
    K(20,10,339176)>>)

Test040 == FlattenSeq(<<
    F(4,<<8864>>), P(5,12533,12544), P(4,12665,12680), F(6,<<8388>>), P(7,12743,12752),
    F(0,<<8449>>), F(8,<<8980,8478>>), F(5,<<8527>>), P(0,12974,12984), P(8,12686,12696),
    F(2,<<8588>>), P(9,12062,12072), P(1,12650,12664), F(3,<<8854>>), P(16,12190,12200),
    P(10,12535,12544), F(1,<<8582>>), F(7,<<8505>>), P(18,12970,12984), P(6,12105,12120),
    P(11,12671,12680), X(<<6,0,4>>), P(19,12973,12984), X(<<8>>), P(13,12150,12160), X(<<1>>),
    P(2,12064,12072), X(<<5>>), P(14,12103,12112), P(3,12152,12160), P(12,12555,12568), X(<<9>>),
    P(17,12694,12704), P(15,12600,12608), X(<<2,7,3>>), K(20,10,336616)>>)

Test061 == FlattenSeq(<<
    F(75,<<2668,2472,2223>>), F(72,<<2605,2452,2166>>), F(54,<<2444,2519,2198>>),
    F(81,<<2050,2145,2159>>), P(14,12458,12472), F(0,<<2496,2259,2051>>), P(26,12531,12544),
    P(5,12300,12312), F(18,<<2690,2240,2380,2287,2062,2588>>), P(18,12126,12136),
    F(48,<<2625,2458,2099>>), F(39,<<2616,2492,2394>>), F(24,<<2683,2080,2363>>),
    F(63,<<2166,2567,2466>>), F(84,<<2147,2480,2188>>), P(19,12509,12520), F(60,<<2182,2099,2082>>),
    F(33,<<2221,2305,2087>>), P(20,12261,12272), P(25,12506,12520), P(28,12909,12920),
    P(12,12646,12656), F(42,<<2345,2554,2377>>), F(12,<<2330,2654,2642>>), P(10,12530,12544),
    F(36,<<2488,2501,2430>>), F(78,<<2282,2295,2398>>), P(29,12108,12120), F(57,<<2326,2425,2209>>),
    F(27,<<2465,2428,2391>>), F(6,<<2064,2104,2221>>), F(51,<<2530,2388,2660>>),
    F(15,<<2678,2133,2332>>), F(9,<<2545,2293,2377>>), P(6,12597,12608), F(30,<<2170,2646,2213>>),
    P(1,12090,12104), P(9,12854,12864), P(16,12817,12832), F(3,<<2647,2374,2111>>),
    F(45,<<2337,2589,2685>>), F(66,<<2632,2525,2666,2262,2500,2480>>), F(87,<<2224,2537,2056>>),
    X(<<54,61,14,71,30,65,24,87,7,4,66,0,67,26,5,64,9,6,28>>), P(23,12283,12296), X(<<55,47,19,79,
    31,77,46,35,56,57,21,10,84,62,78>>), P(3,12047,12056), P(4,12709,12720), X(<<11,13>>),
    P(17,12429,12440), X(<<23,41,45,32,39,85,36,80,18,40,50,25,8,38,58,70,1,34,72>>),
    P(8,12498,12512), X(<<22,53,20>>), P(21,12466,12480), X(<<52>>), P(11,12006,12016),
    X(<<86,15>>), P(27,12683,12696), X(<<27,48,74,81,75,83,59,16,76,82,88,49,73,2,12,89,42>>),
    P(7,12719,12728), X(<<37,51>>), P(22,12047,12056), X(<<63,17,43,29,69>>), P(15,12151,12160),
    X(<<33>>), P(13,12117,12128), X(<<60,68,44>>), P(2,12219,12232), X(<<3>>), P(24,12428,12440),
    P(0,12713,12728), C, K(30,10,618872)>>)

Test062 == FlattenSeq(<<
    F(60,<<2072,2405,2222,2659,2602,2247>>), P(18,12018,12032), F(87,<<2264,2486,2068>>),
    P(13,12910,12920), P(19,12869,12880), P(20,12745,12760), F(12,<<2296,2577,2440>>),
    F(57,<<2398,2692,2598>>), P(21,12643,12656), F(42,<<2671,2267,2558>>), F(36,<<2609,2237,2550>>),
    P(15,12960,12968), F(9,<<2579,2202,2265>>), P(11,12695,12704),
    F(24,<<2536,2655,2512,2147,2636,2655>>), F(21,<<2171,2381,2496>>), F(15,<<2657,2078,2448>>),
    F(39,<<2538,2319,2546>>), F(84,<<2625,2184,2052>>), P(23,12348,12360), F(81,<<2340,2469,2377>>),
    F(69,<<2405,2363,2067>>), F(66,<<2128,2258,2542>>), F(75,<<2437,2688,2301>>),
    F(51,<<2312,2590,2254>>), P(12,12443,12456), F(33,<<2289,2153,2383>>), F(3,<<2048,2227,2636>>),
    F(48,<<2510,2597,2578>>), F(45,<<2379,2577,2305>>), P(1,12754,12768), P(29,12172,12184),
    F(78,<<2120,2052,2113>>), F(30,<<2587,2123,2107>>), F(6,<<2271,2216,2189>>),
    F(72,<<2664,2077,2259>>), F(18,<<2284,2203,2119>>), F(0,<<2093,2088,2668>>),
    F(54,<<2664,2342,2492>>), P(25,12994,13008), P(16,12694,12704), P(2,12224,12232),
    P(5,12005,12016), X(<<12,45,57,82,85,27,20,7,43,72,56,15,5>>), P(22,12172,12184),
    P(3,12504,12512), X(<<60>>), P(9,12014,12024), X(<<76>>), P(4,12817,12832), X(<<23,22,3,80,62,
    40,84>>), P(28,12450,12464), X(<<71>>), P(7,12463,12472), X(<<75,17,79,66,78,44,53,54,32,16,31,
    87,18,26,77,39,9,14>>), P(0,12566,12576), X(<<70,63,6,4,58,64,67,24,29,36>>), P(10,12335,12344),
    X(<<37,74,47,51,0,1,38,35>>), P(17,12846,12856), X(<<89,46,11,13>>), P(14,12623,12632),
    X(<<65,41,42,61>>), P(27,12483,12496), X(<<49,55,59>>), P(8,12198,12208), X(<<2,30,50>>),
    P(24,12305,12320), X(<<8,28,25,88,19,52,48,21>>), P(26,12400,12408), X(<<73>>),
    P(6,12561,12576), X(<<86,83,33,81,68,34,69,10>>), C, K(30,9,621312)>>)

Test063 == FlattenSeq(<<
    P(17,12679,12688), F(30,<<2380,2548,2295>>), F(84,<<2245,2431,2498>>), F(81,<<2468,2164,2215>>),
    F(51,<<2347,2093,2108>>), F(3,<<2580,2387,2067>>), F(48,<<2226,2235,2607>>), P(8,12247,12256),
    F(66,<<2375,2297,2164>>), F(42,<<2340,2267,2568>>), F(75,<<2471,2460,2283>>),
    F(15,<<2617,2683,2689>>), P(6,12138,12152), F(12,<<2422,2685,2663>>), P(7,12304,12312),
    F(27,<<2399,2534,2693>>), F(36,<<2364,2141,2393>>), F(69,<<2086,2542,2410>>),
    F(45,<<2556,2194,2318>>), F(39,<<2624,2197,2173>>), P(0,12919,12928), F(9,<<2669,2688,2076>>),
    F(54,<<2637,2427,2460>>), F(21,<<2368,2311,2079>>), F(72,<<2626,2446,2152>>), P(5,12766,12776),
    F(78,<<2215,2194,2474>>), F(87,<<2383,2095,2551>>), F(57,<<2571,2075,2548>>),
    F(63,<<2673,2458,2221>>), P(13,12847,12856), P(3,12769,12784), F(60,<<2366,2507,2286>>),
    F(33,<<2500,2324,2073>>), P(14,12600,12608), P(12,12388,12400), P(28,12179,12192),
    P(1,12731,12744), F(0,<<2397,2599,2438>>), F(90,<<2201,2108,2546>>), P(4,12682,12696),
    F(24,<<2506,2159,2329>>), F(6,<<2441,2130,2099>>), P(30,12438,12448), P(23,12477,12488),
    P(2,12233,12248), F(18,<<2126,2244,2683>>), P(15,12577,12592), X(<<92,12,67,40,36,56,10>>),
    P(16,12447,12456), X(<<19,60,43,27,38,6,31,4,41,18,63,87>>), P(29,12005,12016), X(<<75,16,34,46,
    47,53,32,84,66,91,13,9,89,45,72,78,88,11,3,20,49,69,73>>), P(10,12944,12952), P(26,12137,12152),
    X(<<74,57,7,68,82,50>>), P(24,12706,12720), X(<<30,90,51,24,76,15,48,85,21,42,26,54>>),
    P(21,12292,12304), X(<<1,35,81,77,2,44,0,86,55,37,39,71,79,83,62,29>>), P(20,12066,12080),
    X(<<58,8>>), P(11,12368,12376), X(<<70>>), P(18,12451,12464), X(<<59,5>>), P(19,12942,12952),
    X(<<22>>), P(22,12421,12432), X(<<28>>), P(25,12675,12688), X(<<25,17>>), P(9,12335,12344),
    P(27,12084,12096), X(<<64,33,65,52,14,23,61,80>>), C, K(31,10,641152)>>)

Test064 == FlattenSeq(<<
    F(57,<<2441,2566,2218>>), F(42,<<2199,2604,2283>>), F(3,<<2115,2413,2264>>),
    F(30,<<2571,2495,2380>>), F(15,<<2376,2227,2545>>), P(23,12541,12552), F(21,<<2136,2393,2544>>),
    P(17,12095,12104), P(9,12496,12504), F(9,<<2413,2502,2486>>), P(14,12764,12776),
    F(27,<<2343,2300,2106>>), P(8,12948,12960), P(25,12164,12176), P(10,12100,12112),
    P(21,12116,12128), F(36,<<2517,2266,2072>>), F(75,<<2520,2424,2398>>), F(63,<<2381,2377,2369>>),
    F(18,<<2316,2557,2082>>), P(3,12577,12592), F(48,<<2499,2692,2430>>), F(45,<<2587,2539,2110>>),
    F(51,<<2459,2627,2270>>), P(11,12704,12712), F(24,<<2105,2410,2137>>), F(54,<<2557,2383,2575>>),
    F(6,<<2637,2158,2492>>), F(78,<<2657,2390,2455>>), P(4,12439,12448), F(66,<<2478,2396,2185>>),
    P(1,12044,12056), F(12,<<2563,2417,2382>>), F(0,<<2483,2417,2118>>), P(12,12536,12544),
    F(72,<<2423,2517,2079>>), F(60,<<2251,2138,2634>>), F(33,<<2390,2560,2417>>), P(13,12991,13000),
    F(39,<<2208,2139,2242>>), F(69,<<2412,2380,2624>>), X(<<53,42,35,63,80,8,39,78>>),
    P(16,12971,12984), X(<<7,74,68,25>>), P(22,12545,12560), X(<<21,5>>), P(26,12653,12664), X(<<41,
    49,30,38,56,3,71,13,40,19,17>>), P(6,12103,12112), X(<<29,33,47>>), P(15,12385,12400),
    P(24,12582,12592), X(<<45,60,37,46,24,61>>), P(5,12470,12480), X(<<20,34,11,77,43,28,59,32,76,
    50,73,22>>), P(20,12903,12912), X(<<79,54,6,66>>), P(19,12655,12664), P(18,12344,12352), X(<<2,
    44,9,72,16,75,12,70,48,18>>), P(7,12049,12064), X(<<1,27,58,31,10,15,55,26,69,36,51,65,23,64>>),
    P(0,12771,12784), X(<<14,57>>), P(2,12237,12248), X(<<4,52,0,67,62>>), C, K(27,11,558664)>>)

Test065 == FlattenSeq(<<
    F(42,<<2266,2483,2530>>), F(18,<<2634,2451,2539>>), F(57,<<2148,2475,2445>>),
    F(36,<<2605,2371,2197>>), F(63,<<2230,2556,2194>>), P(5,12175,12184), P(3,12386,12400),
    F(24,<<2382,2594,2556>>), F(12,<<2689,2603,2117>>), F(45,<<2243,2199,2470>>),
    F(15,<<2674,2195,2697>>), P(17,12512,12520), F(75,<<2222,2409,2219>>), F(6,<<2697,2227,2447>>),
    P(6,12067,12080), F(30,<<2297,2391,2412>>), P(8,12296,12304), P(4,12547,12560),
    F(51,<<2204,2166,2185>>), F(3,<<2187,2105,2313>>), P(22,12670,12680),
    F(66,<<2373,2599,2402,2132,2185,2268>>), F(78,<<2302,2329,2261>>), P(9,12656,12664),
    F(33,<<2282,2686,2566>>), F(9,<<2126,2060,2345>>), P(1,12356,12368), F(48,<<2492,2191,2332>>),
    P(25,12004,12016), F(39,<<2627,2577,2656>>), F(0,<<2181,2356,2534>>), P(12,12333,12344),
    F(72,<<2332,2315,2069>>), P(26,12522,12536), F(27,<<2362,2120,2352>>), P(2,12594,12608),
    F(60,<<2432,2636,2074>>), F(21,<<2357,2614,2314>>), F(54,<<2448,2635,2075>>), X(<<47,0,73,78>>),
    P(21,12941,12952), X(<<20,35,56,46,1,27,6,33,52,70>>), P(13,12784,12792), X(<<32>>),
    P(24,12459,12472), P(16,12848,12856), X(<<69,79>>), P(7,12145,12160), X(<<77,24>>),
    P(11,12041,12056), X(<<30>>), P(10,12905,12920), X(<<51,59,29>>), P(20,12739,12752),
    X(<<22,42,50,28>>), P(0,12272,12280), X(<<38,10>>), P(23,12606,12616), X(<<72>>),
    P(19,12015,12024), X(<<16,53,65,14,61>>), P(18,12884,12896), X(<<15,23,80,64,62,40,11,4,34,9,13,
    63,7,18>>), P(15,12842,12856), X(<<60,74,75,2,44,57,12,49,19,3,21,71,31,67,41>>),
    P(14,12929,12944), X(<<43,39,25,8,68,36,54,66,55,5,26,58,17,76,48,37,45>>), C, K(27,12,559024)>>)

Test066 == FlattenSeq(<<
    P(15,12650,12664), F(57,<<2385,2671,2109>>), P(27,12134,12144), F(21,<<2184,2083,2242>>),
    F(69,<<2641,2563,2463>>), P(10,12709,12720), F(60,<<2485,2165,2177>>), F(12,<<2140,2501,2123>>),
    F(63,<<2084,2668,2517>>), F(51,<<2354,2101,2525>>), F(45,<<2508,2183,2590>>),
    F(81,<<2201,2119,2491>>), P(4,12656,12664), F(27,<<2589,2599,2506>>), F(0,<<2296,2301,2675>>),
    F(18,<<2348,2347,2213>>), F(24,<<2131,2324,2454>>), F(6,<<2293,2401,2651>>),
    F(66,<<2153,2616,2209>>), P(17,12928,12936), F(54,<<2236,2226,2461>>), F(36,<<2477,2323,2557>>),
    F(15,<<2164,2198,2551>>), F(3,<<2448,2361,2304>>), P(23,12670,12680), P(8,12997,13008),
    F(42,<<2359,2126,2352>>), P(26,12390,12400), F(48,<<2341,2237,2586>>), P(7,12890,12904),
    F(39,<<2366,2421,2149>>), P(1,12021,12032), F(72,<<2114,2060,2306>>), F(78,<<2265,2068,2613>>),
    F(9,<<2269,2201,2108>>), P(0,12124,12136), P(9,12817,12832), P(12,12129,12144),
    F(30,<<2286,2443,2061>>), F(75,<<2393,2689,2579>>), F(33,<<2163,2064,2640>>), P(5,12879,12888),
    P(24,12335,12344), X(<<44,64,79,54,25,14,35,76,56>>), P(20,12224,12232), X(<<58,34,29,74,50,41,
    61,21,57,15,22,68,63,6>>), P(19,12728,12736), P(25,12845,12856), X(<<3>>), P(16,12724,12736),
    X(<<49,18,42,73,28,51>>), P(18,12777,12792), X(<<27,48,62,71,53,70>>), P(14,12741,12752),
    P(13,12576,12584), X(<<77,40,75,81,0,65,60,83>>), P(6,12032,12040), X(<<59,24,32,69,23,72,67,37,
    11,66,36,5,16,7,4,46,19,10>>), P(21,12117,12128), X(<<82,2,33,17,20,45,47,43,1,30,78,31,52>>),
    P(22,12794,12808), X(<<39,38,80,8>>), P(2,12598,12608), X(<<26,55>>), P(3,12842,12856),
    X(<<13,12>>), P(11,12729,12744), X(<<9>>), C, K(28,10,581744)>>)

Test067 == FlattenSeq(<<
    F(72,<<2424,2170,2244>>), F(36,<<2616,2627,2429>>), F(18,<<2624,2496,2525>>),
    F(60,<<2288,2423,2306>>), P(4,12412,12424), F(30,<<2242,2126,2181>>), F(90,<<2455,2236,2444>>),
    F(48,<<2134,2201,2415>>), P(7,12986,13000), P(27,12934,12944), F(3,<<2636,2539,2495>>),
    F(54,<<2575,2299,2466>>), F(27,<<2575,2292,2449>>), F(9,<<2303,2238,2346,2108,2527,2277>>),
    F(84,<<2367,2539,2566>>), P(0,12977,12992), F(42,<<2488,2337,2514>>), F(63,<<2163,2228,2263>>),
    F(45,<<2512,2622,2508>>), P(15,12459,12472), P(30,12624,12632), F(66,<<2607,2455,2350>>),
    F(21,<<2340,2593,2301>>), P(26,12259,12272), F(51,<<2509,2423,2096>>), P(21,12942,12952),
    F(87,<<2179,2145,2531>>), F(24,<<2206,2103,2591>>), F(57,<<2333,2329,2380>>),
    F(81,<<2466,2386,2483>>), P(6,12644,12656), F(15,<<2395,2503,2181>>), P(1,12333,12344),
    P(11,12066,12080), F(69,<<2184,2194,2480>>), P(17,12345,12360), F(75,<<2685,2130,2363>>),
    F(6,<<2241,2658,2635>>), F(78,<<2541,2358,2384>>), P(8,12697,12712), P(24,12860,12872),
    P(20,12060,12072), F(0,<<2365,2461,2220>>), F(39,<<2584,2153,2097>>), P(14,12906,12920),
    P(2,12603,12616), P(12,12278,12288), F(33,<<2544,2208,2567>>), P(19,12088,12096), X(<<72,3,4,36,
    52,71,29,19,37,15>>), P(10,12514,12528), X(<<59,11,69,65>>), P(18,12669,12680), X(<<67,83,17>>),
    P(22,12919,12928), X(<<6>>), P(9,12977,12992), X(<<26,34>>), P(16,12601,12616), X(<<47,2,57,64,
    78,21,74,90,48,77,61,62,89,63,28,46,92,49,38,35,23,82,8,50,1,84,54,43,45,68,91,27>>),
    P(13,12721,12736), X(<<31,18,87,20,7>>), P(28,12989,13000), X(<<42,66>>), P(25,12685,12696),
    X(<<88,14>>), P(3,12651,12664), X(<<33,9,25,86,39>>), P(29,12967,12976), X(<<44,79,51>>),
    P(5,12936,12944), X(<<12,60,30,70,40,53,16,13>>), P(23,12735,12744), X(<<80,58,81,41,10,32,85,
    73,55,76,0,22,5,56,24,75>>), C, K(31,12,646160)>>)

Test068 == FlattenSeq(<<
    F(15,<<2570,2071,2651>>), P(13,12658,12672), F(3,<<2473,2177,2507>>), F(39,<<2353,2379,2366>>),
    P(11,12739,12752), F(72,<<2616,2157,2683>>), F(78,<<2186,2077,2139>>), F(60,<<2510,2680,2436>>),
    F(33,<<2508,2542,2510>>), F(21,<<2597,2192,2692>>), F(45,<<2167,2135,2616>>),
    F(75,<<2328,2349,2149>>), P(23,12864,12872), F(18,<<2604,2685,2419>>), F(9,<<2278,2244,2423>>),
    P(20,12381,12392), F(51,<<2484,2270,2495>>), F(27,<<2432,2696,2690>>), P(24,12613,12624),
    F(6,<<2291,2495,2263>>), P(25,12014,12024), P(19,12161,12176), F(54,<<2658,2339,2675>>),
    F(69,<<2316,2057,2146>>), P(1,12310,12320), F(63,<<2268,2618,2142>>), F(30,<<2507,2623,2538>>),
    F(24,<<2184,2688,2278>>), F(66,<<2607,2113,2614>>), F(42,<<2530,2645,2218>>), P(18,12102,12112),
    F(36,<<2309,2143,2697>>), F(48,<<2458,2139,2596>>), F(0,<<2283,2116,2246>>), P(6,12573,12584),
    P(2,12964,12976), F(57,<<2278,2113,2049>>), P(10,12123,12136), F(12,<<2547,2695,2357>>),
    X(<<48>>), P(12,12223,12232), X(<<8,49,44,67,2>>), P(15,12076,12088), X(<<71,13,53>>),
    P(17,12178,12192), X(<<38,64,36>>), P(7,12475,12488), X(<<6,23,28,73,66,4,60,0,54>>),
    P(8,12746,12760), P(3,12916,12928), X(<<29,35,11,21,33>>), P(0,12330,12344),
    X(<<41,34,72,9,16,15>>), P(5,12345,12360), X(<<18>>), P(16,12354,12368), X(<<55,26,37,30,80,43,
    56,14,22,1,25,77,27,59,17,68,69,78,45,61,79,20,24>>), P(4,12629,12640), X(<<39,19,47,42,58,7,52,
    75,40,70,65>>), P(21,12591,12600), X(<<62,10>>), P(22,12168,12176), P(9,12298,12312),
    X(<<32,31,50,46,74>>), P(26,12644,12656), X(<<76,63,5,3,51,12>>), P(14,12883,12896), X(<<57>>),
    C, K(27,11,557864)>>)

Test069 == FlattenSeq(<<
    F(66,<<2315,2180,2143>>), F(9,<<2453,2279,2248>>), F(30,<<2520,2571,2421>>),
    F(69,<<2511,2441,2379>>), F(39,<<2168,2131,2487>>), F(12,<<2232,2091,2635>>),
    F(78,<<2665,2596,2617>>), P(20,12218,12232), P(5,12049,12064), F(33,<<2671,2658,2268>>),
    P(9,12459,12472), F(45,<<2444,2327,2108>>), F(6,<<2563,2217,2175>>), P(13,12450,12464),
    F(42,<<2521,2464,2358>>), F(15,<<2690,2154,2467>>), P(24,12489,12504), P(19,12874,12888),
    F(48,<<2287,2499,2126>>), P(27,12336,12344), F(36,<<2249,2173,2387>>), F(63,<<2144,2614,2535>>),
    F(51,<<2458,2411,2305>>), F(0,<<2056,2663,2361>>), P(21,12415,12424), F(60,<<2529,2527,2389>>),
    F(57,<<2671,2275,2399>>), F(27,<<2517,2287,2534>>), F(21,<<2412,2461,2430>>),
    F(75,<<2333,2619,2303>>), P(18,12643,12656), P(7,12572,12584), P(1,12975,12984),
    F(3,<<2520,2555,2510>>), P(0,12182,12192), F(54,<<2590,2176,2689>>), F(72,<<2606,2674,2542>>),
    F(81,<<2269,2469,2349>>), F(18,<<2580,2227,2545>>), P(11,12075,12088), P(3,12724,12736),
    F(24,<<2225,2696,2520>>), X(<<47,79>>), P(25,12855,12864), X(<<8>>), P(12,12019,12032), X(<<13,
    27,36,50,43,15,1,39,38,35>>), P(22,12292,12304), X(<<28,18,69,62,24,34>>), P(17,12594,12608),
    X(<<37,78,6,59,20,16,19,67,21,53>>), P(8,12447,12456), X(<<55,64,61,10>>), P(15,12532,12544),
    X(<<75,76,58,46,12,9>>), P(16,12230,12240), X(<<82,56,73,2,44,74,11,52,80>>), P(14,12047,12056),
    P(4,12386,12400), X(<<33>>), P(23,12928,12936), X(<<54,32,31,25,48,71,45,70,23,81,72>>),
    P(26,12512,12520), X(<<4,5,60,83,29,63,22,3,49,7,66,26>>), P(10,12927,12936),
    X(<<68,17,77,41>>), P(2,12968,12976), X(<<65,0,14,30,51,57,42,40>>), P(6,12538,12552), C,
    K(28,10,579432)>>)

Test070 == FlattenSeq(<<
    F(0,<<2645,2429,2608>>), F(9,<<2661,2136,2284>>), P(7,12316,12328), F(60,<<2377,2617,2279>>),
    F(3,<<2212,2604,2561>>), F(36,<<2354,2298,2508>>), P(19,12234,12248), P(24,12014,12024),
    F(78,<<2602,2402,2455>>), P(0,12035,12048), F(33,<<2147,2157,2338>>), F(6,<<2630,2172,2382>>),
    F(15,<<2658,2304,2446>>), F(24,<<2411,2465,2373>>), F(66,<<2518,2395,2289>>),
    F(21,<<2633,2231,2312>>), P(18,12535,12544), F(39,<<2604,2545,2409>>), F(75,<<2318,2440,2072>>),
    F(18,<<2476,2684,2141>>), P(27,12136,12144), P(22,12417,12432), F(45,<<2102,2689,2148>>),
    P(9,12619,12632), P(13,12595,12608), F(27,<<2335,2533,2214>>), P(1,12287,12296),
    F(54,<<2192,2326,2257>>), P(3,12181,12192), F(81,<<2123,2068,2639>>), P(23,12345,12360),
    F(63,<<2323,2439,2376>>), P(10,12732,12744), F(69,<<2318,2085,2520>>), F(12,<<2418,2476,2599>>),
    F(51,<<2647,2326,2087>>), F(48,<<2436,2401,2661>>), F(72,<<2404,2664,2601>>),
    F(30,<<2416,2601,2188>>), P(2,12973,12984), F(57,<<2582,2502,2471>>), P(5,12106,12120),
    F(42,<<2400,2061,2684>>), X(<<27,73,67,68,83>>), P(14,12860,12872), X(<<9>>), P(6,12502,12512),
    X(<<74,51>>), P(12,12816,12824), X(<<46,53,14,57,21,29,48,43,35,20,28,1,38,23,70>>),
    P(21,12240,12248), X(<<72,81,55,76,58,31,0,32,34,45,26,50>>), P(4,12494,12504),
    X(<<8,44,42,17,63,39>>), P(26,12381,12392), X(<<3,80,4,22>>), P(17,12011,12024), X(<<37,62>>),
    P(25,12695,12704), X(<<77,79,65>>), P(16,12107,12120), X(<<47>>), P(8,12795,12808),
    X(<<10,13,40,7>>), P(11,12412,12424), X(<<82,69,66,54,71,49,36,18,33,25,11>>),
    P(15,12341,12352), X(<<60,12,56,41,6,15,78,75,2,24>>), P(20,12702,12712), X(<<52,30,5,61,16,59,
    64,19>>), C, K(28,13,577576)>>)

Test071 == FlattenSeq(<<
    P(24,12890,12904), F(42,<<2307,2361,2346>>), F(60,<<2058,2170,2517>>), F(66,<<2611,2436,2573>>),
    F(0,<<2194,2204,2163>>), P(15,12149,12160), F(9,<<2644,2319,2497>>), P(6,12115,12128),
    F(15,<<2455,2424,2117>>), P(18,12428,12440), F(48,<<2304,2545,2180>>), F(33,<<2305,2409,2439>>),
    P(11,12100,12112), F(3,<<2652,2613,2542>>), F(54,<<2475,2476,2335>>), F(81,<<2318,2280,2137>>),
    F(72,<<2657,2659,2496>>), P(3,12989,13000), F(63,<<2263,2218,2339>>), F(75,<<2260,2490,2468>>),
    P(27,12937,12952), P(1,12952,12960), F(12,<<2210,2566,2368>>), F(21,<<2650,2197,2632>>),
    P(14,12024,12032), F(6,<<2126,2586,2154>>), F(45,<<2400,2191,2457>>), F(36,<<2422,2626,2605>>),
    F(69,<<2380,2662,2144>>), F(78,<<2209,2292,2625>>), F(51,<<2240,2520,2226>>), P(13,12387,12400),
    F(39,<<2310,2332,2368>>), F(57,<<2076,2544,2359>>), P(9,12780,12792), F(30,<<2634,2602,2232>>),
    F(84,<<2403,2673,2194>>), F(18,<<2490,2388,2432>>), F(24,<<2231,2227,2482,2130,2547,2308>>),
    X(<<31,19,50,57,21,75,64,46,5,76,54,17,12,59>>), P(4,12251,12264), P(12,12964,12976),
    X(<<55,47,32,27>>), P(26,12249,12264), X(<<3,34,67,62,43,39,4,37,2,42,0>>), P(28,12987,13000),
    X(<<8,77,79,51,53,1,82,13,33,80,86,83,6,68,41,60,48,28>>), P(7,12061,12072), X(<<72>>),
    P(16,12631,12640), X(<<49,63,7>>), P(17,12427,12440), X(<<36,15,18,73,58>>), P(20,12539,12552),
    X(<<61>>), P(10,12536,12544), X(<<26,22>>), P(0,12535,12544), X(<<29,20,38,66,23,9,70>>),
    P(8,12496,12504), X(<<14,40,69>>), P(5,12810,12824), X(<<45,71,25,81,56,84,11,24>>),
    P(22,12541,12552), P(2,12977,12992), X(<<52,74>>), P(21,12416,12424), X(<<44,16>>),
    P(25,12184,12192), X(<<35,30,10>>), P(19,12947,12960), X(<<65>>), P(23,12409,12424),
    X(<<85,78>>), C, K(29,10,601616)>>)

Test072 == FlattenSeq(<<
    F(27,<<2378,2229,2514>>), F(36,<<2547,2097,2343>>), P(18,12968,12976), F(30,<<2666,2367,2361>>),
    F(75,<<2081,2259,2684>>), P(14,12189,12200), P(3,12798,12808), F(39,<<2074,2254,2197>>),
    F(81,<<2569,2570,2461>>), F(69,<<2674,2153,2657>>), F(63,<<2088,2061,2374>>),
    F(21,<<2420,2081,2301>>), F(45,<<2110,2233,2447>>), F(6,<<2081,2143,2266>>),
    F(12,<<2597,2530,2291>>), F(78,<<2665,2130,2382>>), P(25,12024,12032), F(48,<<2208,2430,2319>>),
    P(15,12958,12968), F(66,<<2176,2580,2308>>), F(9,<<2501,2355,2406>>), P(1,12264,12272),
    F(54,<<2625,2696,2158>>), P(5,12515,12528), P(21,12241,12256), P(10,12341,12352),
    P(27,12385,12400), F(60,<<2150,2060,2173>>), F(15,<<2607,2403,2062>>), F(0,<<2610,2451,2644>>),
    F(42,<<2554,2687,2059>>), F(18,<<2299,2632,2393>>), P(2,12982,12992), F(3,<<2051,2664,2395>>),
    F(72,<<2647,2068,2121>>), F(51,<<2157,2302,2428>>), F(57,<<2303,2616,2624>>),
    F(24,<<2650,2082,2409>>), P(26,12766,12776), F(84,<<2218,2501,2548>>), F(33,<<2452,2477,2287>>),
    P(4,12359,12368), X(<<50>>), P(13,12180,12192), P(7,12157,12168), X(<<26,74>>),
    P(11,12437,12448), X(<<59,43,60,72,44,27,63>>), P(22,12666,12680), P(9,12292,12304),
    X(<<10,6>>), P(0,12388,12400), P(12,12761,12776), P(23,12474,12488), X(<<34,41,84,32,22,79,73,
    25,8,65,56,2>>), P(6,12079,12088), X(<<18,37,15,42,69,0,29,20,80,58,67,35,33,23,66,16,48>>),
    P(20,12375,12384), X(<<11,38,45,47,78,55,4,5,13,52,30>>), P(16,12508,12520), X(<<12,53,82,46,83,
    40,64,71,17,76,21,51>>), P(19,12307,12320), X(<<68,77,1,31,70,49,36>>), P(17,12844,12856),
    P(24,12767,12776), X(<<39,85,62,9,7,61,57>>), P(8,12196,12208), X(<<75,14,3,19,86,28,24,54>>),
    P(28,12528,12536), X(<<81>>), C, K(29,9,599640)>>)

Test073 == FlattenSeq(<<
    P(7,12998,13008), F(6,<<2250,2640,2556>>), F(30,<<2648,2079,2548>>), F(36,<<2126,2148,2338>>),
    F(51,<<2099,2636,2517>>), F(75,<<2258,2372,2446>>), P(0,12741,12752), F(3,<<2282,2148,2117>>),
    P(5,12924,12936), P(17,12677,12688), F(0,<<2405,2141,2294>>), P(8,12245,12256),
    F(9,<<2195,2216,2424>>), F(57,<<2220,2106,2111>>), F(81,<<2191,2418,2499>>),
    F(60,<<2421,2331,2491>>), P(26,12503,12512), P(10,12302,12312), F(33,<<2653,2099,2618>>),
    P(1,12241,12256), F(78,<<2352,2278,2457>>), P(11,12110,12120), F(48,<<2384,2663,2201>>),
    F(45,<<2688,2183,2316>>), P(4,12224,12232), F(42,<<2562,2399,2690>>), F(12,<<2510,2066,2461>>),
    F(69,<<2188,2613,2436>>), F(27,<<2261,2221,2242>>), P(27,12986,13000), F(24,<<2503,2187,2439>>),
    F(39,<<2406,2253,2099>>), P(2,12343,12352), F(66,<<2680,2609,2223>>), F(21,<<2211,2609,2500>>),
    F(54,<<2546,2276,2485>>), F(72,<<2248,2628,2185>>), F(18,<<2058,2564,2473>>), P(20,12696,12704),
    F(63,<<2385,2387,2394>>), F(15,<<2534,2260,2362>>), X(<<60,22,5,42,80,30,28,40>>),
    P(15,12223,12232), X(<<53,54,45,36,56,37,49,73>>), P(14,12166,12176), X(<<26,25,10,61,12,35,83,
    32>>), P(12,12706,12720), P(25,12705,12720), X(<<23,50,69,72>>), P(19,12380,12392), X(<<82,21,
    64,78,62,48,81,38,4,74,70,33,79,43>>), P(13,12117,12128), X(<<34,8,1,17>>), P(24,12168,12176),
    X(<<9>>), P(6,12008,12016), X(<<41,58,52,76,19,24,2,11,16,39>>), P(23,12603,12616),
    X(<<18,20,13,55>>), P(3,12063,12072), X(<<0,68>>), P(16,12261,12272), P(18,12401,12416), X(<<51,
    59,47,7,27,29,15,67,44,46>>), P(9,12613,12624), P(22,12563,12576), X(<<75,66,65,6,71,57>>),
    P(21,12890,12904), X(<<63,77,14,3,31>>), C, K(28,11,578544)>>)

Test074 == FlattenSeq(<<
    F(57,<<2332,2184,2119>>), F(27,<<2468,2573,2484>>), F(6,<<2594,2112,2602>>),
    F(54,<<2427,2054,2273>>), P(28,12797,12808), F(18,<<2370,2070,2278>>), P(26,12371,12384),
    F(15,<<2411,2340,2543>>), P(9,12774,12784), F(51,<<2550,2300,2388>>), F(21,<<2378,2385,2604>>),
    F(72,<<2621,2243,2294>>), P(17,12741,12752), P(4,12333,12344), F(3,<<2196,2167,2598>>),
    P(8,12594,12608), P(1,12906,12920), F(39,<<2668,2670,2328>>), F(12,<<2450,2428,2056>>),
    F(60,<<2422,2382,2439>>), F(9,<<2072,2461,2131>>), F(0,<<2558,2540,2131>>), P(6,12973,12984),
    F(30,<<2112,2312,2094>>), P(21,12714,12728), F(63,<<2211,2236,2479>>), F(24,<<2605,2293,2184>>),
    F(66,<<2173,2370,2157>>), P(20,12533,12544), P(14,12330,12344), F(33,<<2247,2687,2483>>),
    F(42,<<2645,2367,2494>>), F(69,<<2258,2578,2242>>), P(27,12787,12800), F(84,<<2313,2633,2314>>),
    P(23,12667,12680), F(48,<<2568,2085,2086>>), F(81,<<2668,2140,2135>>), F(36,<<2272,2456,2207>>),
    F(78,<<2085,2296,2301>>), P(5,12980,12992), F(75,<<2192,2214,2684>>), F(45,<<2544,2359,2413>>),
    X(<<70,51,16,31,69,73,1,27,26,48>>), P(19,12093,12104), X(<<77>>), P(22,12687,12696), X(<<3,28,
    13,20,29,12,65>>), P(11,12446,12456), X(<<18,34,46,4,11,15>>), P(12,12502,12512), X(<<8>>),
    P(24,12044,12056), X(<<36,24,80>>), P(10,12106,12120), X(<<9,84,57,75,47,32,23,58,41>>),
    P(3,12871,12880), P(15,12031,12040), P(7,12743,12752), X(<<2,37,14,64,40,66,33,85,45,81,55,49,
    71,42,0,6,82,54,19>>), P(18,12294,12304), X(<<17,53,74,83,76,61>>), P(0,12593,12608), X(<<86,30,
    56,43,38,21,25>>), P(13,12261,12272), X(<<35>>), P(25,12194,12208), X(<<39,7,72,5>>),
    P(16,12137,12152), X(<<60>>), P(2,12347,12360), X(<<68,22,50,10,52,44,67,62,63,78,79,59>>), C,
    K(29,12,600760)>>)

Test075 == FlattenSeq(<<
    F(48,<<2470,2622,2227>>), F(57,<<2557,2256,2386>>), P(23,12732,12744), F(27,<<2064,2255,2690>>),
    F(66,<<2390,2516,2540>>), P(4,12441,12456), P(25,12034,12048), F(60,<<2512,2272,2095>>),
    F(12,<<2185,2392,2629>>), F(0,<<2322,2137,2612>>), F(36,<<2399,2577,2595>>), P(14,12143,12152),
    P(10,12911,12920), F(54,<<2575,2272,2096>>), F(51,<<2467,2082,2590>>), F(69,<<2552,2069,2105>>),
    F(33,<<2396,2107,2331>>), P(1,12218,12232), F(63,<<2684,2077,2514>>), P(9,12934,12944),
    P(22,12812,12824), P(20,12017,12032), F(78,<<2541,2134,2058>>), F(42,<<2242,2693,2205>>),
    P(17,12158,12168), F(45,<<2256,2401,2403>>), F(75,<<2661,2633,2248>>), P(8,12294,12304),
    F(15,<<2561,2319,2488>>), F(24,<<2372,2146,2109>>), F(6,<<2549,2317,2064>>), P(2,12352,12360),
    F(30,<<2142,2079,2223>>), F(81,<<2269,2428,2459>>), F(72,<<2611,2302,2569>>),
    F(84,<<2128,2459,2670>>), P(28,12986,13000), F(39,<<2432,2592,2155>>), P(19,12453,12464),
    P(27,12587,12600), P(7,12487,12496), F(18,<<2179,2314,2241>>), F(3,<<2245,2220,2451>>),
    F(9,<<2579,2495,2690>>), F(21,<<2146,2267,2273>>), X(<<15,7,67,70,27>>), P(0,12446,12456),
    X(<<10,64,23,44,56,58,68,35>>), P(24,12921,12936), X(<<17,25,45,41,66,76,5>>), P(3,12328,12336),
    X(<<86,57,75,34,72>>), P(21,12539,12552), X(<<21,22,8,6,30,80>>), P(12,12651,12664),
    X(<<39,60>>), P(18,12186,12200), X(<<85,13,51,54,38,26,40,19,78,71,24,1,32,2,16,36,65,63,37,43,
    33,9,4,69,28,77,42,62,52,0,73,14,81>>), P(6,12585,12600), X(<<12,47,74,31,50>>),
    P(5,12685,12696), X(<<49,84>>), P(15,12840,12848), X(<<61,20,29>>), P(16,12014,12024), X(<<46,
    55,82,79,83,53>>), P(26,12888,12896), X(<<18,3>>), P(13,12054,12064), X(<<59,11>>),
    P(11,12135,12144), X(<<48>>), C, K(29,11,599728)>>)

Test076 == FlattenSeq(<<
    P(4,12198,12208), F(18,<<2561,2201,2215>>), F(36,<<2697,2334,2659>>), P(21,12715,12728),
    F(27,<<2588,2247,2604>>), F(24,<<2650,2683,2434>>), F(54,<<2493,2568,2271>>),
    F(72,<<2360,2193,2549>>), F(60,<<2163,2402,2683>>), F(3,<<2270,2301,2470>>), P(15,12648,12656),
    F(66,<<2661,2272,2407>>), P(13,12198,12208), F(81,<<2069,2134,2188>>), F(9,<<2532,2598,2298>>),
    P(20,12854,12864), F(51,<<2515,2145,2515>>), P(1,12883,12896), P(7,12584,12592),
    F(87,<<2277,2264,2285>>), P(0,12298,12312), P(5,12389,12400), F(15,<<2297,2432,2497>>),
    F(30,<<2493,2351,2272>>), F(21,<<2152,2591,2229>>), P(25,12875,12888), F(12,<<2357,2549,2257>>),
    F(0,<<2383,2440,2084>>), F(39,<<2515,2631,2519>>), P(11,12471,12480), F(33,<<2178,2180,2212>>),
    P(19,12166,12176), P(17,12574,12584), F(6,<<2523,2177,2326>>), P(8,12995,13008),
    F(48,<<2506,2365,2268>>), P(9,12095,12104), F(84,<<2286,2375,2347>>), P(6,12550,12560),
    F(69,<<2211,2615,2205>>), F(45,<<2444,2392,2340>>), F(78,<<2623,2464,2479>>),
    F(42,<<2370,2567,2366>>), F(63,<<2569,2548,2409>>), F(57,<<2329,2650,2054>>),
    F(75,<<2401,2465,2358>>), P(3,12136,12144), X(<<88,2,27>>), P(24,12797,12808),
    P(27,12388,12400), X(<<48,60,80,15,46,76,69,59,11,26,81,37,82,52,54,83>>), P(18,12727,12736),
    P(10,12715,12728), X(<<66,72,14,32,84,61,33,18,9,6,35>>), P(23,12796,12808), X(<<7,79,51,39,43,
    50,68,45,70>>), P(12,12447,12456), X(<<42>>), P(29,12141,12152), X(<<29,19,28,20,17,86,30,67,10,
    71,31,23,53,1,44,55>>), P(28,12526,12536), X(<<36,12,34,4>>), P(26,12756,12768), X(<<24,63,62,
    49,47,5,56,74,25,78>>), P(2,12708,12720), X(<<85,16,22,75,57,38>>), P(22,12936,12944),
    P(14,12307,12320), X(<<64,3,21,13,87,58>>), P(16,12890,12904), X(<<89,41,0,77,73,8,40,65>>), C,
    K(30,13,622848)>>)

Test077 == FlattenSeq(<<
    F(24,<<2505,2610,2583>>), P(0,12799,12808), P(20,12338,12352), F(78,<<2461,2221,2194>>),
    F(51,<<2297,2347,2109>>), P(10,12520,12528), F(15,<<2276,2377,2613>>), F(48,<<2391,2506,2097>>),
    P(28,12067,12080), F(12,<<2323,2472,2053>>), P(1,12195,12208), P(13,12991,13000),
    F(69,<<2352,2478,2444>>), F(0,<<2632,2271,2051>>), F(75,<<2170,2681,2436>>), P(15,12105,12120),
    P(19,12526,12536), F(57,<<2401,2265,2443>>), F(42,<<2696,2280,2545>>), P(23,12861,12872),
    F(81,<<2359,2456,2406>>), F(63,<<2412,2585,2190>>), F(36,<<2166,2070,2129>>),
    F(30,<<2258,2480,2166>>), F(18,<<2157,2164,2604>>), P(3,12593,12608), P(21,12540,12552),
    F(27,<<2268,2455,2218>>), F(66,<<2157,2657,2285>>), F(60,<<2053,2056,2175>>),
    F(87,<<2315,2213,2297>>), F(21,<<2686,2260,2137>>), F(45,<<2484,2380,2608>>),
    F(39,<<2437,2460,2669>>), P(2,12713,12728), F(9,<<2566,2507,2184>>), P(24,12322,12336),
    F(84,<<2114,2081,2211>>), F(6,<<2080,2289,2294>>), F(33,<<2248,2678,2506>>),
    F(54,<<2061,2391,2563>>), P(17,12991,13000), F(72,<<2419,2470,2642>>), F(3,<<2323,2154,2347>>),
    X(<<61>>), P(8,12343,12352), X(<<77,47,4>>), P(18,12619,12632), X(<<13,55,19,34,29,28>>),
    P(27,12188,12200), P(25,12715,12728), X(<<41,73,88,32,3,51,25,24,59,84>>), P(9,12255,12264),
    X(<<64>>), P(22,12061,12072), X(<<10,69,18,87,8,30,48,60,42,63,39,33,0,11,70,53>>),
    P(5,12094,12104), X(<<85,23,79,7>>), P(14,12120,12128), X(<<26,46,21,66>>), P(26,12625,12640),
    X(<<16,27,68>>), P(11,12808,12816), X(<<75>>), P(12,12244,12256), X(<<83,81,22,82,52,57,76,56,
    54,62,9,15>>), P(29,12557,12568), X(<<65,6,35,43,14,49,1,50,31,36,74,40,78,5,89,80>>),
    P(4,12306,12320), X(<<86,12,71,72,58,67,17>>), P(7,12328,12336), X(<<38,37,2,44>>),
    P(16,12767,12776), X(<<45,20>>), P(6,12514,12528), C, K(30,11,620208)>>)

Test078 == FlattenSeq(<<
    P(10,12129,12144), P(25,12044,12056), F(6,<<2514,2235,2242>>), F(69,<<2203,2269,2077>>),
    F(39,<<2113,2322,2158,2353,2256,2647>>), P(16,12168,12176), F(90,<<2370,2685,2085>>),
    F(78,<<2386,2275,2075>>), F(21,<<2247,2602,2100>>), P(19,12599,12608), F(87,<<2110,2322,2460>>),
    P(21,12189,12200), F(3,<<2507,2098,2694>>), P(6,12443,12456), F(36,<<2197,2372,2550>>),
    P(3,12210,12224), F(24,<<2461,2230,2208>>), F(51,<<2102,2598,2057>>), F(9,<<2324,2609,2641>>),
    F(66,<<2124,2688,2353>>), P(1,12172,12184), F(30,<<2085,2605,2100>>), P(30,12127,12136),
    F(18,<<2087,2081,2626>>), P(14,12449,12464), F(60,<<2667,2458,2053>>), P(24,12075,12088),
    F(75,<<2464,2597,2318>>), F(12,<<2317,2300,2548>>), F(48,<<2135,2404,2066>>),
    F(0,<<2580,2632,2431>>), F(72,<<2369,2179,2569>>), P(18,12052,12064), F(57,<<2146,2570,2119>>),
    F(63,<<2654,2399,2084>>), F(45,<<2359,2497,2519>>), F(27,<<2218,2097,2244>>), P(2,12722,12736),
    F(33,<<2375,2447,2352>>), F(84,<<2140,2590,2479>>), P(7,12169,12184), P(13,12928,12936),
    P(11,12481,12496), P(26,12010,12024), F(54,<<2684,2500,2165>>), F(81,<<2455,2193,2126>>),
    F(15,<<2266,2198,2350>>), P(5,12855,12864), X(<<71>>), P(0,12504,12512), X(<<54,68,41,74,45>>),
    P(23,12990,13000), X(<<37,38,81,59,42,51,55,47,35,26,20,39,34>>), P(15,12722,12736), X(<<49,17,
    58,76,77,69,86>>), P(27,12437,12448), X(<<23,61>>), P(17,12824,12832), X(<<14,79,92,18,89,11,91,
    27,32,70,65,60,87>>), P(8,12744,12752), X(<<28,78,36,8,6>>), P(4,12171,12184), X(<<88,9,50,62,
    44,13,12,29,85,67,72,75,73,53,40,84,48>>), P(12,12189,12200), X(<<66>>), P(20,12011,12024),
    X(<<15,56,46,4,43,16,0,10>>), P(28,12796,12808), X(<<63,30,64,57,90,25>>), P(9,12576,12584),
    X(<<80,24,7>>), P(22,12310,12320), X(<<21,1,3,31>>), P(29,12038,12048), X(<<2,52,83,22,19,82,33,
    5>>), C, K(31,13,638440)>>)

Test079 == FlattenSeq(<<
    F(75,<<2351,2151,2413>>), F(21,<<2235,2448,2295>>), P(14,12261,12272), F(33,<<2431,2239,2486>>),
    F(0,<<2286,2634,2453>>), F(72,<<2078,2138,2566>>), F(63,<<2226,2330,2456>>), P(16,12044,12056),
    F(78,<<2130,2563,2226>>), F(66,<<2551,2153,2168>>), P(9,12737,12752), F(60,<<2274,2659,2315>>),
    F(45,<<2248,2252,2113>>), P(23,12054,12064), F(3,<<2100,2080,2485>>), P(1,12485,12496),
    P(7,12914,12928), P(24,12951,12960), F(51,<<2420,2118,2691>>), F(48,<<2348,2127,2635>>),
    P(25,12885,12896), P(0,12004,12016), F(15,<<2557,2316,2668>>), F(69,<<2587,2123,2075>>),
    P(18,12945,12960), F(57,<<2370,2235,2387>>), P(26,12878,12888), F(12,<<2248,2512,2159>>),
    F(6,<<2434,2071,2321>>), F(30,<<2212,2568,2303>>), F(18,<<2183,2630,2515>>), P(21,12013,12024),
    F(27,<<2658,2297,2651>>), F(9,<<2448,2355,2515>>), F(36,<<2160,2213,2373>>),
    F(24,<<2514,2505,2512>>), F(54,<<2528,2354,2676>>), F(39,<<2593,2224,2557>>), P(10,12933,12944),
    F(42,<<2094,2357,2176>>), X(<<44,2,43,73,75,46,3,74,39>>), P(13,12720,12728),
    X(<<19,26,66,30>>), P(22,12434,12448), X(<<20,62,21>>), P(4,12280,12288), X(<<70,1,42,31,54,45,
    76,8>>), P(6,12056,12064), X(<<48,17>>), P(20,12496,12504), X(<<58,25,28,49,14,27,11,59,61,50,
    71,77,38,69>>), P(17,12240,12248), X(<<63,78,64,4,53,37,51,65,18,41>>), P(15,12530,12544),
    P(8,12093,12104), X(<<67,33,57,9>>), P(12,12985,13000), P(11,12169,12184), X(<<23,7,47,0,12,79,
    68,6,5,15,56>>), P(2,12726,12736), X(<<35>>), P(5,12559,12568), X(<<34,32,13,10,40,60,52>>),
    P(19,12312,12320), X(<<72,36,24,80,16>>), P(3,12666,12680), X(<<22,55,29>>), C, K(27,11,558856)>>)

Test080 == FlattenSeq(<<
    F(66,<<2091,2239,2443>>), F(12,<<2185,2160,2545>>), F(39,<<2125,2418,2625>>),
    F(3,<<2527,2210,2499>>), F(60,<<2267,2630,2093>>), F(81,<<2219,2454,2630>>),
    F(36,<<2646,2322,2615>>), P(24,12828,12840), P(16,12921,12936), P(29,12519,12528),
    F(54,<<2289,2329,2435>>), F(18,<<2489,2660,2206,2222,2232,2419>>), F(72,<<2655,2268,2366>>),
    P(1,12149,12160), F(42,<<2050,2426,2615,2652,2336,2386>>), P(11,12506,12520), P(18,12485,12496),
    F(63,<<2428,2075,2610>>), P(26,12747,12760), F(75,<<2542,2247,2106>>), P(6,12020,12032),
    F(0,<<2318,2239,2565>>), F(27,<<2296,2631,2626>>), P(9,12897,12912), P(22,12559,12568),
    F(87,<<2471,2659,2349>>), F(6,<<2254,2089,2174>>), P(5,12264,12272), F(51,<<2077,2509,2439>>),
    F(33,<<2526,2072,2390>>), F(69,<<2270,2576,2094>>), P(2,12083,12096), F(78,<<2465,2549,2356>>),
    F(57,<<2691,2677,2697>>), F(30,<<2620,2342,2394>>), F(15,<<2192,2155,2433>>),
    F(9,<<2058,2141,2384>>), P(25,12725,12736), F(48,<<2581,2412,2063>>), F(24,<<2569,2310,2527>>),
    F(84,<<2072,2201,2319>>), X(<<65>>), P(4,12036,12048), X(<<27,24,0,39,66,70,89,86>>),
    P(20,12332,12344), X(<<51,60,45,11,38,22,72,3>>), P(28,12525,12536), X(<<48,14,59,30,74,47,26,
    67,57,78>>), P(13,12865,12880), X(<<77,76,79>>), P(27,12038,12048), X(<<49,33,64,44,8,7,69,83,9,
    53>>), P(23,12119,12128), P(21,12838,12848), X(<<87,68,21,23,25>>), P(14,12426,12440),
    X(<<19,28,17,88,5>>), P(17,12657,12672), X(<<43,32>>), P(12,12134,12144), X(<<29,85,46,10,15,40,
    12>>), P(19,12672,12680), X(<<84,82,81,63,18,61>>), P(8,12793,12808), P(3,12475,12488), X(<<4,
    58,50,35,56,6,42,2,52,80,73>>), P(7,12010,12024), X(<<13>>), P(10,12738,12752),
    X(<<71,16,34,41,1>>), P(15,12339,12352), X(<<37,55,75,36,54,31>>), P(0,12857,12872),
    X(<<20,62>>), C, K(30,10,620680)>>)

Test081 == FlattenSeq(<<
    F(33,<<2573,2685,2397>>), F(54,<<2151,2078,2658>>), F(27,<<2188,2241,2385>>),
    F(78,<<2305,2072,2333>>), F(36,<<2061,2086,2251>>), P(24,12352,12360), F(87,<<2607,2362,2443>>),
    F(18,<<2622,2594,2183>>), F(3,<<2060,2373,2690>>), P(26,12615,12624), P(21,12014,12024),
    F(12,<<2082,2344,2096>>), P(18,12378,12392), P(15,12795,12808), P(16,12797,12808),
    F(75,<<2464,2185,2540>>), P(1,12462,12472), F(63,<<2109,2390,2278>>), F(51,<<2062,2684,2375>>),
    F(90,<<2074,2133,2658>>), F(60,<<2285,2234,2557>>), P(29,12936,12944), F(57,<<2291,2435,2156>>),
    F(30,<<2470,2291,2176>>), F(24,<<2236,2675,2077>>), F(45,<<2325,2657,2337>>),
    F(0,<<2069,2529,2106>>), F(66,<<2623,2322,2169>>), F(21,<<2550,2326,2427>>),
    F(72,<<2542,2460,2314>>), F(81,<<2129,2199,2328>>), F(15,<<2099,2552,2293>>),
    F(39,<<2244,2126,2266>>), F(6,<<2202,2145,2481>>), P(23,12183,12192), F(42,<<2138,2145,2119>>),
    P(10,12894,12904), F(69,<<2438,2332,2130>>), P(9,12058,12072), F(84,<<2558,2184,2694>>),
    P(4,12145,12160), P(20,12169,12184), F(9,<<2049,2271,2194>>), F(48,<<2552,2541,2084>>), X(<<47,
    86,45,72,81,49,30,16,12,34>>), P(30,12516,12528), X(<<69>>), P(11,12842,12856), X(<<40,51>>),
    P(14,12590,12600), X(<<70,26,2,23,3,73,18,90,71,27,84,35,52,58,37,28,9,22>>), P(7,12755,12768),
    X(<<33,5,59,48,92,32>>), P(5,12968,12976), P(25,12214,12224), X(<<62,10,54,78,60,29,50>>),
    P(0,12709,12720), X(<<39,85,19,6,76>>), P(3,12283,12296), P(19,12385,12400), X(<<15>>),
    P(27,12839,12848), X(<<25,31,67>>), P(6,12985,13000), X(<<55,79,46,38,56>>), P(13,12657,12672),
    X(<<4,68,64,36,66,13,11,20,89,8>>), P(12,12930,12944), X(<<57,53,82,1,44,87>>),
    P(2,12087,12096), X(<<7,63,65,61,43>>), P(17,12073,12088), X(<<41>>), P(22,12683,12696), X(<<75,
    14,91,24,42,21>>), P(8,12494,12504), X(<<17,0,88,74>>), P(28,12065,12080), X(<<83,80,77>>), C,
    K(31,10,642192)>>)

Test082 == FlattenSeq(<<
    P(17,12490,12504), F(87,<<2556,2374,2438>>), F(21,<<2219,2234,2320>>), P(18,12918,12928),
    F(33,<<2421,2331,2196>>), P(8,12842,12856), F(9,<<2608,2157,2261>>), F(84,<<2262,2048,2549>>),
    F(75,<<2680,2265,2398>>), P(5,12025,12040), F(72,<<2167,2553,2661>>), P(1,12126,12136),
    F(42,<<2501,2326,2593>>), P(16,12674,12688), F(78,<<2062,2437,2637>>), F(3,<<2563,2250,2472>>),
    F(90,<<2624,2165,2633>>), F(69,<<2301,2569,2147>>), F(63,<<2146,2169,2124>>),
    F(81,<<2453,2417,2394>>), F(30,<<2597,2185,2634>>), F(15,<<2694,2668,2492>>),
    F(39,<<2073,2278,2084>>), P(29,12000,12008), F(18,<<2585,2333,2470>>), P(15,12604,12616),
    F(66,<<2356,2198,2541>>), F(51,<<2266,2278,2697>>), F(57,<<2556,2174,2601>>), P(14,12403,12416),
    P(6,12949,12960), P(20,12653,12664), F(48,<<2691,2370,2522>>), P(4,12901,12912),
    P(28,12606,12616), F(54,<<2624,2370,2171>>), F(12,<<2653,2142,2162>>), F(45,<<2315,2277,2059>>),
    P(2,12092,12104), F(27,<<2394,2505,2648>>), F(0,<<2548,2496,2213>>), P(7,12499,12512),
    F(24,<<2161,2174,2468>>), P(21,12839,12848), P(0,12562,12576), F(60,<<2591,2376,2075>>),
    F(6,<<2314,2113,2128>>), F(36,<<2449,2206,2586>>), X(<<66,0,62,32,7,14,52,13,73,63,22,30,60,15,
    11,8,53,68,5,42>>), P(9,12218,12232), X(<<72,39,43>>), P(22,12808,12816), X(<<12,24>>),
    P(3,12740,12752), X(<<64,86,71,40,47>>), P(19,12745,12760), X(<<49,48,58,34,81,45,83,79,75,37,
    70,55,36,51,31,38,78,50,59,89,16,20,6,44,17,2,56,67,65>>), P(27,12639,12648), X(<<76,3,4,21,10,
    90,61,57,1>>), P(10,12699,12712), X(<<80,91,92,25,29>>), P(12,12079,12088),
    X(<<26,41,85,23,33>>), P(11,12179,12192), X(<<88,18,84>>), P(13,12802,12816), P(25,12054,12064),
    X(<<27,54,87>>), P(24,12229,12240), X(<<46>>), P(30,12313,12328), X(<<77>>), P(26,12484,12496),
    X(<<9,74,28,19,35>>), P(23,12248,12256), X(<<82,69>>), C, K(31,13,641736)>>)

Test083 == FlattenSeq(<<
    F(30,<<2422,2152,2429>>), P(13,12594,12608), F(18,<<2153,2212,2393>>), F(0,<<2388,2392,2165>>),
    P(14,12567,12576), P(17,12906,12920), P(1,12439,12448), F(15,<<2453,2192,2624>>),
    F(39,<<2319,2676,2265>>), F(45,<<2174,2188,2257>>), P(7,12596,12608), P(8,12543,12552),
    P(25,12895,12904), F(21,<<2475,2678,2673>>), F(72,<<2362,2630,2530>>), F(66,<<2133,2315,2380>>),
    P(16,12550,12560), P(0,12062,12072), F(27,<<2078,2223,2337>>), F(24,<<2318,2599,2234>>),
    F(51,<<2048,2222,2351>>), P(20,12490,12504), P(4,12010,12024), F(60,<<2352,2053,2677>>),
    P(11,12515,12528), P(22,12932,12944), F(54,<<2088,2058,2626>>), F(9,<<2600,2539,2593>>),
    F(57,<<2498,2523,2643>>), F(48,<<2314,2073,2249>>), F(12,<<2106,2604,2399>>), P(10,12503,12512),
    F(36,<<2514,2635,2223>>), F(69,<<2121,2645,2603>>), F(63,<<2264,2390,2402>>),
    F(42,<<2358,2519,2514>>), F(33,<<2657,2097,2430>>), F(78,<<2662,2313,2102>>),
    F(75,<<2459,2091,2343>>), F(3,<<2386,2152,2679,2680,2341,2139>>), P(15,12412,12424),
    P(5,12729,12744), P(3,12548,12560), X(<<17,4,64,41,11,40>>), P(19,12458,12472), X(<<25,19,78,75,
    79,28,73,36,38,58,53>>), P(23,12312,12320), X(<<22,56,51,23,18,13,3,10,76,74,60,44,2,47,9,30,48,
    24,66,31,55,68,8>>), P(9,12379,12392), X(<<14,62,32,34,52,54>>), P(21,12663,12672),
    X(<<15,61,42,49>>), P(26,12000,12008), X(<<26,21,1>>), P(24,12105,12120), X(<<5,71,6>>),
    P(2,12096,12104), X(<<43,33,7,59>>), P(6,12914,12928), X(<<63,77>>), P(12,12875,12888),
    X(<<67,0,72,20,57>>), P(18,12811,12824), X(<<27,65,46,12,16,80,29,69,70,35,50,39,45,37>>), C,
    K(27,8,559400)>>)

Test084 == FlattenSeq(<<
    P(6,12491,12504), F(63,<<2097,2051,2286>>), F(9,<<2306,2306,2235>>), F(57,<<2342,2444,2404>>),
    F(12,<<2325,2520,2662>>), F(48,<<2372,2054,2657>>), P(4,12875,12888), F(21,<<2467,2212,2293>>),
    F(15,<<2129,2277,2086>>), P(9,12700,12712), P(1,12416,12424), F(72,<<2227,2513,2297>>),
    F(51,<<2599,2182,2290>>), F(6,<<2474,2048,2634>>), F(33,<<2350,2077,2227>>),
    F(42,<<2276,2357,2383>>), F(30,<<2593,2492,2094>>), F(69,<<2256,2542,2326>>),
    F(39,<<2251,2444,2386>>), F(0,<<2271,2346,2250>>), F(36,<<2196,2474,2596>>), P(10,12112,12120),
    F(27,<<2512,2182,2655>>), P(16,12303,12312), F(54,<<2561,2277,2086>>), P(3,12813,12824),
    P(13,12531,12544), P(17,12739,12752), P(5,12138,12152), F(78,<<2188,2365,2306>>),
    F(24,<<2320,2421,2487>>), P(8,12592,12600), F(66,<<2072,2163,2172>>), P(19,12179,12192),
    F(3,<<2187,2126,2133>>), F(45,<<2155,2330,2213>>), F(75,<<2060,2634,2684>>),
    F(18,<<2653,2658,2418>>), F(81,<<2250,2418,2368>>), F(60,<<2400,2208,2370>>), P(21,12312,12320),
    X(<<12,32,52,34,77,27,7,18,64,29,44,20,23>>), P(26,12737,12752), X(<<19,74>>),
    P(25,12224,12232), P(22,12181,12192), X(<<8,4,72>>), P(7,12437,12448), X(<<36,2,83,38>>),
    P(14,12544,12552), X(<<75,17,45,62,40,3>>), P(0,12767,12776), X(<<63>>), P(24,12506,12520),
    X(<<16,78,15,73,58,10,66,0,24,30,43,26,50,76,1,9>>), P(18,12244,12256), X(<<37,22,35,13,57,42,5,
    81>>), P(15,12029,12040), X(<<11>>), P(23,12441,12456), X(<<61,82,56,39>>), P(2,12457,12472),
    X(<<54,46,65,49,14,60,69,59,6,41,48>>), P(27,12041,12056), X(<<21,71,70,51,67>>),
    P(12,12820,12832), X(<<28,80,79,31,33,25,53,55,47>>), P(20,12811,12824), X(<<68>>),
    P(11,12540,12552), C, K(28,8,578680)>>)

Test085 == FlattenSeq(<<
    F(24,<<2506,2190,2342>>), F(66,<<2275,2378,2318,2061,2186,2469>>), F(15,<<2097,2427,2065>>),
    F(9,<<2514,2165,2269>>), F(30,<<2489,2524,2511>>), F(36,<<2301,2599,2065>>),
    F(45,<<2465,2690,2255>>), P(1,12080,12088), F(6,<<2543,2653,2191>>), F(72,<<2675,2503,2356>>),
    F(3,<<2529,2175,2186>>), P(3,12622,12632), F(54,<<2161,2427,2304>>), F(63,<<2274,2526,2129>>),
    F(33,<<2476,2224,2295>>), F(57,<<2251,2671,2476>>), P(19,12891,12904), P(9,12860,12872),
    F(48,<<2521,2608,2542>>), F(60,<<2248,2298,2260>>), P(22,12306,12320), F(27,<<2330,2428,2337>>),
    F(51,<<2138,2097,2072>>), P(16,12180,12192), F(18,<<2549,2467,2662>>), F(78,<<2127,2171,2144>>),
    P(2,12462,12472), F(39,<<2689,2208,2308>>), P(7,12181,12192), P(11,12877,12888),
    P(17,12156,12168), P(13,12324,12336), F(12,<<2511,2255,2626>>), P(14,12709,12720),
    P(0,12268,12280), F(75,<<2695,2455,2453>>), P(8,12292,12304), F(81,<<2104,2669,2658>>),
    P(23,12506,12520), P(26,12606,12616), F(0,<<2212,2112,2497>>), F(21,<<2688,2630,2177>>),
    F(42,<<2155,2606,2059>>), X(<<42,78,20,39,56,45,51,16,25,34,13,33>>), P(6,12455,12464), X(<<15,
    9,24,68,81,22,69>>), P(24,12383,12392), X(<<61,66,58,76,6,38,65>>), P(18,12136,12144),
    X(<<48,12>>), P(5,12843,12856), P(10,12917,12928), X(<<79,46,70,52,59,30,8,47,29,43,83,62,1,35,
    18,67,10,31,21,49>>), P(25,12064,12072), X(<<77>>), P(21,12489,12504), X(<<2,64,53,23,50,37,
    41>>), P(20,12647,12656), X(<<72,32,75,57,74,0,55,80,60,19,17,54,82,36,7,5,11,28>>),
    P(27,12489,12504), X(<<71>>), P(4,12983,12992), P(12,12617,12632), X(<<26,73,40,4>>),
    P(15,12486,12496), X(<<14,3,44,63,27>>), C, K(28,11,579520)>>)

Test086 == FlattenSeq(<<
    P(3,12078,12088), F(6,<<2274,2609,2607>>), P(25,12905,12920), P(23,12570,12584),
    P(1,12393,12408), F(54,<<2298,2412,2576>>), F(0,<<2488,2152,2529>>), P(5,12899,12912),
    P(7,12926,12936), P(6,12420,12432), F(9,<<2102,2073,2671>>), P(19,12252,12264),
    F(63,<<2302,2452,2348>>), P(0,12120,12128), P(10,12721,12736), F(30,<<2630,2384,2557>>),
    P(15,12294,12304), F(45,<<2098,2124,2403>>), F(12,<<2614,2048,2639>>), P(14,12521,12536),
    P(21,12313,12328), F(18,<<2123,2446,2273>>), F(51,<<2328,2326,2661>>),
    F(33,<<2233,2603,2372,2218,2407,2073>>), F(57,<<2628,2161,2247>>), F(42,<<2624,2681,2202>>),
    F(78,<<2546,2063,2630>>), F(3,<<2672,2222,2223>>), F(39,<<2693,2478,2623>>),
    F(66,<<2365,2477,2594>>), P(16,12704,12712), F(72,<<2646,2474,2494>>), F(21,<<2063,2256,2401>>),
    F(48,<<2282,2669,2511>>), P(26,12122,12136), F(69,<<2305,2515,2481>>), F(60,<<2430,2097,2389>>),
    P(9,12373,12384), F(75,<<2565,2681,2275>>), P(17,12572,12584),
    F(24,<<2120,2691,2608,2148,2149,2675>>), F(15,<<2349,2068,2580>>), X(<<18>>), P(13,12468,12480),
    P(8,12641,12656), X(<<67,42>>), P(24,12259,12272), X(<<19,59,47,63,35,57,12,77,9,1,21,26>>),
    P(18,12677,12688), X(<<52,75,76,68,65,73,32,34,40,27,69,48,36,22,43>>), P(11,12213,12224),
    X(<<37,3,20,74,15>>), P(20,12132,12144), X(<<31,50,41,30,44,70,14,4,66,79,64,2,45,8,56>>),
    P(2,12466,12480), X(<<5,17>>), P(4,12092,12104), X(<<46,78,13,10,6,11,60,72,62,25,24,7,23,53,54,
    29,39,16>>), P(22,12078,12088), X(<<61,38,80,33,49,28,51,55,0,58>>), P(12,12765,12776),
    X(<<71>>), C, K(27,11,557488)>>)

Test087 == FlattenSeq(<<
    P(12,12562,12576), P(19,12964,12976), F(45,<<2404,2432,2113>>), F(33,<<2127,2079,2521>>),
    P(1,12057,12072), F(36,<<2306,2512,2198>>), P(11,12550,12560), F(15,<<2647,2686,2080>>),
    F(0,<<2188,2091,2293>>), F(69,<<2675,2322,2125>>), F(66,<<2262,2680,2159>>),
    F(42,<<2691,2560,2449>>), F(39,<<2462,2264,2387>>), P(26,12991,13000), F(51,<<2075,2513,2576>>),
    F(78,<<2191,2652,2436>>), F(57,<<2335,2070,2474>>), F(21,<<2286,2477,2169,2395,2227,2375>>),
    P(25,12393,12408), F(54,<<2189,2664,2076>>), F(27,<<2165,2619,2273,2358,2280,2587>>),
    F(9,<<2467,2281,2528>>), P(15,12103,12112), P(16,12581,12592), P(2,12471,12480),
    F(72,<<2557,2272,2484>>), F(12,<<2090,2232,2374>>), F(75,<<2265,2666,2096>>),
    F(6,<<2334,2678,2562>>), F(60,<<2611,2595,2479>>), P(24,12136,12144), F(63,<<2151,2631,2173>>),
    F(3,<<2092,2564,2272>>), F(48,<<2273,2170,2413>>), F(18,<<2439,2340,2080>>), P(5,12604,12616),
    X(<<0>>), P(18,12569,12584), X(<<3,70>>), P(21,12138,12152), X(<<74,38,9,55,37>>),
    P(17,12989,13000), X(<<13,60,20,14,35>>), P(9,12533,12544), X(<<54,58,12>>), P(8,12341,12352),
    P(22,12203,12216), X(<<41,22,15>>), P(13,12261,12272), P(10,12526,12536),
    X(<<79,6,75,4,53,64>>), P(20,12968,12976), X(<<45,26>>), P(23,12635,12648), P(6,12384,12392),
    X(<<10,51,52,7,62,80,17,42,50,46,8,5,36,34,25,49,23,1,56,72>>), P(4,12848,12856), X(<<31,19,71,
    39,16,40,78,30>>), P(7,12022,12032), X(<<48,44,63,33,24,2,27,76>>), P(3,12887,12896),
    P(0,12973,12984), X(<<47,69,21,73,29,43,67,28,65>>), P(14,12686,12696), X(<<59,11,66,18,61,57,
    32,68,77>>), C, K(27,7,559856)>>)

Test088 == FlattenSeq(<<
    F(6,<<2094,2516,2158>>), P(12,12358,12368), P(1,12370,12384), F(24,<<2414,2143,2553>>),
    P(27,12891,12904), F(66,<<2234,2375,2108>>), P(10,12330,12344), P(26,12859,12872),
    F(63,<<2157,2647,2304>>), F(9,<<2490,2386,2377>>), F(60,<<2444,2570,2582>>),
    F(69,<<2126,2420,2242,2071,2477,2531>>), F(36,<<2616,2324,2424>>), F(18,<<2237,2538,2100>>),
    P(6,12997,13008), F(57,<<2630,2048,2694>>), F(30,<<2177,2620,2454>>), F(51,<<2051,2492,2070>>),
    F(81,<<2318,2118,2228>>), F(33,<<2206,2669,2505>>), P(22,12327,12336), F(75,<<2650,2566,2408>>),
    F(21,<<2697,2590,2481>>), P(23,12699,12712), F(0,<<2681,2060,2586>>), F(27,<<2438,2520,2683>>),
    P(16,12457,12472), P(24,12660,12672), F(39,<<2053,2152,2076>>), F(54,<<2265,2227,2312>>),
    F(3,<<2257,2320,2339>>), F(48,<<2318,2318,2197>>), P(18,12462,12472), F(15,<<2655,2231,2652>>),
    P(11,12886,12896), F(45,<<2091,2474,2381>>), F(78,<<2588,2243,2310>>), F(12,<<2419,2110,2524>>),
    F(42,<<2438,2695,2389>>), X(<<32>>), P(15,12911,12920), P(25,12234,12248), X(<<21>>),
    P(20,12805,12816), X(<<56,18,48,16,10,71,70,45>>), P(7,12767,12776), X(<<65,22,47,24,34,54,4,62,
    75,7>>), P(0,12473,12488), X(<<37,42,23>>), P(17,12405,12416), X(<<49,15,72,8>>),
    P(4,12957,12968), P(8,12042,12056), X(<<26,82,57,55,17>>), P(14,12850,12864),
    X(<<50,25,69,46>>), P(13,12405,12416), X(<<64,83,12>>), P(9,12694,12704), X(<<38>>),
    P(3,12695,12704), X(<<77,51,41,80,59,11,30,74,44,73,14,35,20,31,66,68,67>>), P(2,12827,12840),
    X(<<13,33,52,5,36,58,29>>), P(21,12962,12976), X(<<43>>), P(5,12308,12320),
    X(<<1,19,81,76,27,28>>), P(19,12325,12336), X(<<40,78,0,79,6,3,63,61,39,53,2,9,60>>), C,
    K(28,10,582664)>>)

Test089 == FlattenSeq(<<
    P(10,12291,12304), F(15,<<2534,2609,2192>>), P(1,12347,12360), F(30,<<2683,2635,2451>>),
    F(75,<<2207,2595,2677>>), P(7,12608,12616), F(57,<<2501,2189,2344>>), F(39,<<2333,2569,2467>>),
    P(9,12015,12024), P(12,12303,12312), F(81,<<2619,2159,2122>>), F(0,<<2241,2429,2314>>),
    F(45,<<2547,2466,2216>>), P(0,12178,12192), F(9,<<2099,2446,2436>>), F(60,<<2101,2365,2092>>),
    F(6,<<2425,2571,2675>>), F(72,<<2458,2648,2687>>), P(27,12492,12504),
    F(63,<<2296,2637,2460,2156,2399,2554>>), P(11,12911,12920), P(24,12413,12424),
    F(69,<<2359,2525,2357>>), F(51,<<2321,2285,2145>>), P(18,12895,12904), P(14,12827,12840),
    F(21,<<2129,2248,2483>>), F(42,<<2540,2392,2507>>), F(36,<<2573,2665,2690>>), P(20,12126,12136),
    F(84,<<2234,2122,2211>>), F(27,<<2363,2696,2303>>), F(18,<<2153,2591,2239>>), P(6,12926,12936),
    F(24,<<2330,2260,2137>>), F(54,<<2528,2101,2322>>), F(12,<<2229,2455,2601>>), P(16,12210,12224),
    F(48,<<2123,2616,2645>>), F(78,<<2506,2637,2472>>), F(33,<<2316,2646,2358>>),
    F(3,<<2417,2442,2525>>), P(4,12822,12832), X(<<67>>), P(3,12960,12968), X(<<10>>),
    P(23,12828,12840), X(<<30,83,13,56,66,48,38,60,82,39,18,54>>), P(21,12611,12624), X(<<68,47>>),
    P(22,12576,12584), X(<<70>>), P(28,12062,12072), X(<<53,4,62,69,46,33,43,22,25,64,5,59,79>>),
    P(5,12069,12080), X(<<26,57,44,20,19,15,9,85,40>>), P(19,12398,12408), X(<<71,16,21,52,80,29,75,
    77,31,84,51,11,2,28,36,37,17>>), P(17,12886,12896), P(2,12836,12848), X(<<63,8>>),
    P(26,12244,12256), X(<<34,61>>), P(15,12176,12184), X(<<24,72,23,3,12>>), P(8,12091,12104),
    X(<<81,55,32,76,73,74,50,27,45,35,6,1,78,41,65,42,7,49>>), P(25,12915,12928), X(<<14>>),
    P(13,12342,12352), X(<<0,58,86>>), C, K(29,11,600240)>>)

Test090 == FlattenSeq(<<
    P(1,12659,12672), F(48,<<2675,2503,2136>>), P(15,12985,13000), P(14,12992,13000),
    F(81,<<2218,2447,2446>>), F(63,<<2121,2480,2497>>), F(57,<<2078,2261,2609>>), P(13,12135,12144),
    P(5,12774,12784), F(21,<<2547,2132,2152>>), P(12,12100,12112), P(24,12290,12304),
    F(30,<<2065,2400,2578>>), P(23,12245,12256), F(42,<<2137,2068,2218>>), P(18,12435,12448),
    P(20,12610,12624), P(27,12292,12304), P(25,12403,12416), F(18,<<2610,2187,2202>>),
    F(78,<<2312,2475,2229>>), F(3,<<2466,2493,2378>>), P(9,12175,12184), F(15,<<2686,2588,2137>>),
    P(22,12701,12712), F(39,<<2097,2491,2294>>), F(12,<<2614,2419,2524>>), F(9,<<2608,2482,2345>>),
    F(33,<<2465,2064,2206>>), F(51,<<2238,2067,2347>>), F(84,<<2049,2598,2565>>),
    F(24,<<2097,2115,2064>>), P(2,12841,12856), F(27,<<2609,2378,2509>>), F(75,<<2678,2364,2243>>),
    F(66,<<2373,2545,2289>>), F(72,<<2448,2057,2312>>), F(45,<<2257,2508,2204>>), P(3,12417,12432),
    P(4,12930,12944), F(6,<<2380,2128,2137>>), F(0,<<2657,2676,2145>>), F(60,<<2191,2255,2398>>),
    F(36,<<2050,2134,2428>>), P(16,12087,12096), P(10,12096,12104), F(69,<<2653,2668,2220>>),
    F(54,<<2676,2321,2145>>), X(<<0,20>>), P(11,12248,12256), X(<<15,55,29,21,14,11,49,67,43,7,52,
    65>>), P(19,12110,12120), X(<<57,63,17,13,10,31,12,72,1,35,79,19,70,85,75,33,59,83,73,40,78,71,
    76,82,23>>), P(26,12113,12128), X(<<80,3,4,45,56,47,53,68,86>>), P(7,12352,12360), X(<<9,2,6,58,
    41,60,44,8>>), P(0,12031,12040), X(<<34,37,30,50,26,39,66,18,27,5>>), P(6,12890,12904),
    X(<<36,38,25,32>>), P(21,12788,12800), X(<<46>>), P(17,12303,12312), X(<<69,24,22,84,61,81>>),
    P(8,12791,12800), X(<<62,51,74>>), P(28,12603,12616), X(<<48,64,77,28,16,54,42>>), C,
    K(29,11,599296)>>)

Test091 == FlattenSeq(<<
    P(1,12324,12336), P(17,12719,12728), F(39,<<2414,2122,2642>>), F(54,<<2540,2617,2344>>),
    P(24,12814,12824), F(78,<<2314,2635,2560>>), P(8,12140,12152), P(20,12447,12456),
    F(87,<<2330,2641,2514>>), F(72,<<2117,2586,2282>>), P(18,12328,12336), F(42,<<2395,2580,2353>>),
    P(29,12174,12184), F(57,<<2334,2223,2549>>), F(0,<<2272,2623,2119>>), P(12,12248,12256),
    F(81,<<2088,2121,2217,2427,2272,2508>>), F(48,<<2387,2274,2437>>), F(30,<<2166,2056,2329>>),
    F(36,<<2254,2167,2240>>), P(15,12793,12808), F(27,<<2059,2066,2165>>), F(66,<<2692,2671,2150>>),
    P(13,12927,12936), F(3,<<2543,2228,2181>>), P(27,12093,12104), F(15,<<2568,2081,2662>>),
    F(63,<<2322,2531,2350>>), P(21,12612,12624), P(3,12225,12240), P(4,12687,12696),
    P(28,12143,12152), F(6,<<2332,2250,2431>>), F(12,<<2386,2444,2520>>), F(24,<<2617,2638,2505>>),
    F(18,<<2432,2162,2052>>), F(9,<<2517,2253,2217>>), F(69,<<2158,2082,2582>>), P(9,12336,12344),
    P(25,12244,12256), F(45,<<2549,2193,2643>>), F(60,<<2146,2053,2636>>), F(51,<<2500,2550,2370>>),
    F(75,<<2132,2460,2493>>), P(6,12855,12864), P(16,12963,12976), F(21,<<2667,2470,2520>>),
    P(5,12478,12488), F(33,<<2135,2055,2335>>), X(<<29,75,30,62>>), P(19,12471,12480), X(<<89,32>>),
    P(7,12449,12464), X(<<42,22,25,17,73,85,60,71>>), P(0,12531,12544), P(26,12981,12992), X(<<18,
    38,26,56,78,84,4,2,88,47,44,50,24,58,39,70,13,5,57,66,69,86,8,27,45,21,35,41,20,40,48,76,54,12,
    14,79>>), P(23,12309,12320), X(<<9,6,15,64,37,63,77,59>>), P(14,12804,12816), X(<<80,61,53>>),
    P(2,12845,12856), X(<<82,19,1,49,7,0,81,33,28,34,23,87,83,36,10,3>>), P(11,12584,12592),
    X(<<68,46>>), P(10,12900,12912), X(<<52,16,11>>), P(22,12825,12840), X(<<31,67,43,74,65,72,51,
    55>>), C, K(30,13,622336)>>)

Test092 == FlattenSeq(<<
    P(18,12868,12880), F(36,<<2375,2553,2360>>), P(6,12467,12480), F(27,<<2391,2272,2429>>),
    F(15,<<2547,2676,2128>>), F(21,<<2551,2137,2428>>), F(39,<<2336,2599,2144>>),
    F(63,<<2163,2566,2131>>), F(33,<<2205,2553,2629>>), P(17,12136,12144), F(3,<<2596,2081,2056>>),
    F(78,<<2150,2392,2275>>), P(3,12034,12048), P(8,12840,12848), F(9,<<2553,2162,2105>>),
    F(87,<<2368,2590,2526>>), P(12,12045,12056), F(84,<<2253,2626,2372>>), P(29,12590,12600),
    F(75,<<2551,2676,2571>>), F(69,<<2301,2593,2171>>), P(4,12795,12808), F(30,<<2581,2185,2223>>),
    F(18,<<2678,2125,2441>>), F(12,<<2350,2367,2318>>), F(60,<<2686,2359,2128>>), P(27,12541,12552),
    P(11,12921,12936), P(7,12193,12208), P(2,12202,12216), P(0,12384,12392), P(13,12072,12080),
    F(81,<<2378,2443,2435>>), F(51,<<2282,2104,2614>>), P(23,12374,12384), F(45,<<2591,2183,2261>>),
    P(15,12602,12616), F(24,<<2472,2563,2654>>), F(48,<<2272,2413,2266>>), P(10,12705,12720),
    F(57,<<2406,2490,2288>>), P(19,12183,12192), F(42,<<2071,2293,2534>>), F(54,<<2110,2438,2636>>),
    P(26,12850,12864), F(6,<<2539,2362,2401>>), F(66,<<2188,2406,2676>>), F(0,<<2519,2454,2086>>),
    F(72,<<2176,2211,2375>>), X(<<83,81>>), P(16,12840,12848), X(<<15,57,18,3,87,84,11,78,0>>),
    P(14,12969,12984), X(<<40,43>>), P(9,12496,12504), X(<<63,52,46,2,34>>), P(21,12437,12448),
    P(22,12950,12960), X(<<38,39,67,70,58,19>>), P(25,12084,12096), X(<<5,73,37,61,28,88,80,60,26,
    10,71>>), P(28,12332,12344), X(<<53,69,25,55,79,16,13,23,66,17,65,47,50,72,41,59,49,44,75,4,29,
    48,77,8,35,12,86,85,7,9,1,51,33,30,22,54,6,24>>), P(5,12183,12192), X(<<27,74,36,64,68,62,14>>),
    P(20,12283,12296), X(<<89,76,20>>), P(24,12691,12704), X(<<21,42,45,32,82,31>>),
    P(1,12636,12648), X(<<56>>), C, K(30,13,620808)>>)

Test093 == FlattenSeq(<<
    F(15,<<2490,2525,2620>>), P(7,12938,12952), P(3,12490,12504), F(3,<<2611,2646,2581>>),
    P(0,12236,12248), F(78,<<2382,2639,2148>>), P(28,12872,12880), F(72,<<2422,2234,2485>>),
    P(4,12904,12912), F(21,<<2507,2436,2455>>), F(57,<<2105,2479,2104>>), P(12,12193,12208),
    F(42,<<2226,2396,2653>>), P(17,12552,12560), F(33,<<2258,2274,2402>>), P(8,12541,12552),
    F(45,<<2691,2634,2172>>), F(24,<<2052,2324,2489>>), F(48,<<2385,2156,2553>>),
    F(63,<<2242,2655,2602>>), F(69,<<2237,2443,2455>>), P(22,12074,12088), F(75,<<2137,2319,2243>>),
    F(84,<<2144,2080,2333>>), P(5,12887,12896), P(27,12342,12352), F(54,<<2478,2329,2260>>),
    P(19,12544,12552), F(6,<<2243,2095,2475>>), P(26,12366,12376), F(9,<<2177,2588,2070>>),
    P(14,12133,12144), F(27,<<2051,2074,2481>>), F(0,<<2605,2115,2282>>), F(12,<<2469,2315,2289>>),
    F(60,<<2463,2577,2664>>), F(81,<<2319,2667,2118>>), F(30,<<2161,2345,2313>>),
    F(36,<<2423,2493,2292,2691,2259,2425>>), F(18,<<2681,2275,2087>>), P(13,12864,12872),
    F(51,<<2631,2065,2307>>), F(66,<<2370,2335,2138>>), X(<<6,79,11,63,32,38,5,7>>),
    P(16,12364,12376), X(<<21>>), P(15,12410,12424), X(<<84,9,15,17,55>>), P(6,12432,12440), X(<<73,
    65,40,51,28,71,42,24,59,76,83,0,25>>), P(11,12257,12272), X(<<86,82,4,36,77,60,44,23,22,81,33,
    74,52,53,46,80,47>>), P(9,12657,12672), X(<<70,31,69,50,16,1,45,54,61,68,48>>),
    P(2,12206,12216), X(<<35,39>>), P(20,12768,12776), P(10,12509,12520), X(<<14,67,58,27,8,57,3>>),
    P(24,12567,12576), P(25,12925,12936), X(<<18,34,64,30,26,2,43>>), P(18,12761,12776), X(<<75,12,
    66,78,37,20,41,13,49>>), P(21,12261,12272), X(<<56,72,19>>), P(23,12438,12448), X(<<10>>),
    P(1,12301,12312), X(<<85,29,62>>), C, K(29,14,600680)>>)

Test094 == FlattenSeq(<<
    F(69,<<2076,2180,2232>>), F(48,<<2577,2182,2401>>), F(15,<<2482,2509,2480>>),
    F(27,<<2087,2244,2573>>), P(9,12978,12992), P(26,12103,12112), P(5,12648,12656),
    P(19,12617,12632), F(60,<<2358,2625,2554>>), F(0,<<2608,2591,2633>>), F(63,<<2338,2671,2122>>),
    F(51,<<2280,2064,2050>>), F(39,<<2102,2080,2598>>), F(18,<<2116,2660,2304>>),
    F(45,<<2067,2149,2421>>), F(54,<<2118,2555,2216>>), P(23,12567,12576), F(84,<<2385,2392,2616>>),
    F(6,<<2506,2050,2309>>), F(12,<<2246,2132,2362>>), P(12,12786,12800), F(21,<<2203,2442,2152>>),
    F(72,<<2351,2384,2656>>), F(57,<<2624,2635,2153>>), F(30,<<2526,2568,2559>>),
    F(3,<<2099,2284,2333>>), P(25,12254,12264), F(66,<<2626,2255,2308>>), F(24,<<2683,2340,2449>>),
    F(33,<<2415,2101,2217>>), P(11,12282,12296), P(27,12943,12952), P(17,12385,12400),
    F(78,<<2316,2311,2072>>), P(29,12488,12496), P(8,12590,12600), F(75,<<2506,2674,2161>>),
    F(81,<<2598,2117,2441>>), F(9,<<2659,2537,2417>>), F(36,<<2084,2419,2074>>),
    F(87,<<2486,2437,2566>>), F(42,<<2399,2078,2423>>), P(7,12779,12792), X(<<30,36,27,2,87,66,60,
    26>>), P(0,12589,12600), X(<<39,70,14,13,52,57,46,19,71,58,41>>), P(16,12117,12128), X(<<31>>),
    P(20,12441,12456), X(<<24>>), P(22,12323,12336), X(<<5,28,10,76>>), P(21,12910,12920),
    X(<<67,12,16,72>>), P(13,12801,12816), X(<<61,50>>), P(6,12361,12376), X(<<65,20,48,56,40,89,
    9>>), P(24,12320,12328), X(<<85,0,62,49,47,38,25,75>>), P(18,12194,12208), X(<<79,21,74,35,37,
    34,42>>), P(10,12118,12128), P(3,12755,12768), X(<<32,29,8>>), P(28,12601,12616), X(<<45,15>>),
    P(2,12215,12224), X(<<80,69,6,86,59,18,11,44,88,84,53,83,7>>), P(14,12110,12120),
    P(15,12675,12688), X(<<33,22,17,64,54,73>>), P(4,12769,12784), X(<<55,78,82,3,23,4,1>>),
    P(1,12278,12288), X(<<43,81,77,68,63,51>>), C, K(30,7,621112)>>)

Test095 == FlattenSeq(<<
    P(19,12329,12344), F(18,<<2360,2621,2693>>), F(57,<<2696,2250,2542>>), F(87,<<2524,2386,2578>>),
    F(12,<<2212,2055,2158>>), P(15,12484,12496), F(51,<<2062,2266,2294,2336,2378,2508>>),
    F(66,<<2122,2638,2186>>), F(81,<<2238,2441,2659>>), F(45,<<2109,2139,2691>>), P(28,12142,12152),
    F(72,<<2410,2659,2099,2275,2240,2241>>), F(3,<<2150,2137,2208>>), F(9,<<2693,2446,2303>>),
    F(84,<<2211,2098,2480>>), F(39,<<2674,2557,2100>>), F(48,<<2462,2321,2232>>), P(7,12523,12536),
    P(10,12923,12936), P(6,12325,12336), P(9,12138,12152), P(12,12935,12944),
    F(36,<<2205,2155,2194>>), P(0,12442,12456), P(22,12448,12456), F(69,<<2217,2691,2471>>),
    F(30,<<2291,2697,2453>>), P(2,12220,12232), F(6,<<2063,2162,2279>>), F(42,<<2075,2439,2604>>),
    F(21,<<2087,2111,2060,2536,2265,2598>>), F(15,<<2463,2454,2598>>), P(27,12743,12752),
    F(60,<<2248,2281,2694>>), F(27,<<2419,2450,2187>>), F(33,<<2483,2599,2513>>), P(17,12802,12816),
    F(63,<<2181,2058,2551>>), P(20,12925,12936), P(29,12552,12560), P(5,12353,12368),
    F(78,<<2154,2068,2437>>), F(0,<<2205,2422,2598>>), X(<<73,39,83>>), P(8,12938,12952), X(<<70,77,
    21,61,36,44,75>>), P(25,12094,12104), X(<<64,15,58,40,3,45,82,54,43,56,5,29,66,17,81>>),
    P(16,12994,13008), P(24,12845,12856), X(<<89,31,37,13,62,26,60>>), P(3,12564,12576),
    X(<<55,4>>), P(14,12275,12288), P(18,12086,12096), X(<<41,87,49,80,74,42,71,52,27,32,46>>),
    P(11,12619,12632), X(<<22,14,79,38,53,12,18,63>>), P(13,12946,12960), X(<<84,50,48>>),
    P(23,12632,12640), X(<<9>>), P(4,12525,12536), X(<<23,67,24,69,59,51,76,78,30,19,47,7,35,57,33,
    25,88,28,0,20,8>>), P(1,12590,12600), X(<<10,11>>), P(26,12972,12984), X(<<6,72,16,1,68,65,
    34>>), P(21,12087,12096), X(<<85,86,2>>), C, K(30,9,622560)>>)

Test096 == FlattenSeq(<<
    P(0,12294,12304), F(33,<<2448,2158,2678>>), F(21,<<2429,2617,2446>>), F(60,<<2588,2187,2326>>),
    P(11,12955,12968), F(3,<<2637,2084,2669>>), F(39,<<2385,2251,2251>>), F(63,<<2092,2331,2139>>),
    F(0,<<2252,2564,2099>>), F(15,<<2398,2065,2604>>), P(15,12292,12304), F(48,<<2461,2060,2191>>),
    F(81,<<2116,2228,2239>>), F(27,<<2657,2452,2584>>), F(54,<<2198,2151,2363>>),
    F(51,<<2469,2539,2326>>), F(57,<<2516,2280,2377>>), F(69,<<2553,2057,2447>>),
    F(78,<<2474,2153,2586>>), P(12,12731,12744), F(18,<<2583,2431,2128>>), F(87,<<2334,2591,2352>>),
    P(30,12853,12864), F(90,<<2243,2060,2197>>), F(12,<<2627,2607,2631>>), F(75,<<2457,2322,2575>>),
    P(21,12911,12920), F(84,<<2453,2345,2675>>), F(42,<<2151,2134,2200>>), P(20,12762,12776),
    F(72,<<2283,2193,2081>>), F(9,<<2354,2192,2109>>), F(66,<<2370,2063,2358>>), P(9,12299,12312),
    F(24,<<2189,2096,2606>>), F(30,<<2175,2348,2631>>), P(14,12087,12096), P(23,12696,12704),
    F(6,<<2275,2250,2624>>), F(45,<<2128,2310,2538>>), P(27,12544,12552), F(36,<<2544,2317,2410>>),
    X(<<0,36,66>>), P(28,12682,12696), X(<<53>>), P(3,12372,12384), X(<<62,46,34>>),
    P(24,12721,12736), X(<<88,57>>), P(17,12218,12232), X(<<29,76,10>>), P(29,12969,12984),
    X(<<61,79>>), P(18,12627,12640), X(<<21,83,24,7,4,72,68>>), P(8,12639,12648),
    X(<<56,75,65,14,82>>), P(16,12870,12880), X(<<73,17,52,48,85,8,31,30,2,19,18>>),
    P(10,12727,12736), X(<<50,42,33,63,71,22>>), P(4,12634,12648), X(<<81,43,12,23,27,44,25,90,78,9,
    32,86,20,5,40,77,15>>), P(25,12935,12944), X(<<84,74,38>>), P(2,12576,12584), X(<<64>>),
    P(6,12290,12304), X(<<37,16>>), P(26,12840,12848), X(<<70,26,11,92,59,60,58,41,3,51,89,54,45,
    35>>), P(5,12057,12072), P(19,12690,12704), X(<<6>>), P(13,12738,12752), X(<<80,28>>),
    P(1,12255,12264), X(<<39,13>>), P(22,12572,12584), X(<<49>>), P(7,12620,12632), X(<<69,1,87,67,
    91,47,55>>), C, K(31,10,644768)>>)

Test097 == FlattenSeq(<<
    P(25,12423,12432), F(84,<<2159,2209,2530>>), P(13,12531,12544), F(18,<<2546,2168,2415>>),
    P(23,12761,12776), F(6,<<2387,2218,2271>>), F(45,<<2116,2580,2260>>), F(69,<<2416,2296,2464>>),
    F(39,<<2212,2401,2069>>), F(12,<<2548,2405,2697>>), F(54,<<2671,2443,2526>>),
    F(33,<<2296,2454,2477>>), F(24,<<2116,2245,2347,2213,2066,2199>>), F(48,<<2600,2539,2631>>),
    F(42,<<2514,2313,2672>>), P(10,12532,12544), F(15,<<2343,2183,2153>>), F(72,<<2558,2286,2430>>),
    F(81,<<2440,2446,2307>>), P(14,12252,12264), P(20,12246,12256), F(3,<<2490,2609,2449>>),
    F(87,<<2283,2603,2347>>), F(63,<<2127,2112,2637>>), F(75,<<2673,2400,2433>>), P(2,12581,12592),
    P(5,12114,12128), P(12,12528,12536), F(21,<<2098,2525,2339>>), F(90,<<2143,2092,2172>>),
    F(0,<<2081,2529,2208>>), P(6,12902,12912), F(57,<<2131,2669,2174,2242,2329,2494>>),
    P(3,12829,12840), P(15,12749,12760), F(66,<<2105,2591,2080>>), F(78,<<2231,2518,2238>>),
    F(51,<<2673,2133,2646>>), F(30,<<2304,2242,2439>>), F(36,<<2282,2437,2093>>), P(11,12292,12304),
    P(24,12598,12608), F(9,<<2263,2078,2178>>), P(27,12344,12352), P(18,12519,12528), X(<<18,67,92,
    65,51,57,16,0,45,52,87,27,23,11,9,84,3>>), P(9,12459,12472), X(<<4,49,15,56,64,73,32,31,76>>),
    P(22,12697,12712), X(<<54,22,44,48>>), P(4,12742,12752), X(<<47>>), P(29,12385,12400),
    X(<<13>>), P(17,12635,12648), X(<<26,5,10,34,20>>), P(16,12747,12760), X(<<72>>),
    P(21,12736,12744), X(<<46,66>>), P(8,12339,12352), X(<<50,30,60,38>>), P(26,12357,12368),
    P(7,12364,12376), X(<<14,29>>), P(30,12650,12664), X(<<53,35,77,7,28>>), P(0,12795,12808),
    X(<<82,78,71,89,83,24,74,80>>), P(19,12402,12416), X(<<39,85,12,42,41,75,37,62,68,25,40,8,63,2,
    58>>), P(28,12871,12880), X(<<36,81,59,86,55,6,91,43>>), P(1,12567,12576), X(<<21,19,33,17,79,
    69,1,70,88,90,61>>), C, K(31,9,643256)>>)

Test098 == FlattenSeq(<<
    F(45,<<2487,2549,2260>>), P(21,12560,12568), F(6,<<2477,2252,2620>>), F(3,<<2371,2469,2250>>),
    F(57,<<2429,2192,2162>>), F(36,<<2157,2582,2524>>), F(9,<<2635,2392,2620>>),
    F(21,<<2576,2083,2424>>), F(39,<<2054,2109,2578>>), F(69,<<2296,2388,2056>>), P(20,12083,12096),
    P(13,12675,12688), F(63,<<2109,2343,2487>>), F(51,<<2659,2363,2122>>), F(0,<<2193,2609,2498>>),
    F(78,<<2135,2488,2523>>), F(18,<<2668,2285,2176>>), P(25,12264,12272), F(75,<<2288,2468,2360>>),
    F(48,<<2163,2158,2454>>), P(3,12637,12648), P(22,12821,12832), F(12,<<2441,2697,2178>>),
    F(72,<<2667,2251,2369>>), F(42,<<2253,2274,2407>>), F(15,<<2634,2281,2097>>), P(12,12676,12688),
    F(24,<<2077,2694,2611>>), F(30,<<2063,2225,2352>>), P(24,12474,12488), P(18,12412,12424),
    F(66,<<2206,2072,2363>>), F(60,<<2375,2576,2356>>), F(54,<<2059,2679,2077>>),
    F(33,<<2050,2426,2499>>), P(7,12461,12472), F(27,<<2393,2218,2232>>), P(0,12647,12656),
    X(<<14,26,48,68,18>>), P(4,12499,12512), X(<<11,72,17,28,76,37,3>>), P(15,12557,12568),
    P(26,12225,12240), X(<<16,63,74>>), P(10,12688,12696), X(<<7,1,5,79,36,54,25>>),
    P(23,12825,12840), X(<<9,30,10,43>>), P(5,12818,12832), P(19,12763,12776), X(<<67>>),
    P(16,12623,12632), X(<<41,38,78>>), P(17,12051,12064), P(9,12620,12632), X(<<70,52,0,75,57>>),
    P(8,12688,12696), X(<<27>>), P(2,12585,12600), X(<<69,15,65,4,46,29>>), P(11,12980,12992),
    X(<<64,47,44,22,55,40,61,53,20,73,2,35,59,8,56,62,21>>), P(1,12232,12240), X(<<58>>),
    P(6,12867,12880), X(<<60,6,80,77,13,49,32,12,31,42,51,50,24>>), P(14,12064,12072), X(<<66,34,71,
    39,19,45,33,23>>), C, K(27,8,560288)>>)

Test099 == FlattenSeq(<<
    P(30,12039,12048), F(81,<<2114,2450,2509>>), F(66,<<2604,2223,2546>>), P(6,12796,12808),
    P(3,12902,12912), F(63,<<2232,2103,2181>>), F(21,<<2401,2249,2668>>), P(9,12941,12952),
    F(72,<<2081,2567,2173>>), F(54,<<2138,2673,2369>>), F(75,<<2673,2640,2655>>),
    F(3,<<2693,2236,2447>>), F(33,<<2492,2692,2522>>), F(57,<<2276,2534,2209>>), P(24,12875,12888),
    P(18,12845,12856), F(87,<<2130,2641,2332>>), F(24,<<2541,2690,2218,2183,2210,2340>>),
    F(0,<<2220,2426,2531>>), F(48,<<2367,2674,2649>>), F(60,<<2510,2103,2346>>),
    F(9,<<2640,2390,2381>>), P(26,12962,12976), F(18,<<2431,2683,2622>>), P(4,12716,12728),
    F(36,<<2146,2151,2444>>), P(12,12621,12632), F(12,<<2315,2449,2245>>), F(39,<<2343,2207,2175>>),
    P(13,12612,12624), F(78,<<2152,2315,2496>>), F(6,<<2075,2128,2512>>), F(45,<<2084,2090,2076>>),
    F(90,<<2497,2188,2095>>), F(51,<<2631,2217,2314>>), F(69,<<2651,2357,2517>>),
    F(42,<<2299,2204,2146>>), F(30,<<2687,2578,2515>>), F(15,<<2174,2535,2096>>), P(19,12836,12848),
    P(5,12227,12240), F(84,<<2575,2453,2093>>), X(<<9,64,15,8>>), P(14,12393,12408), X(<<45,75>>),
    P(10,12297,12312), X(<<92,48,67,4>>), P(11,12653,12664), X(<<47,56,79,34,55>>),
    P(27,12394,12408), X(<<32>>), P(22,12718,12728), X(<<33,12,77,26,0,82,46,68,40,16,19,91,90,
    50>>), P(25,12945,12960), X(<<7,29,25,3,42,28,52,66>>), P(21,12209,12224), X(<<65,88,11,60,87,
    76,41,74,13,86>>), P(16,12376,12384), X(<<78,61,44>>), P(2,12946,12960), X(<<83,35,24,22,17,30,
    54,85,62,53,81,70,5,63,69,80,71>>), P(29,12283,12296), P(1,12209,12224), X(<<1>>),
    P(23,12954,12968), P(20,12404,12416), X(<<58,20,31>>), P(17,12884,12896), P(15,12174,12184),
    P(7,12950,12960), X(<<84,89,18,39,6,73,21,72,37,38>>), P(8,12089,12104), P(0,12000,12008),
    P(28,12140,12152), X(<<43,10,2,57,27,49,51,36,14,59,23>>), C, K(31,9,643720)>>)

Test100 == FlattenSeq(<<
    P(10,12102,12112), F(6,<<2187,2098,2159>>), P(17,12301,12312), F(78,<<2559,2682,2150>>),
    F(45,<<2072,2358,2448>>), P(8,12437,12448), F(66,<<2337,2099,2266>>), P(21,12386,12400),
    F(60,<<2164,2245,2514>>), P(15,12983,12992), F(18,<<2392,2422,2257>>), F(75,<<2239,2070,2513>>),
    F(51,<<2185,2463,2636>>), F(27,<<2389,2476,2603>>), F(63,<<2267,2532,2679>>), P(24,12752,12760),
    F(48,<<2508,2503,2437>>), F(12,<<2236,2247,2311>>), P(18,12385,12400), F(84,<<2279,2317,2598>>),
    P(26,12479,12488), F(87,<<2079,2653,2327>>), F(33,<<2340,2338,2321>>), F(42,<<2660,2383,2618>>),
    P(9,12101,12112), F(69,<<2514,2596,2534>>), P(4,12472,12480), P(2,12951,12960),
    P(22,12843,12856), P(14,12206,12216), F(21,<<2070,2157,2561>>), F(39,<<2170,2357,2643>>),
    F(3,<<2546,2111,2229>>), F(57,<<2541,2273,2656>>), F(36,<<2534,2271,2129>>), P(28,12681,12696),
    P(19,12548,12560), F(0,<<2049,2393,2640>>), P(12,12418,12432), F(9,<<2549,2276,2448>>),
    F(72,<<2356,2660,2522>>), F(15,<<2119,2653,2293>>), F(24,<<2466,2187,2609>>), P(30,12836,12848),
    F(81,<<2436,2668,2575>>), F(90,<<2397,2220,2070>>), F(30,<<2166,2472,2323>>),
    F(54,<<2611,2315,2534>>), P(13,12405,12416), X(<<55>>), P(23,12019,12032), X(<<63,48,28,4,59,72,
    53,54,56,67,60>>), P(6,12760,12768), X(<<77,10,14,17,91,52,35,65,49>>), P(27,12194,12208),
    X(<<88,44,51,43,62,0>>), P(7,12046,12056), X(<<2,45,47,50,22,61>>), P(0,12853,12864), X(<<12,80,
    41,84,92,8,74,34,5,18,40,82,75,78>>), P(20,12240,12248), X(<<21,76>>), P(16,12901,12912),
    X(<<46,87,27,25,39,23,64,9,15,89,69,20,42,33,7,30,29,31,36,1,38>>), P(1,12521,12536),
    X(<<16,86,73>>), P(5,12932,12944), X(<<66,71,90>>), P(3,12711,12720), P(11,12990,13000),
    X(<<3>>), P(25,12433,12448), X(<<19,68,58,26,13,83>>), P(29,12347,12360), X(<<32,6,11,79,24,57,
    70,85,81,37>>), C, K(31,13,642536)>>)

ManyPagesTests == <<
    Test031, Test032, Test033, Test034, Test035, Test036, Test037, Test038, Test039, Test040,
    Test061, Test062, Test063, Test064, Test065, Test066, Test067, Test068, Test069, Test070,
    Test071, Test072, Test073, Test074, Test075, Test076, Test077, Test078, Test079, Test080,
    Test081, Test082, Test083, Test084, Test085, Test086, Test087, Test088, Test089, Test090,
    Test091, Test092, Test093, Test094, Test095, Test096, Test097, Test098, Test099, Test100>>
==============================================================================
