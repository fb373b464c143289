---------------------------- MODULE OnePageTests -----------------------------
(* Lab-7-Malloc/Gradescript-Examples/001.c - 030.c and 041.c - 060.c: the     *)
(* calls that main() of each makes, in order.  All their blocks are in one   *)
(* page.  The notation is that of TestCalls.                                 *)
EXTENDS TestCalls

Test001 == FlattenSeq(<<
    P(0,64,72), K(1,1,8192)>>)

Test002 == FlattenSeq(<<
    P(0,23,32), P(1,101,112), K(2,1,8192)>>)

Test003 == FlattenSeq(<<
    P(0,23,32), P(1,101,0), XP(1), P(1,108,120), K(2,2,8192)>>)

Test004 == FlattenSeq(<<
    P(0,23,32), P(1,8145,8160), K(2,0,8192)>>)

Test005 == FlattenSeq(<<
    P(1,23,32), P(0,8145,8160), XP(1), K(1,1,8192)>>)

Test006 == FlattenSeq(<<
    P(1,23,32), P(0,8145,8160), XP(1), XP(0), K(0,2,8192)>>)

Test007 == FlattenSeq(<<
    For(0,7,LAMBDA i: P(i,1010,1024)), K(8,0,8192)>>)

Test008 == FlattenSeq(<<
    For(0, 3, LAMBDA i: P(i,1010,1024) \o F(i,<<1009>>)),
    For(0, 3, LAMBDA i: X(<<i>>) \o P(i + 4,1010,1024)),
    K(8,0,8192)>>)

Test009 == FlattenSeq(<<
    For(0, 3, LAMBDA i: P(i,1010,1024) \o F(i,<<1009>>)),
    For(0, 3, LAMBDA i: X(<<i>>) \o P(i + 4,1010,1024)),
    XP(0), P(0,1234,1248), K(8,2,16384)>>)

Test010 == FlattenSeq(<<
    For(0, 7, LAMBDA i: P(i, 1000 + i * 16 + (i % 7) + 1, 1000 + i * 16 + 16)), K(8,2,16384)>>)

Test011 == FlattenSeq(<<
    For(0, 5, LAMBDA i: (IF i > 0 THEN X(<<i - 1>>) ELSE <<>>)
                     \o P(i, 1000 + i * 16 + (i % 7) + 1, 1000 + i * 16 + 16)
                     \o F(i, <<1000 + i * 16 + (i % 7) + 1>>)),
    X(<<5>>), K(6,8,16384)>>)

Test012 == FlattenSeq(<<
    P(6,129,144), P(17,136,144), F(2,<<150,131>>), F(5,<<128>>), F(0,<<125>>), F(11,<<117>>),
    F(8,<<125>>), F(16,<<114>>), P(2,117,128), F(13,<<138>>), P(4,122,136), F(4,<<134>>),
    F(1,<<116>>), P(5,136,144), F(10,<<147>>), F(7,<<148>>), F(6,<<128>>), P(0,151,160),
    P(7,116,128), F(14,<<132>>), P(1,128,136), P(10,121,136), P(14,126,136), F(15,<<141>>),
    P(16,129,144), P(8,118,128), P(15,142,152), P(11,142,152), P(12,139,152), P(13,142,152),
    P(3,148,160), P(9,128,136), F(17,<<113>>), F(9,<<124>>), F(12,<<144>>), X(<<3,17,10,15,9,16,13,
    7,11,6,14,5,0,2,12,4,8,1>>), P(23,81,96), P(19,88,96), P(25,83,96), P(31,78,88), P(18,84,96),
    P(30,95,104), P(38,73,88), P(24,78,88), P(33,90,104), P(39,93,104), P(34,90,104), P(22,90,104),
    P(21,79,88), P(26,87,96), P(43,95,104), P(44,82,96), P(42,85,96), P(37,89,104), P(36,79,88),
    P(41,81,96), P(40,75,88), P(27,94,104), P(28,73,88), P(29,85,96), P(35,84,96), P(20,74,88),
    P(32,77,88), K(45,19,8192)>>)

Test013 == FlattenSeq(<<
    F(9,<<136>>), P(10,131,144), F(2,<<147>>), F(4,<<129>>), P(11,130,144), F(8,<<113>>),
    F(0,<<116>>), P(17,148,160), P(0,147,160), P(7,132,144), F(11,<<117>>), P(4,125,136),
    F(1,<<131>>), P(14,138,152), F(6,<<145>>), F(13,<<138>>), F(12,<<118>>), F(14,<<125>>),
    F(17,<<143>>), F(3,<<139>>), P(1,119,128), P(6,114,128), P(16,121,136), F(7,<<139>>),
    P(3,125,136), P(8,138,152), F(16,<<124>>), P(12,121,136), F(10,<<114>>), P(5,117,128),
    F(5,<<140>>), P(2,125,136), P(13,130,144), P(15,151,160), F(15,<<118>>), P(9,128,136), X(<<8,6,
    3,17,12,10,2,11,1,0,9,5,4,15,7,13,14,16>>), P(38,83,96), P(26,83,96), P(34,74,88), P(20,78,88),
    P(24,78,88), P(43,76,88), P(37,94,104), P(41,92,104), P(32,95,104), P(30,85,96), P(39,80,88),
    P(18,93,104), P(21,90,104), P(29,88,96), P(19,86,96), P(33,88,96), P(40,80,88), P(27,85,96),
    P(42,91,104), P(28,80,88), P(36,88,96), P(31,85,96), P(23,93,104), P(44,87,96), P(25,81,96),
    P(35,80,88), P(22,74,88), K(45,19,8192)>>)

Test014 == FlattenSeq(<<
    F(7,<<124>>), F(11,<<122>>), P(13,133,144), F(3,<<151>>), F(9,<<133>>), P(4,143,152),
    F(8,<<139>>), F(5,<<115>>), P(15,129,144), F(14,<<143>>), P(9,129,144), F(1,<<132>>),
    F(6,<<118>>), P(3,134,144), F(13,<<129>>), P(1,124,136), F(12,<<136>>), F(15,<<148>>),
    P(5,145,160), P(0,149,160), F(0,<<121>>), P(7,115,128), P(6,135,144), F(4,<<120>>),
    P(12,151,160), P(11,144,152), P(2,123,136), F(10,<<138>>), P(14,133,144), P(8,151,160),
    P(10,133,144), F(2,<<149>>), X(<<6,10,2,9,1,15,14,7,4,0,12,8,5,3,13,11>>), P(38,85,96),
    P(26,87,96), P(35,78,88), P(29,74,88), P(28,82,96), P(30,95,104), P(24,73,88), P(22,89,104),
    P(37,87,96), P(31,76,88), P(23,93,104), P(18,87,96), P(16,78,88), P(34,81,96), P(33,87,96),
    P(39,90,104), P(17,82,96), P(21,75,88), P(20,93,104), P(32,78,88), P(19,88,96), P(27,73,88),
    P(25,95,104), P(36,89,104), K(40,17,8192)>>)

Test015 == FlattenSeq(<<
    P(5,125,136), P(8,133,144), P(4,147,160), F(17,<<136>>), F(4,<<151>>), F(6,<<127>>),
    F(9,<<135>>), P(11,131,144), F(15,<<131>>), P(13,120,128), F(16,<<150>>), P(6,121,136),
    P(3,149,160), P(2,141,152), F(7,<<125>>), F(14,<<113>>), P(15,148,160), P(10,114,128),
    P(0,144,152), P(17,115,128), P(7,132,144), P(1,116,128), P(9,130,144), F(11,<<130>>),
    F(3,<<122>>), F(13,<<119>>), P(14,116,128), F(5,<<135>>), F(2,<<118>>), P(16,140,152),
    F(8,<<125>>), F(12,<<116>>), P(12,132,144), F(0,<<141>>), F(10,<<141>>), F(1,<<117>>), X(<<9,17,
    6,1,10,3,16,12,15,14,8,4,0,7,11,5,2,13>>), P(43,74,88), P(27,85,96), P(35,82,96), P(31,87,96),
    P(40,74,88), P(33,86,96), P(28,88,96), P(21,91,104), P(38,77,88), P(44,94,104), P(41,75,88),
    P(37,76,88), P(32,89,104), P(22,86,96), P(26,92,104), P(29,82,96), P(39,85,96), P(23,75,88),
    P(25,79,88), P(20,75,88), P(19,88,96), P(36,77,88), P(30,82,96), P(24,91,104), P(42,88,96),
    P(34,93,104), P(18,77,88), K(45,19,8192)>>)

Test016 == FlattenSeq(<<
    F(6,<<144>>), P(8,125,136), F(9,<<147>>), F(12,<<129>>), P(0,151,160), P(3,115,128),
    P(7,148,160), F(10,<<147>>), F(5,<<147>>), F(14,<<117>>), P(13,136,144), P(5,145,160),
    P(14,128,136), P(1,118,128), P(17,127,136), P(11,119,128), F(7,<<116>>), F(2,<<143>>),
    P(15,118,128), F(17,<<138>>), F(15,<<147>>), F(8,<<113>>), F(11,<<141>>), F(13,<<119>>),
    P(9,130,144), F(4,<<146>>), P(16,121,136), F(16,<<121>>), F(0,<<143>>), P(2,149,160),
    P(6,145,160), P(12,142,152), P(10,135,144), F(1,<<132>>), F(3,<<130>>), P(4,122,136), X(<<7,17,
    13,10,9,3,4,0,16,6,14,8,2,5,11,1,12,15>>), P(41,86,96), P(38,93,104), P(26,94,104), P(37,75,88),
    P(40,73,88), P(28,95,104), P(35,84,96), P(19,86,96), P(18,86,96), P(21,79,88), P(29,91,104),
    P(25,77,88), P(23,81,96), P(33,84,96), P(44,76,88), P(31,94,104), P(34,77,88), P(43,78,88),
    P(24,85,96), P(39,78,88), P(32,84,96), P(36,92,104), P(42,94,104), P(27,82,96), P(20,79,88),
    P(30,95,104), P(22,93,104), K(45,19,8192)>>)

Test017 == FlattenSeq(<<
    P(3,119,128), F(4,<<139>>), P(8,146,160), P(2,128,136), F(0,<<116>>), P(6,131,144),
    F(3,<<123>>), P(1,149,160), F(7,<<138,135>>), F(5,<<126,140>>), F(9,<<148>>), P(5,125,136),
    P(4,126,136), P(9,120,128), F(2,<<123>>), F(1,<<134>>), P(0,146,160), P(7,115,128), X(<<4,0,2,3,
    8,5,1,6,7,9>>), P(20,83,96), P(12,88,96), P(17,79,88), P(19,73,88), P(24,78,88), P(11,93,104),
    P(15,87,96), P(13,77,88), P(14,81,96), P(21,89,104), P(16,87,96), P(22,89,104), P(10,92,104),
    P(23,74,88), P(18,88,96), K(25,11,8192)>>)

Test018 == FlattenSeq(<<
    P(5,134,144), F(1,<<122>>), P(8,127,136), P(1,151,160), F(3,<<139>>), F(8,<<137>>),
    P(0,142,152), P(7,131,144), F(9,<<113>>), F(7,<<150>>), P(4,129,144), F(0,<<137>>),
    P(2,147,160), F(6,<<121>>), F(2,<<144>>), F(5,<<135>>), P(3,135,144), P(6,127,136),
    F(4,<<123>>), P(9,120,128), X(<<5,8,2,1,7,3,0,6,9,4>>), P(10,91,104), P(15,73,88), P(22,75,88),
    P(17,86,96), P(12,78,88), P(11,76,88), P(18,92,104), P(21,76,88), P(20,95,104), P(24,80,88),
    P(14,83,96), P(16,92,104), P(19,78,88), P(23,92,104), P(13,80,88), K(25,11,8192)>>)

Test019 == FlattenSeq(<<
    P(5,134,144), P(6,137,152), F(8,<<150>>), P(0,144,152), P(7,114,128), F(3,<<124>>),
    F(9,<<149>>), P(9,121,136), F(10,<<135>>), P(1,145,160), F(6,<<131>>), P(8,140,152),
    F(7,<<133>>), F(2,<<146>>), P(4,147,160), P(3,116,128), P(10,139,152), F(11,<<115>>),
    P(2,145,160), F(1,<<142>>), F(4,<<121,134>>), F(0,<<135>>), P(11,136,144), X(<<5,2,7,4,10,3,6,0,
    9,1,8,11>>), P(25,86,96), P(18,95,104), P(23,93,104), P(14,82,96), P(26,81,96), P(22,83,96),
    P(15,82,96), P(21,73,88), P(19,75,88), P(29,86,96), P(17,89,104), P(28,86,96), P(16,83,96),
    P(24,73,88), P(12,90,104), P(13,95,104), P(20,83,96), P(27,79,88), K(30,13,8192)>>)

Test020 == FlattenSeq(<<
    F(0,<<120>>), F(4,<<129>>), P(2,113,128), F(1,<<123>>), F(8,<<123,149>>), P(5,114,128),
    P(1,137,152), F(5,<<132>>), P(4,151,160), P(9,122,136), P(3,120,128), P(8,122,136),
    P(6,123,136), P(0,139,152), F(6,<<151>>), P(7,131,144), F(3,<<129>>), F(2,<<116>>),
    F(7,<<145>>), X(<<5,7,8,0,9,3,4,2,6,1>>), P(13,93,104), P(17,88,96), P(20,94,104), P(19,89,104),
    P(15,75,88), P(12,73,88), P(24,76,88), P(18,85,96), P(10,73,88), P(21,81,96), P(22,83,96),
    P(23,79,88), P(16,93,104), P(11,74,88), P(14,80,88), K(25,11,8192)>>)

Test021 == FlattenSeq(<<
    F(3,<<117,141>>), F(7,<<118>>), P(6,147,160), F(9,<<114>>), F(8,<<114>>), P(4,126,136),
    P(1,139,152), P(3,125,136), P(0,135,144), F(5,<<141>>), F(0,<<130>>), P(7,136,144),
    P(8,114,128), P(9,122,136), F(1,<<139>>), P(2,132,144), P(5,134,144), F(6,<<132>>),
    F(2,<<126>>), X(<<8,0,9,4,5,1,2,7,3,6>>), P(16,75,88), P(17,78,88), P(14,82,96), P(22,92,104),
    P(12,86,96), P(13,73,88), P(21,91,104), P(20,83,96), P(15,84,96), P(19,94,104), P(11,80,88),
    P(24,95,104), P(10,95,104), P(23,74,88), P(18,89,104), K(25,11,8192)>>)

Test022 == FlattenSeq(<<
    F(0,<<146>>), P(11,126,136), P(10,150,160), F(1,<<132>>), F(5,<<129>>), F(7,<<130>>),
    F(6,<<117>>), P(5,142,152), P(4,130,144), P(2,150,160), P(3,140,152), F(9,<<121>>),
    P(0,141,152), P(7,114,128), P(1,131,144), F(10,<<118,138>>), P(6,144,152), P(8,135,144),
    F(8,<<121>>), F(3,<<149>>), F(2,<<113>>), P(9,123,136), F(4,<<151>>), X(<<11,3,6,10,2,7,1,4,5,9,
    8,0>>), P(13,73,88), P(21,92,104), P(12,92,104), P(29,83,96), P(23,82,96), P(17,94,104),
    P(16,94,104), P(15,92,104), P(22,88,96), P(18,77,88), P(19,77,88), P(27,92,104), P(25,93,104),
    P(26,90,104), P(24,78,88), P(28,88,96), P(20,93,104), P(14,84,96), K(30,13,8192)>>)

Test023 == FlattenSeq(<<
    F(0,<<117>>), F(7,<<134>>), P(0,137,152), F(10,<<113>>), F(6,<<147>>), P(7,119,128),
    P(4,144,152), P(3,145,160), F(11,<<150>>), F(5,<<141>>), F(1,<<120>>), P(6,129,144),
    P(1,133,144), P(11,114,128), P(10,132,144), F(2,<<136>>), P(5,123,136), F(8,<<146,129>>),
    P(2,130,144), P(8,116,128), F(3,<<119,132>>), P(9,123,136), X(<<6,2,9,11,1,3,4,8,7,5,0,10>>),
    P(13,78,88), P(25,75,88), P(18,87,96), P(24,83,96), P(23,87,96), P(28,86,96), P(29,87,96),
    P(21,94,104), P(12,78,88), P(27,95,104), P(19,86,96), P(17,77,88), P(15,79,88), P(16,76,88),
    P(22,92,104), P(14,91,104), P(20,88,96), P(26,73,88), K(30,13,8192)>>)

Test024 == FlattenSeq(<<
    P(8,129,144), F(2,<<132>>), P(12,119,128), F(0,<<120>>), P(11,128,136), F(10,<<136>>),
    F(1,<<147>>), P(9,124,136), F(12,<<138>>), F(7,<<144>>), P(1,127,136), P(6,139,152),
    F(6,<<130>>), P(5,123,136), F(8,<<141,134>>), F(3,<<125>>), P(10,134,144), P(13,123,136),
    P(0,139,152), F(13,<<138>>), P(7,113,128), P(2,117,128), F(11,<<142>>), F(5,<<115>>),
    F(4,<<141>>), P(3,126,136), P(4,151,160), X(<<2,7,10,3,8,5,11,4,0,13,12,9,1,6>>), P(17,85,96),
    P(18,93,104), P(24,77,88), P(33,74,88), P(25,89,104), P(22,84,96), P(16,86,96), P(23,92,104),
    P(20,87,96), P(30,83,96), P(27,86,96), P(31,76,88), P(19,88,96), P(34,75,88), P(26,79,88),
    P(15,83,96), P(28,77,88), P(14,94,104), P(29,80,88), P(32,84,96), P(21,82,96), K(35,15,8192)>>)

Test025 == FlattenSeq(<<
    F(7,<<145>>), F(9,<<134>>), F(0,<<151>>), F(6,<<135>>), P(8,150,160), P(12,128,136),
    F(8,<<124>>), F(10,<<125>>), F(12,<<134>>), P(2,135,144), P(0,134,144), F(4,<<117>>),
    F(15,<<129>>), P(7,119,128), P(1,119,128), F(13,<<113>>), P(15,116,128), P(9,125,136),
    F(1,<<136>>), P(11,115,128), F(11,<<151>>), P(13,138,152), F(5,<<151>>), F(3,<<131>>),
    P(5,142,152), P(3,130,144), F(2,<<133>>), P(4,127,136), P(14,142,152), F(14,<<149>>),
    P(10,115,128), P(6,125,136), X(<<3,0,13,2,4,5,15,7,8,10,14,6,9,11,1,12>>), P(39,83,96),
    P(16,74,88), P(28,79,88), P(21,85,96), P(25,85,96), P(33,83,96), P(27,78,88), P(18,88,96),
    P(24,75,88), P(29,79,88), P(17,76,88), P(22,88,96), P(35,91,104), P(26,91,104), P(31,87,96),
    P(20,82,96), P(37,79,88), P(32,79,88), P(38,82,96), P(19,88,96), P(36,79,88), P(34,80,88),
    P(23,84,96), P(30,93,104), K(40,17,8192)>>)

Test026 == FlattenSeq(<<
    P(0,130,144), F(8,<<141>>), F(5,<<120>>), P(7,135,144), F(0,<<132>>), F(10,<<113>>),
    P(12,149,160), F(4,<<114>>), P(8,142,152), P(5,151,160), F(9,<<125>>), P(1,121,136),
    F(14,<<123,129>>), P(10,136,144), F(13,<<113>>), P(6,121,136), F(12,<<140>>), F(1,<<148>>),
    F(11,<<124>>), P(15,125,136), F(7,<<118>>), F(3,<<135>>), P(9,125,136), P(14,115,128),
    P(3,146,160), P(13,126,136), F(6,<<130>>), P(2,115,128), F(2,<<135>>), P(4,130,144),
    P(11,131,144), X(<<6,13,14,10,8,4,9,3,15,0,1,2,5,12,11,7>>), P(36,77,88), P(39,92,104),
    P(23,88,96), P(27,78,88), P(26,74,88), P(19,87,96), P(37,86,96), P(34,87,96), P(32,82,96),
    P(24,92,104), P(31,94,104), P(21,88,96), P(33,73,88), P(17,81,96), P(16,84,96), P(18,87,96),
    P(38,84,96), P(28,77,88), P(30,84,96), P(25,75,88), P(20,88,96), P(35,86,96), P(22,86,96),
    P(29,75,88), K(40,17,8192)>>)

Test027 == FlattenSeq(<<
    F(6,<<140>>), P(6,146,160), F(2,<<151>>), P(12,119,128), P(2,133,144), F(9,<<129>>),
    P(11,118,128), P(8,124,136), P(1,124,136), F(7,<<116,124>>), F(0,<<137>>), F(11,<<128>>),
    F(5,<<151>>), P(3,150,160), P(5,131,144), F(13,<<137>>), F(4,<<127>>), P(4,134,144),
    F(3,<<120>>), P(0,136,144), P(7,113,128), F(1,<<144>>), P(9,126,136), P(13,113,128),
    P(10,117,128), F(10,<<118>>), F(12,<<139>>), X(<<2,8,13,7,10,3,6,12,4,9,5,0,11,1>>),
    P(23,78,88), P(17,95,104), P(21,87,96), P(30,73,88), P(16,94,104), P(15,88,96), P(27,81,96),
    P(34,77,88), P(28,83,96), P(26,76,88), P(25,85,96), P(31,74,88), P(14,76,88), P(32,93,104),
    P(20,93,104), P(33,74,88), P(24,90,104), P(22,91,104), P(29,85,96), P(18,89,104), P(19,93,104),
    K(35,15,8192)>>)

Test028 == FlattenSeq(<<
    P(5,151,160), F(8,<<119>>), F(2,<<143>>), P(12,140,152), F(0,<<149>>), P(1,115,128),
    P(10,138,152), P(8,116,128), P(3,116,128), F(5,<<116>>), P(0,132,144), P(7,118,128),
    P(4,148,160), F(4,<<129>>), P(11,145,160), P(6,131,144), F(13,<<149>>), F(11,<<119>>),
    F(7,<<124>>), P(2,141,152), F(3,<<132>>), F(12,<<127>>), F(9,<<141,135>>), F(6,<<126>>),
    P(13,129,144), F(1,<<114>>), P(9,126,136), X(<<6,5,11,1,10,0,7,2,3,9,4,13,12,8>>), P(31,78,88),
    P(17,90,104), P(34,90,104), P(27,75,88), P(18,85,96), P(23,90,104), P(22,73,88), P(19,74,88),
    P(33,94,104), P(21,92,104), P(16,80,88), P(26,80,88), P(29,91,104), P(20,81,96), P(25,89,104),
    P(28,90,104), P(24,76,88), P(32,89,104), P(14,88,96), P(30,90,104), P(15,75,88), K(35,15,8192)>>)

Test029 == FlattenSeq(<<
    P(13,116,128), F(5,<<131>>), P(9,127,136), P(15,122,136), F(0,<<123>>), P(6,117,128),
    P(12,121,136), P(0,127,136), P(2,120,128), P(7,135,144), P(1,118,128), P(3,131,144),
    F(3,<<132>>), P(5,131,144), P(8,137,152), F(7,<<113>>), P(4,113,128), F(2,<<121>>),
    F(15,<<149>>), F(14,<<121>>), F(12,<<128>>), F(10,<<125,123>>), F(13,<<126>>), F(6,<<113>>),
    P(10,119,128), F(8,<<151>>), F(4,<<124>>), F(1,<<143>>), F(9,<<150>>), P(14,121,136),
    P(11,132,144), X(<<2,13,4,6,8,5,7,15,10,0,3,1,12,11,9,14>>), P(21,78,88), P(31,73,88),
    P(22,88,96), P(24,87,96), P(26,79,88), P(39,81,96), P(37,82,96), P(30,84,96), P(25,81,96),
    P(32,76,88), P(29,90,104), P(20,74,88), P(28,75,88), P(23,85,96), P(17,93,104), P(36,75,88),
    P(34,89,104), P(18,92,104), P(16,83,96), P(19,77,88), P(33,93,104), P(27,91,104), P(38,86,96),
    P(35,80,88), K(40,17,8192)>>)

Test030 == FlattenSeq(<<
    P(17,138,152), P(3,151,160), F(4,<<113>>), F(1,<<113>>), P(5,120,128), P(2,118,128),
    P(16,123,136), P(12,151,160), P(1,151,160), P(6,127,136), P(4,131,144), P(13,119,128),
    F(0,<<115>>), F(16,<<131>>), F(10,<<150>>), F(7,<<144>>), F(15,<<150>>), F(8,<<139>>),
    P(9,128,136), F(12,<<146>>), P(15,139,152), P(14,116,128), F(14,<<133>>), F(17,<<114>>),
    F(2,<<136>>), F(6,<<117>>), P(8,150,160), F(13,<<120>>), P(10,149,160), P(0,129,144),
    F(5,<<136>>), P(11,135,144), P(7,118,128), F(3,<<146>>), F(9,<<120>>), F(11,<<138>>), X(<<2,5,6,
    7,14,0,16,10,3,1,12,13,8,4,9,11,17,15>>), P(35,85,96), P(21,93,104), P(20,77,88), P(30,95,104),
    P(43,89,104), P(33,93,104), P(36,83,96), P(22,73,88), P(18,83,96), P(26,81,96), P(41,75,88),
    P(23,73,88), P(34,95,104), P(44,76,88), P(24,86,96), P(32,92,104), P(37,80,88), P(38,73,88),
    P(31,85,96), P(29,89,104), P(28,92,104), P(25,76,88), P(27,94,104), P(42,90,104), P(39,73,88),
    P(19,85,96), P(40,80,88), K(45,19,8192)>>)

Test041 == FlattenSeq(<<
    F(23,<<81>>), F(26,<<77>>), F(2,<<81>>), F(19,<<76>>), F(7,<<93>>), P(16,149,160), P(2,142,152),
    F(15,<<86>>), F(17,<<93>>), P(12,125,136), F(1,<<94>>), F(25,<<75>>), F(22,<<88>>),
    F(11,<<89>>), F(16,<<91>>), F(3,<<88>>), P(11,117,128), F(21,<<94>>), P(15,130,144),
    F(6,<<88>>), F(5,<<79>>), P(25,131,144), F(0,<<87>>), P(19,121,136), F(4,<<89>>), F(9,<<93>>),
    F(14,<<89>>), F(13,<<88>>), F(18,<<80>>), F(12,<<85>>), F(20,<<94>>), F(10,<<89>>),
    F(24,<<92>>), P(5,142,152), F(8,<<84>>), P(26,117,128), X(<<14>>), P(14,140,152), X(<<7>>),
    P(13,121,136), X(<<24>>), P(18,135,144), P(4,128,136), X(<<16,9,8>>), P(20,132,144),
    P(1,123,136), X(<<10,15,22>>), P(17,134,144), X(<<26,13>>), P(0,114,128), P(7,118,128), X(<<25,
    2,1,6,11,19,12>>), P(23,122,136), P(3,124,136), P(6,124,136), X(<<4,21,18>>), P(21,130,144),
    P(8,131,144), X(<<3>>), P(10,140,152), X(<<17>>), P(9,137,152), X(<<23,20>>), P(22,116,128),
    X(<<0>>), P(24,134,144), X(<<5>>), C, K(27,9,8192)>>)

Test042 == FlattenSeq(<<
    F(21,<<88>>), P(8,113,128), F(14,<<75>>), F(3,<<84>>), F(0,<<94>>), F(4,<<79>>), F(7,<<89>>),
    F(25,<<75>>), F(24,<<93>>), F(15,<<90>>), P(16,129,144), F(9,<<87,76>>), F(20,<<90>>),
    P(9,138,152), F(11,<<82>>), P(12,145,160), F(27,<<81>>), F(19,<<92>>), P(19,126,136),
    F(22,<<85>>), F(8,<<91>>), P(21,137,152), F(16,<<78>>), F(6,<<83>>), P(14,123,136), F(1,<<86>>),
    F(18,<<93>>), F(5,<<76>>), F(2,<<91>>), F(13,<<95>>), P(26,143,152), P(15,138,152),
    P(10,121,136), F(12,<<90>>), F(23,<<90>>), P(6,149,160), P(23,133,144), F(26,<<80>>),
    P(18,138,152), P(25,134,144), F(17,<<80>>), P(0,148,160), P(7,124,136), P(4,132,144),
    P(20,119,128), X(<<6>>), P(11,143,152), P(27,115,128), X(<<25>>), P(2,149,160), X(<<9,15>>),
    P(1,115,128), X(<<7,5>>), P(13,136,144), P(22,149,160), X(<<12,22>>), P(3,128,136),
    X(<<1,21,27>>), P(17,145,160), X(<<14,17,24,13,26>>), P(5,122,136), X(<<18,10,20>>),
    P(24,150,160), X(<<8,4,23,0,19,3,16,2,11>>), C, K(28,12,8192)>>)

Test043 == FlattenSeq(<<
    F(19,<<92>>), F(22,<<92>>), P(19,141,152), P(23,145,160), P(14,135,144), P(2,129,144),
    F(16,<<76>>), F(12,<<88>>), P(8,144,152), P(16,149,160), F(13,<<86>>), F(27,<<86>>),
    P(12,116,128), F(0,<<74>>), F(23,<<84>>), P(0,116,128), P(7,140,152), P(26,131,144),
    F(18,<<83>>), F(14,<<82>>), P(5,142,152), P(9,138,152), F(4,<<84>>), F(17,<<73>>), F(1,<<79>>),
    F(5,<<89>>), P(22,144,152), F(7,<<89>>), F(15,<<91>>), F(20,<<74>>), F(10,<<81>>), F(24,<<92>>),
    F(2,<<73>>), F(26,<<85>>), F(9,<<91>>), P(18,129,144), P(20,144,152), F(3,<<95>>), P(4,146,160),
    F(6,<<92>>), F(25,<<85>>), F(8,<<78>>), F(21,<<83>>), F(11,<<75>>), X(<<14,5,19,12,8,15>>),
    P(15,119,128), X(<<20,11>>), P(27,127,136), X(<<25>>), P(3,133,144), P(21,145,160), X(<<10>>),
    P(1,117,128), X(<<4,3>>), P(25,125,136), X(<<18,17,0>>), P(13,124,136), X(<<7,13,9,2,27>>),
    P(24,128,136), P(10,142,152), X(<<21,26>>), P(17,118,128), X(<<16>>), P(11,120,128),
    X(<<22,1,24,23>>), P(6,134,144), X(<<6>>), C, K(28,10,8192)>>)

Test044 == FlattenSeq(<<
    P(26,117,128), P(13,127,136), F(9,<<90>>), F(22,<<91>>), F(4,<<79>>), P(2,127,136), F(6,<<80>>),
    P(17,141,152), P(5,131,144), P(6,144,152), F(20,<<73>>), F(28,<<90>>), F(25,<<78>>),
    F(12,<<79>>), F(26,<<74>>), P(28,113,128), F(21,<<78>>), P(25,147,160), P(16,121,136),
    P(20,128,136), F(18,<<76>>), P(12,146,160), F(8,<<94>>), P(4,114,128), P(18,123,136),
    F(19,<<94>>), F(13,<<90>>), F(10,<<79>>), F(24,<<89>>), P(8,146,160), P(23,129,144),
    P(21,149,160), F(11,<<76>>), F(15,<<83>>), F(2,<<78>>), F(23,<<80>>), F(1,<<81>>), P(3,114,128),
    F(5,<<95>>), F(16,<<85>>), F(0,<<81>>), F(3,<<79>>), F(7,<<77>>), F(17,<<93>>), F(27,<<93>>),
    F(14,<<87>>), X(<<8,23>>), P(1,150,160), P(9,139,152), P(14,130,144), X(<<17>>), P(11,134,144),
    X(<<12,2,26>>), P(22,133,144), P(27,113,128), P(24,133,144), X(<<21,15,10,5>>), P(0,146,160),
    P(7,123,136), X(<<24,27,13,25>>), P(10,144,152), X(<<3,4,18,19,0,22>>), P(19,122,136),
    X(<<9,7>>), P(15,136,144), X(<<28,14,20,1,6,16,11>>), C, K(29,10,8192)>>)

Test045 == FlattenSeq(<<
    P(11,121,136), F(16,<<74>>), F(3,<<80,95>>), P(20,115,128), F(18,<<85>>), F(11,<<74>>),
    F(20,<<76>>), P(15,144,152), F(8,<<77>>), P(4,129,144), F(25,<<76>>), P(13,142,152),
    F(10,<<88>>), P(18,115,128), P(17,113,128), F(23,<<85>>), F(27,<<91>>), P(16,140,152),
    F(12,<<90>>), F(15,<<80>>), F(19,<<77>>), F(26,<<73>>), P(12,127,136), P(3,129,144),
    P(10,125,136), F(0,<<87>>), F(7,<<91>>), F(17,<<88>>), F(5,<<92>>), F(9,<<78>>), P(22,127,136),
    F(1,<<83>>), F(6,<<77>>), P(8,139,152), P(14,141,152), P(25,150,160), F(21,<<87>>),
    F(13,<<74>>), F(24,<<74>>), P(0,141,152), P(7,140,152), P(5,150,160), F(2,<<74>>), F(22,<<88>>),
    F(14,<<88>>), X(<<23,22,12>>), P(2,145,160), P(1,142,152), P(24,149,160), X(<<16,1,20>>),
    P(6,141,152), X(<<14>>), P(21,117,128), X(<<13,25,21>>), P(27,126,136), X(<<0,5,19,7,18>>),
    P(19,127,136), X(<<3>>), P(9,140,152), X(<<2,10,4,9,15,11>>), P(26,143,152), X(<<8,6>>),
    P(23,140,152), X(<<27,24,26,17>>), C, K(28,12,8192)>>)

Test046 == FlattenSeq(<<
    P(22,122,136), F(25,<<86>>), P(4,132,144), P(2,114,128), P(18,117,128), F(7,<<91>>),
    F(19,<<83>>), P(3,134,144), F(17,<<81>>), F(9,<<82>>), F(26,<<78>>), P(14,125,136),
    F(13,<<88>>), P(0,148,160), F(27,<<90>>), P(7,145,160), P(6,126,136), P(16,121,136),
    P(12,148,160), P(13,130,144), P(15,114,128), P(17,125,136), F(14,<<78>>), F(24,<<79>>),
    F(5,<<82>>), F(4,<<77>>), F(20,<<89>>), F(8,<<87>>), F(22,<<95>>), F(16,<<78>>), F(1,<<93>>),
    F(21,<<82>>), P(11,148,160), F(12,<<88>>), F(10,<<93>>), F(3,<<91>>), F(11,<<73>>), F(0,<<73>>),
    P(8,120,128), F(23,<<79>>), F(18,<<75>>), F(6,<<86>>), F(15,<<75>>), F(2,<<79>>), P(24,127,136),
    X(<<8,9>>), P(23,113,128), X(<<0,23>>), P(1,144,152), X(<<18,24,2,5>>), P(25,141,152),
    P(19,142,152), X(<<13>>), P(10,146,160), X(<<22,25>>), P(27,138,152), P(26,131,144), X(<<19,15,
    21,20,1,14,17>>), P(5,131,144), X(<<6,7,12>>), P(20,151,160), P(9,140,152), X(<<27,26,3,11>>),
    P(21,125,136), X(<<10,16,4>>), C, K(28,9,8192)>>)

Test047 == FlattenSeq(<<
    F(0,<<95>>), F(5,<<94>>), F(10,<<88>>), F(6,<<90>>), P(9,141,152), F(20,<<90,78>>),
    P(23,124,136), F(22,<<93>>), F(26,<<86,85>>), P(10,127,136), F(13,<<73>>), F(16,<<77>>),
    F(1,<<81>>), F(19,<<73>>), F(7,<<94>>), F(18,<<93>>), P(28,140,152), F(17,<<82>>),
    P(16,140,152), F(15,<<94>>), P(12,118,128), P(5,139,152), F(2,<<80>>), F(8,<<77>>),
    F(23,<<81>>), P(17,136,144), P(21,132,144), F(3,<<82,84>>), P(13,117,128), F(9,<<77>>),
    F(24,<<83>>), F(28,<<74>>), F(12,<<76>>), F(25,<<79>>), F(11,<<74>>), P(15,133,144),
    P(24,115,128), F(14,<<86>>), X(<<7,1,19>>), P(19,147,160), P(2,132,144), X(<<3>>), P(1,136,144),
    P(8,113,128), X(<<25,23,11>>), P(26,129,144), X(<<15,5,21,9>>), P(22,116,128), X(<<27,26>>),
    P(11,124,136), P(6,151,160), X(<<4,2,14,10,22>>), P(27,151,160), P(20,138,152), X(<<20>>),
    P(25,133,144), X(<<0,6,24,17>>), P(0,143,152), P(14,136,144), P(7,123,136), P(4,147,160),
    X(<<12,16,8,28>>), P(18,148,160), P(3,138,152), X(<<18,13>>), C, K(29,11,8192)>>)

Test048 == FlattenSeq(<<
    F(17,<<91>>), P(2,151,160), F(18,<<73>>), F(15,<<83>>), P(25,124,136), F(0,<<74>>), F(6,<<85>>),
    P(11,151,160), F(4,<<73>>), F(23,<<75>>), F(21,<<79,89>>), F(10,<<77>>), F(24,<<76>>),
    F(2,<<87>>), P(9,141,152), F(7,<<87>>), P(16,121,136), F(11,<<90>>), P(12,139,152),
    F(20,<<85>>), P(6,136,144), F(14,<<75>>), F(8,<<88>>), P(22,150,160), P(24,132,144),
    F(27,<<91>>), F(16,<<73>>), P(17,148,160), P(19,123,136), F(1,<<92>>), F(5,<<76>>), F(9,<<74>>),
    F(13,<<91>>), F(28,<<79>>), F(3,<<78>>), P(13,133,144), F(26,<<91>>), F(19,<<82>>),
    F(12,<<80>>), F(25,<<94>>), P(26,117,128), X(<<25>>), P(1,138,152), X(<<1,14>>), P(28,146,160),
    P(15,142,152), X(<<22>>), P(10,148,160), X(<<10>>), P(8,133,144), X(<<2>>), P(0,139,152),
    P(5,120,128), P(7,139,152), X(<<6>>), P(21,140,152), X(<<12>>), P(14,148,160), P(20,135,144),
    X(<<26,7,13>>), P(23,136,144), X(<<8,4,16,5,19,3,11,28,20,24>>), P(27,124,136), P(4,150,160),
    X(<<17>>), P(3,115,128), X(<<0,18>>), P(18,150,160), X(<<9,23,15,21,27>>), C, K(29,12,8192)>>)

Test049 == FlattenSeq(<<
    P(22,116,128), F(25,<<78>>), P(21,147,160), F(26,<<93>>), F(12,<<85>>), F(1,<<83>>),
    F(8,<<80>>), P(5,139,152), F(23,<<94>>), F(2,<<86>>), F(22,<<87>>), P(10,129,144), F(17,<<87>>),
    F(16,<<81>>), F(14,<<89>>), F(3,<<90>>), F(20,<<94>>), F(9,<<85>>), F(15,<<92>>), P(29,127,136),
    F(10,<<79>>), P(24,148,160), F(29,<<89>>), F(5,<<74>>), F(4,<<81>>), P(25,127,136),
    P(16,140,152), P(12,148,160), F(6,<<77>>), P(19,128,136), F(24,<<82>>), F(21,<<85>>),
    F(7,<<84>>), P(23,136,144), F(19,<<73>>), P(26,143,152), F(11,<<76>>), P(0,145,160),
    P(7,145,160), P(9,131,144), F(28,<<94>>), P(14,131,144), P(11,138,152), F(0,<<88>>),
    F(27,<<82>>), F(18,<<80>>), F(13,<<75>>), P(17,120,128), P(1,130,144), P(2,130,144),
    X(<<27,29,8>>), P(20,122,136), X(<<11>>), P(13,120,128), X(<<24,5,26,2,20,23,13,10,15,21,0,1>>),
    P(3,119,128), P(4,115,128), P(8,115,128), P(15,150,160), X(<<16,9,12>>), P(18,142,152),
    X(<<18,25,4,7,6,28>>), P(27,148,160), X(<<14>>), P(6,122,136), X(<<3,17,22>>), P(28,123,136),
    X(<<19>>), C, K(30,13,8192)>>)

Test050 == FlattenSeq(<<
    P(10,120,128), P(14,115,128), F(21,<<75>>), F(2,<<76>>), F(17,<<92>>), P(24,114,128),
    F(5,<<94>>), P(15,128,136), F(30,<<92>>), P(26,129,144), F(28,<<83>>), P(19,148,160),
    F(16,<<73>>), F(0,<<83>>), P(11,113,128), F(7,<<76>>), F(4,<<88>>), F(19,<<94>>),
    F(8,<<86,88>>), F(3,<<93>>), F(25,<<77>>), F(15,<<77>>), F(1,<<74>>), F(24,<<77>>),
    P(22,144,152), F(27,<<76>>), P(20,145,160), P(12,150,160), P(16,140,152), F(6,<<82>>),
    F(14,<<77>>), P(29,128,136), F(10,<<93>>), F(29,<<84>>), F(26,<<73>>), F(20,<<81>>),
    F(13,<<82>>), F(22,<<83>>), F(11,<<80,82>>), P(3,139,152), F(23,<<92>>), F(18,<<87>>),
    P(1,124,136), X(<<13,27,14>>), P(2,117,128), P(4,133,144), X(<<2,10,24,6,3,28,29>>),
    P(23,120,128), X(<<25,21,8,17>>), P(18,136,144), X(<<5>>), P(28,134,144), X(<<0>>),
    P(17,143,152), P(21,151,160), X(<<4,18>>), P(25,149,160), X(<<20,26>>), P(9,132,144), X(<<16>>),
    P(30,115,128), P(13,123,136), P(5,139,152), X(<<19>>), P(0,136,144), X(<<22>>), P(7,128,136),
    X(<<12,23>>), P(8,128,136), X(<<15,7,30>>), P(27,134,144), X(<<9,1,11>>), P(6,143,152), C,
    K(31,11,8192)>>)

Test051 == FlattenSeq(<<
    P(26,117,128), P(22,139,152), P(8,148,160), P(24,131,144), F(3,<<94>>), P(2,136,144),
    F(5,<<80>>), P(19,124,136), P(28,151,160), F(1,<<80>>), F(17,<<89>>), P(21,120,128),
    F(21,<<86>>), F(10,<<92>>), F(7,<<74>>), F(14,<<86>>), F(6,<<90>>), F(2,<<73>>), F(4,<<84>>),
    F(13,<<75>>), P(23,132,144), F(0,<<73>>), P(20,131,144), F(24,<<80>>), F(19,<<87>>),
    F(11,<<81>>), P(5,148,160), F(22,<<93>>), F(27,<<95>>), P(15,148,160), F(15,<<89>>),
    F(26,<<91>>), F(28,<<91>>), P(3,144,152), F(12,<<87>>), F(25,<<87>>), P(12,121,136),
    F(9,<<75>>), P(16,121,136), F(18,<<93>>), F(16,<<84>>), F(23,<<76>>), F(8,<<82>>), P(4,136,144),
    P(10,141,152), F(20,<<80>>), P(1,126,136), X(<<8>>), P(6,128,136), P(18,127,136), P(11,140,152),
    X(<<17,16,10,7,11>>), P(0,132,144), P(7,144,152), X(<<2,1,15,20,28,4,14,13,27,19,12,21,26>>),
    P(14,138,152), X(<<25>>), P(17,116,128), X(<<23,3,22,5,24,0,6>>), P(9,132,144), P(13,139,152),
    X(<<18>>), P(25,151,160), P(27,146,160), X(<<9>>), C, K(29,13,8192)>>)

Test052 == FlattenSeq(<<
    P(27,120,128), F(27,<<74>>), F(9,<<95>>), P(13,126,136), F(28,<<95>>), F(20,<<84>>),
    P(6,114,128), P(9,133,144), P(8,141,152), F(25,<<77>>), F(19,<<84>>), P(20,118,128),
    F(22,<<85>>), F(10,<<95>>), F(26,<<73>>), F(21,<<82>>), F(5,<<83>>), F(23,<<93>>),
    P(25,143,152), F(11,<<92>>), P(3,120,128), F(18,<<90>>), F(16,<<78>>), F(8,<<90>>),
    F(15,<<83>>), F(7,<<86>>), F(0,<<76>>), F(13,<<89>>), F(1,<<73>>), P(0,138,152), P(4,151,160),
    P(7,122,136), F(2,<<83>>), F(4,<<73>>), F(14,<<73>>), P(28,117,128), P(12,141,152),
    F(29,<<89>>), F(12,<<74>>), P(21,127,136), P(16,151,160), F(6,<<92>>), P(15,117,128),
    F(17,<<92>>), P(18,130,144), F(3,<<76>>), P(1,118,128), F(24,<<80>>), X(<<12,26>>),
    P(2,115,128), P(29,140,152), P(14,149,160), X(<<18,20,14,23,10,1,5,15,2,19>>), P(5,128,136),
    X(<<25>>), P(22,133,144), X(<<6,9,29,22,17,21,28,0>>), P(23,143,152), X(<<16>>), P(26,143,152),
    P(17,127,136), X(<<4>>), P(11,116,128), X(<<27>>), P(10,122,136), P(19,129,144), X(<<3>>),
    P(24,147,160), X(<<7,13,11,24,8>>), C, K(30,13,8192)>>)

Test053 == FlattenSeq(<<
    P(20,115,128), P(2,134,144), F(24,<<90>>), F(0,<<85>>), F(13,<<89>>), P(27,132,144),
    F(29,<<87>>), F(11,<<81>>), P(5,148,160), F(2,<<93>>), F(6,<<88>>), P(0,134,144), F(28,<<83>>),
    P(7,127,136), P(3,125,136), F(25,<<83>>), F(5,<<87>>), F(22,<<77>>), F(1,<<93>>), F(16,<<92>>),
    P(13,114,128), F(27,<<76>>), F(3,<<76>>), F(26,<<79>>), P(8,122,136), F(20,<<82>>),
    F(15,<<84>>), F(10,<<75>>), P(4,115,128), P(9,133,144), F(9,<<95>>), F(4,<<83>>), P(11,143,152),
    F(17,<<94>>), F(19,<<77>>), F(18,<<80>>), P(14,122,136), F(14,<<73>>), P(22,128,136),
    F(23,<<92>>), F(21,<<91>>), P(18,121,136), F(12,<<85>>), P(10,143,152), P(12,123,136),
    F(7,<<83>>), P(25,134,144), P(23,116,128), P(16,132,144), P(1,120,128), F(8,<<89>>), X(<<25,27,
    22,11,24,20,17,8,0,16,1>>), P(29,140,152), P(15,126,136), X(<<5>>), P(6,138,152),
    X(<<28,3,26,29>>), P(26,131,144), P(21,135,144), P(28,123,136), X(<<6,13,2,9,4,12,21>>),
    P(19,144,152), X(<<19>>), P(24,125,136), X(<<18,15,14>>), P(17,139,152), X(<<7,23,10>>), C,
    K(30,15,8192)>>)

Test054 == FlattenSeq(<<
    P(22,122,136), F(11,<<82>>), P(23,127,136), F(15,<<85>>), P(17,150,160), F(2,<<92>>),
    F(23,<<93>>), F(13,<<89>>), P(14,144,152), F(24,<<93>>), P(27,145,160), F(19,<<87>>),
    P(21,142,152), F(28,<<82>>), F(14,<<73>>), P(28,139,152), F(17,<<83>>), F(26,<<81>>),
    F(9,<<80>>), F(29,<<90>>), P(4,130,144), F(3,<<86>>), F(10,<<93>>), F(20,<<84>>), P(6,124,136),
    F(6,<<74>>), F(27,<<88>>), F(0,<<89>>), F(4,<<82>>), F(8,<<75>>), F(25,<<81>>), F(21,<<76>>),
    P(8,143,152), P(18,113,128), F(1,<<93>>), P(13,129,144), F(30,<<75>>), F(5,<<73>>),
    F(22,<<93>>), F(16,<<88>>), P(9,134,144), F(7,<<84>>), P(12,132,144), P(1,123,136),
    F(18,<<73>>), F(12,<<95>>), P(5,128,136), P(16,151,160), P(2,141,152), X(<<22>>), P(30,126,136),
    X(<<6,23,20,15,4,14>>), P(26,118,128), X(<<27,16>>), P(11,130,144), X(<<24,21>>), P(25,126,136),
    X(<<7,3>>), P(29,113,128), X(<<28,25>>), P(19,149,160), X(<<5,29,12,13>>), P(24,141,152),
    X(<<1>>), P(15,134,144), X(<<19,26>>), P(0,129,144), X(<<9>>), P(7,144,152), X(<<11>>),
    P(10,124,136), X(<<17>>), P(20,141,152), X(<<2,10,30,0,18>>), P(3,129,144), X(<<8>>), C,
    K(31,14,8192)>>)

Test055 == FlattenSeq(<<
    F(20,<<77>>), F(12,<<88>>), F(10,<<94>>), F(8,<<90>>), F(22,<<74>>), F(7,<<86>>), F(13,<<85>>),
    F(0,<<82>>), P(25,120,128), P(18,146,160), F(3,<<86>>), F(26,<<78>>), F(16,<<86>>),
    P(15,123,136), F(4,<<80>>), F(15,<<80>>), F(24,<<89>>), F(2,<<87>>), P(17,145,160),
    P(5,117,128), F(9,<<88>>), P(23,150,160), F(14,<<80>>), P(0,131,144), F(5,<<85>>), F(19,<<80>>),
    P(6,145,160), P(7,127,136), F(25,<<92>>), P(22,150,160), F(21,<<89>>), P(11,144,152),
    P(26,143,152), F(18,<<92>>), F(17,<<91>>), P(1,117,128), F(11,<<82>>), F(6,<<88>>),
    P(8,117,128), F(1,<<75>>), F(23,<<85>>), P(12,123,136), P(2,139,152), X(<<24>>), P(19,130,144),
    X(<<8>>), P(13,132,144), P(16,151,160), X(<<22,3,9,19>>), P(24,146,160), X(<<12,25>>),
    P(14,139,152), X(<<11,17,0>>), P(20,125,136), X(<<7,4,14>>), P(3,149,160), P(9,135,144),
    P(10,126,136), X(<<15>>), P(21,146,160), X(<<16,20,13,26,21,18,10,23,2,1>>), P(4,137,152),
    X(<<5,6>>), C, K(27,12,8192)>>)

Test056 == FlattenSeq(<<
    P(22,145,160), F(7,<<73>>), F(5,<<85>>), P(18,148,160), P(0,127,136), F(21,<<82>>),
    P(7,143,152), F(20,<<90>>), F(16,<<86>>), F(0,<<95>>), F(12,<<91>>), F(22,<<95>>),
    P(21,115,128), F(19,<<76>>), F(11,<<82>>), F(26,<<88>>), F(8,<<86>>), F(23,<<88,75>>),
    F(10,<<76>>), P(10,147,160), F(14,<<74>>), P(26,131,144), F(1,<<80>>), F(18,<<83>>),
    F(17,<<92>>), P(15,132,144), P(17,118,128), P(25,150,160), F(6,<<75>>), F(4,<<90>>),
    F(9,<<91>>), F(15,<<80>>), P(14,151,160), F(13,<<80>>), F(2,<<73>>), P(19,145,160),
    P(1,147,160), F(3,<<83>>), F(25,<<91>>), P(12,144,152), P(24,124,136), X(<<21,3>>),
    P(20,150,160), X(<<22,14>>), P(8,137,152), P(16,132,144), X(<<9,15,8>>), P(3,115,128),
    X(<<16,20,18>>), P(13,120,128), P(5,137,152), X(<<7,2,11>>), P(11,121,136), X(<<5,24,4>>),
    P(6,130,144), P(4,151,160), X(<<6,17>>), P(23,123,136), P(9,135,144), X(<<23,19,13,26,1,12,0,
    25>>), P(2,119,128), X(<<10>>), C, K(27,10,8192)>>)

Test057 == FlattenSeq(<<
    F(12,<<93>>), F(23,<<77>>), F(7,<<75>>), P(5,117,128), F(8,<<83>>), F(13,<<84>>), F(4,<<85>>),
    P(9,136,144), F(18,<<80>>), P(11,147,160), F(11,<<95>>), P(26,118,128), F(5,<<73>>),
    F(25,<<94>>), P(14,123,136), F(9,<<75>>), F(19,<<91>>), F(24,<<74>>), F(15,<<79>>),
    P(27,128,136), F(0,<<83>>), F(3,<<89>>), P(19,150,160), F(27,<<85>>), F(10,<<87>>),
    F(26,<<86>>), F(6,<<76>>), F(16,<<75,93>>), F(2,<<95>>), P(1,150,160), F(20,<<88>>),
    P(20,148,160), P(17,129,144), P(6,116,128), P(24,140,152), F(14,<<91>>), F(1,<<95>>),
    P(2,137,152), F(22,<<87>>), F(21,<<86>>), P(15,140,152), P(21,122,136), P(3,130,144), X(<<8>>),
    P(23,134,144), X(<<15>>), P(12,125,136), P(25,142,152), X(<<3,0>>), P(16,151,160),
    X(<<14,1,19>>), P(8,130,144), X(<<24>>), P(22,139,152), P(10,128,136), X(<<25,11,13,23,16,20,17,
    4,26,12,21,5,2>>), P(13,135,144), P(0,133,144), P(4,116,128), P(7,149,160), X(<<7,27,10,22,9>>),
    P(18,140,152), X(<<6,18>>), C, K(28,12,8192)>>)

Test058 == FlattenSeq(<<
    P(26,117,128), F(13,<<74>>), F(16,<<87>>), F(22,<<79,75>>), P(29,137,152), F(17,<<91>>),
    F(8,<<92>>), F(3,<<92>>), P(23,146,160), P(10,138,152), F(18,<<95>>), F(1,<<83>>), F(14,<<73>>),
    F(30,<<83>>), F(15,<<86>>), F(12,<<75>>), F(26,<<81>>), F(10,<<91>>), P(19,126,136),
    F(29,<<74>>), P(9,136,144), F(6,<<93>>), F(24,<<91>>), P(27,140,152), P(20,134,144),
    F(20,<<94>>), F(2,<<84>>), F(25,<<84>>), F(11,<<75>>), P(22,134,144), F(21,<<94>>),
    P(24,129,144), F(5,<<75>>), P(3,135,144), P(1,141,152), F(0,<<94>>), F(19,<<81>>), F(9,<<94>>),
    P(5,137,152), P(11,135,144), F(27,<<82,79>>), F(4,<<85>>), F(7,<<79>>), P(0,129,144), X(<<26>>),
    P(17,141,152), P(7,126,136), P(12,135,144), X(<<7,10,0,20,8,6>>), P(16,132,144), X(<<14,15,3>>),
    P(15,149,160), P(30,150,160), X(<<11>>), P(4,130,144), X(<<17,21>>), P(8,150,160),
    X(<<23,24,1,27>>), P(25,144,152), X(<<30,9,22,12,29,16>>), P(21,130,144), P(18,131,144),
    X(<<19,25>>), P(13,123,136), X(<<18>>), P(28,139,152), P(14,146,160), X(<<2,13,4>>),
    P(2,145,160), X(<<5,28>>), P(6,140,152), C, K(31,11,8192)>>)

Test059 == FlattenSeq(<<
    P(13,149,160), P(22,128,136), P(25,136,144), F(17,<<82>>), F(15,<<94>>), F(6,<<80>>),
    F(18,<<83>>), F(2,<<75>>), F(21,<<94>>), P(19,131,144), F(8,<<82>>), F(14,<<92>>), F(5,<<94>>),
    F(0,<<90>>), F(19,<<91>>), P(21,137,152), P(20,132,144), F(1,<<82>>), F(9,<<73>>), F(24,<<87>>),
    P(3,150,160), P(0,124,136), F(10,<<81>>), F(20,<<87>>), P(24,145,160), F(26,<<76>>),
    P(7,143,152), F(23,<<82>>), F(11,<<92>>), P(1,144,152), F(12,<<81>>), F(16,<<76>>), F(3,<<76>>),
    F(13,<<84>>), P(9,137,152), F(7,<<95>>), F(25,<<74>>), F(22,<<93>>), P(2,124,136), F(4,<<77>>),
    X(<<23,2,22,5>>), P(6,137,152), X(<<21,11,16,6,1,12,20>>), P(12,116,128), X(<<15>>),
    P(4,134,144), P(17,113,128), X(<<25>>), P(10,119,128), X(<<17>>), P(16,123,136), X(<<9>>),
    P(14,118,128), X(<<7,13,26>>), P(23,118,128), X(<<4>>), P(18,134,144), X(<<24,10>>),
    P(8,143,152), P(11,122,136), P(15,118,128), X(<<8>>), P(5,145,160), P(26,143,152),
    X(<<18,19,14,3,0>>), C, K(27,10,8192)>>)

Test060 == FlattenSeq(<<
    F(23,<<91>>), P(15,138,152), F(19,<<87>>), P(7,148,160), F(1,<<93>>), F(11,<<92>>),
    P(20,118,128), P(10,140,152), F(22,<<91>>), P(6,122,136), F(14,<<86>>), P(13,126,136),
    F(25,<<90>>), P(3,116,128), F(4,<<87>>), F(0,<<80>>), P(24,123,136), P(11,149,160), F(3,<<73>>),
    F(15,<<94>>), F(13,<<73>>), P(25,127,136), F(24,<<79>>), P(5,126,136), F(2,<<84>>),
    F(21,<<87>>), F(8,<<84>>), F(26,<<86>>), F(20,<<77>>), F(16,<<93>>), F(9,<<93>>), P(23,130,144),
    F(5,<<94>>), P(1,135,144), F(7,<<82>>), F(17,<<83>>), F(10,<<80>>), F(6,<<90>>), F(18,<<80>>),
    P(14,130,144), F(12,<<84>>), P(4,137,152), X(<<22>>), P(21,134,144), X(<<23>>), P(9,137,152),
    P(12,137,152), X(<<24,1,11>>), P(16,143,152), P(22,123,136), P(18,125,136), P(17,125,136),
    X(<<18,9,7,21>>), P(26,131,144), X(<<14,2,19,5,0,13,26,16,17,4,20,10,15>>), P(8,124,136),
    X(<<3,8,12,6>>), P(2,143,152), X(<<25>>), P(0,120,128), P(19,146,160), C, K(27,14,8192)>>)

OnePageTests == <<
    Test001, Test002, Test003, Test004, Test005, Test006, Test007, Test008, Test009, Test010,
    Test011, Test012, Test013, Test014, Test015, Test016, Test017, Test018, Test019, Test020,
    Test021, Test022, Test023, Test024, Test025, Test026, Test027, Test028, Test029, Test030,
    Test041, Test042, Test043, Test044, Test045, Test046, Test047, Test048, Test049, Test050,
    Test051, Test052, Test053, Test054, Test055, Test056, Test057, Test058, Test059, Test060>>
==============================================================================
