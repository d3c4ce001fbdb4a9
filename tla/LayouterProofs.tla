---------------------------- MODULE LayouterProofs ----------------------------
(***************************************************************************)
(* The layout is sound for every size of the NVM and of the reserve.       *)
(***************************************************************************)
EXTENDS Layouter, TLAPS

\* Aligning up gives a multiple that is not smaller (AlignUpBits with BITS_2M).
LEMMA AlignUpBlock ==
  ASSUME NEW n \in Nat
  PROVE  /\ AlignUp(n, SIZE_2M) \in Nat
         /\ AlignUp(n, SIZE_2M) >= n
         /\ AlignUp(n, SIZE_2M) % SIZE_2M = 0
  BY DEF AlignUp, SIZE_2M

\* The table of page groups has a group for each block of the NVM.
LEMMA GroupsOfNvm ==
  AlignUp(NvmBlocks * PagesPerBlock, 512) \div 512 = NvmBlocks
  BY LayoutAssumption DEF AlignUp, PagesPerBlock, SIZE_2M, SIZE_4K

\* The areas lie one behind the other and the data blocks fit behind them.
LEMMA Ascending ==
  /\ blockUnmapTable \in Nat /\ pageWearTable \in Nat /\ pageUnmapTable \in Nat
  /\ reserveData \in Nat /\ dataStart \in Nat
  /\ blockWearTable + NvmBlocks * 4 <= blockUnmapTable
  /\ blockUnmapTable + NvmBlocks * 4 <= pageWearTable
  /\ pageWearTable + NvmBlocks * 2048 <= pageUnmapTable
  /\ pageUnmapTable + NvmBlocks * 592 <= reserveData
  /\ reserveData + reserveDataSize <= dataStart
  /\ dataStart % SIZE_2M = 0
<1> USE LayoutAssumption
<1>1. NvmBlocks * 4 \in Nat /\ NvmBlocks * 2048 \in Nat /\ NvmBlocks * 592 \in Nat
  OBVIOUS
<1>2. sizeOfBlockWearTable \in Nat /\ sizeOfBlockWearTable >= NvmBlocks * 4
  BY <1>1, AlignUpBlock DEF sizeOfBlockWearTable, SIZE_UINT32
<1>3. sizeOfBlockUnmapTable \in Nat /\ sizeOfBlockUnmapTable >= NvmBlocks * 4
  BY <1>1, AlignUpBlock DEF sizeOfBlockUnmapTable, SIZE_UINT32
<1>4. sizeOfPageWearTable \in Nat /\ sizeOfPageWearTable >= NvmBlocks * 2048
  <2>1. NvmBlocks * PagesPerBlock * SIZE_UINT32 = NvmBlocks * 2048
    BY DEF PagesPerBlock, SIZE_2M, SIZE_4K, SIZE_UINT32
  <2> QED BY <1>1, <2>1, AlignUpBlock DEF sizeOfPageWearTable
<1>5. sizeofPageUnmapTable \in Nat /\ sizeofPageUnmapTable >= NvmBlocks * 592
  BY <1>1, GroupsOfNvm, AlignUpBlock DEF sizeofPageUnmapTable, SIZE_GROUP, SIZE_ENTRY
<1>6. /\ blockUnmapTable \in Nat /\ pageWearTable \in Nat /\ pageUnmapTable \in Nat
      /\ reserveData \in Nat
  BY <1>2, <1>3, <1>4, <1>5
     DEF blockWearTable, blockUnmapTable, pageWearTable, pageUnmapTable, reserveData,
         sizeOfReservedSpace, SIZE_2M
<1>7. reserveData + reserveDataSize \in Nat
  BY <1>6
<1>8. /\ dataStart \in Nat /\ reserveData + reserveDataSize <= dataStart
      /\ dataStart % SIZE_2M = 0
  BY <1>7, AlignUpBlock DEF dataStart
<1> QED
  BY <1>1, <1>2, <1>3, <1>4, <1>5, <1>6, <1>8
     DEF blockWearTable, blockUnmapTable, pageWearTable, pageUnmapTable, reserveData,
         sizeOfReservedSpace, SIZE_2M

\* The data blocks are the NVM without what lies before dataStart.
LEMMA Counts ==
  /\ BlockNumQuery \in Nat /\ BlockNumQuery >= LOGIC_BLOCK_RESERVE_NUM
  /\ BlockNumQuery <= NvmBlocks
  /\ dataStart + BlockNumQuery * SIZE_2M = NVMSizeQuery
  /\ PageNumQuery = BlockNumQuery * 512
  BY LayoutAssumption, Ascending
     DEF BlockNumQuery, PageNumQuery, NVMSizeQuery, SIZE_2M, SIZE_4K,
         LOGIC_BLOCK_RESERVE_NUM

\* For every NVM and every reserve, no table entry of a block or page lies
\* outside the area LayouterInit gives its table.
THEOREM LayoutTablesApart == TablesApart
<1>1. ASSUME NEW b \in DataBlocks
      PROVE  /\ Within(BlockWearAddr(b), SIZE_UINT32, blockWearTable, blockUnmapTable)
             /\ Within(BlockUnmapAddr(b), SIZE_UINT32, blockUnmapTable, pageWearTable)
  BY LayoutAssumption, Ascending, Counts
     DEF DataBlocks, Within, BlockWearAddr, BlockUnmapAddr, SIZE_UINT32, blockWearTable,
         sizeOfReservedSpace, SIZE_2M
<1>2. ASSUME NEW b \in DataBlocks, NEW i \in 0 .. PagesPerBlock - 1
      PROVE  Within(PageUnmapAddr(b, i), SIZE_ENTRY, pageUnmapTable, reserveData)
  <2>1. i \div 7 \in 0 .. 73
    BY DEF PagesPerBlock, SIZE_2M, SIZE_4K
  <2>2. b \in Nat /\ b * 592 + 592 <= NvmBlocks * 592
    BY LayoutAssumption, Counts DEF DataBlocks
  <2> QED
    BY <2>1, <2>2, LayoutAssumption, Ascending
       DEF Within, PageUnmapAddr, SIZE_ENTRY, SIZE_GROUP
<1>3. ASSUME NEW p \in 0 .. PageNumQuery - 1
      PROVE  Within(PageWearAddr(p), SIZE_UINT32, pageWearTable, pageUnmapTable)
  BY LayoutAssumption, Ascending, Counts DEF Within, PageWearAddr, SIZE_UINT32
<1> QED
  BY <1>1, <1>2, <1>3, Ascending DEF TablesApart

\* For every NVM and every reserve, the blocks and pages the map table deals
\* with are inside the NVM and block and page numbers agree.
THEOREM LayoutDataInside == DataInside
<1>1. ASSUME NEW b \in DataBlocks
      PROVE  /\ Within(block_to_nvm_addr(b), SIZE_2M, dataStart, NVMSizeQuery)
             /\ nvm_addr_to_block(block_to_nvm_addr(b)) = b
             /\ page_to_block(block_to_page(b)) = b
  BY LayoutAssumption, Ascending, Counts
     DEF DataBlocks, Within, block_to_nvm_addr, nvm_addr_to_block, page_to_block,
         block_to_page, NVMSizeQuery, PagesPerBlock, SIZE_2M, SIZE_4K
<1>2. ASSUME NEW p \in 0 .. PageNumQuery - 1
      PROVE  /\ Within(page_to_nvm_addr(p), SIZE_4K, dataStart, NVMSizeQuery)
             /\ nvm_addr_to_page(page_to_nvm_addr(p)) = p
             /\ page_to_block(p) = nvm_addr_to_block(page_to_nvm_addr(p))
  BY LayoutAssumption, Ascending, Counts
     DEF Within, page_to_nvm_addr, nvm_addr_to_page, page_to_block,
         nvm_addr_to_block, NVMSizeQuery, PagesPerBlock, SIZE_2M, SIZE_4K
<1> QED
  BY <1>1, <1>2 DEF DataInside

\* The wear leveler's own logical blocks are apart from each other and from
\* those of the file system.
THEOREM LayoutReservedApart == ReservedApart
  BY Counts
     DEF ReservedApart, logical_addr_to_block, blockSwapLogLogicAddr,
         pageSwapLogLogicAddr, pageSwapAreaLogicAddr, LOGIC_BLOCK_RESERVE_NUM,
         WearLevelerLogicBlockNumQuery, SIZE_2M
=============================================================================
